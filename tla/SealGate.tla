------------------------------- MODULE SealGate -------------------------------
(***************************************************************************)
(* What stands between a daemon and its upstream: the sealer that login    *)
(* installs and logout wipes, the seal decision that the whoami handshake  *)
(* samples, and the active brain (agent/sync.go, agent/seal_handlers.go,   *)
(* agent/endpoint.go, auth/envelope.go, serve handleWhoami).  The enqueue  *)
(* helpers and pullKind read them one after the other, row by row, while   *)
(* the user logs in and out.                                               *)
(*                                                                         *)
(* A sealer is the number of its login, 0 for none: SetSealer always       *)
(* installs a fresh object and wipes the one before, so a sealer read      *)
(* earlier is wiped as soon as it is not the current one.  Every login     *)
(* derives the same key.  A row is the rank of its key, as in PullCursor.  *)
(* A brain holds both forms of rows: what other devices captured when      *)
(* nobody was logged in, or under another policy, is not converted.        *)
(***************************************************************************)
EXTENDS Naturals, FiniteSets

CONSTANTS
  Brains,
  Personal,     \* the brain a request without ?brain= acts in
  E2E,          \* brains whose policy is "e2e" at first; the others' is "server-side"
  MultiTenant,  \* does the server know brains at all
  Rows,         \* Rows[b]: the keys of one kind that b holds upstream
  Envelopes,    \* Envelopes[b]: those whose blob is an envelope; the rest are JSON
  Limit,        \* rows per page
  Items,        \* what this machine captures and enqueues
  MaxLogins, MaxFlips, MaxSwitches, MaxFaults  \* bounds

Decision(p) == ~MultiTenant \/ p = "e2e"  \* computeShouldSeal

ASSUME SealAssumption ==
  /\ Personal \in Brains
  /\ E2E \subseteq {Personal}             \* handleSetPolicy refuses it for a shared brain
  /\ MultiTenant \in BOOLEAN
  /\ {Rows, Envelopes} \subseteq [Brains -> SUBSET (Nat \ {0})]
  /\ Limit \in Nat \ {0}
  /\ {MaxLogins, MaxFlips, MaxSwitches, MaxFaults} \subseteq Nat

VARIABLES
  policy,      \* brains.encryption_policy
  chosen,      \* the active_brain file
  alive,       \* does the daemon run
  brain,       \* SyncClient.brain
  sealer,      \* SyncClient.sealer
  shouldSeal,  \* SyncClient.shouldSeal
  sampler,     \* the goroutines of Start and of SetActiveBrain
  answer,      \* what whoami told each of them
  enq,         \* where each enqueue is, or how it ended
  held,        \* the sealer an enqueue has read
  outbox,      \* <<item, sealed>>
  pc, cur, page, full,  \* pullKind
  opener,      \* the sealer the row at hand is opened with
  saved,       \* sync_state.cursor of the kind
  got,         \* rows ingested, by brain
  refused,     \* history: rows that did not have the form expected of them
  missed,      \* history: rows of which a statement failed
  logins, flips, switches, faults,
  mixed,       \* history: a page was read under more than one sealer or decision
  plainBy      \* history: what the decision rested on when an item was left plain

samplers == <<sampler, answer>>
ingest == <<got, refused, missed>>
enqueue == <<enq, held, outbox, plainBy>>
pull == <<pc, cur, page, full, opener, saved, ingest, mixed>>
counters == <<logins, flips, switches, faults>>
vars == <<policy, chosen, alive, brain, sealer, shouldSeal, samplers, enqueue, pull, counters>>

Samplers == {"start", "brain"}

InitialPolicy == [b \in Brains |-> IF b \in E2E THEN "e2e" ELSE "server-side"]

-------------------------------------------------------------------------------
(* The process *)

(* Mutant: plaintext until whoami asks for more. *)
FailOpen == FALSE

(* NewSyncClient: "Fail closed: seal until whoami says otherwise".          *)
Default == TRUE

(* NewSyncClient, SetActiveBrain with the file's brain, Start.              *)
Sampling(b) == [g \in Samplers |-> IF g = "start" \/ b # Personal THEN "ask" ELSE "off"]

Init ==
  /\ policy = InitialPolicy
  /\ chosen = Personal /\ brain = Personal
  /\ alive = TRUE
  /\ sealer = 0
  /\ shouldSeal = Default
  /\ sampler = Sampling(Personal)
  /\ answer = [g \in Samplers |-> TRUE]
  /\ enq = [e \in Items |-> "new"]
  /\ held = [e \in Items |-> 0]
  /\ outbox = {}
  /\ pc = "idle" /\ cur = 0 /\ page = {} /\ full = FALSE /\ opener = 0
  /\ saved = 0
  /\ got = {} /\ refused = {} /\ missed = {}
  /\ logins = 0 /\ flips = 0 /\ switches = 0 /\ faults = 0
  /\ mixed = FALSE
  /\ plainBy = [e \in Items |-> "-"]

(* `resleeve up` *)
Up ==
  /\ ~alive
  /\ alive' = TRUE
  /\ brain' = chosen
  /\ sampler' = Sampling(chosen)
  /\ UNCHANGED <<policy, chosen, sealer, shouldSeal, answer, enqueue, pull, counters>>

(* All that is in memory goes; a request that was being handled is lost.    *)
Stops ==
  /\ alive' = FALSE
  /\ sealer' = 0
  /\ shouldSeal' = Default
  /\ sampler' = [g \in Samplers |-> "off"]
  /\ enq' = [e \in Items |-> IF enq[e] \in {"decide", "seal", "plain"} THEN "lost" ELSE enq[e]]
  /\ pc' = "idle"
  /\ page' = {}

(* `resleeve down`, or a crash.                                             *)
Down ==
  /\ alive
  /\ faults < MaxFaults
  /\ Stops
  /\ faults' = faults + 1
  /\ UNCHANGED <<policy, chosen, brain, answer, held, outbox, plainBy,
                 cur, full, opener, saved, ingest, mixed, logins, flips, switches>>

(* A row that is opened under another sealer or decision than the rest.     *)
Disturb == mixed' = (mixed \/ pc # "idle")

(* POST /v1/seal/unlock: SetSealer *)
Unlock ==
  /\ alive
  /\ logins < MaxLogins
  /\ logins' = logins + 1
  /\ sealer' = logins + 1
  /\ Disturb
  /\ UNCHANGED <<policy, chosen, alive, brain, shouldSeal, samplers, enqueue,
                 pc, cur, page, full, opener, saved, ingest, flips, switches, faults>>

(* POST /v1/seal/lock: ClearSealer *)
Lock ==
  /\ alive
  /\ sealer # 0
  /\ sealer' = 0
  /\ Disturb
  /\ UNCHANGED <<policy, chosen, alive, brain, shouldSeal, samplers, enqueue,
                 pc, cur, page, full, opener, saved, ingest, counters>>

(* `resleeve brain use`: WriteActiveBrain; the daemon reads it when it is   *)
(* started again.                                                           *)
BrainUse(b) ==
  /\ b # chosen
  /\ switches < MaxSwitches
  /\ chosen' = b
  /\ switches' = switches + 1
  /\ UNCHANGED <<policy, alive, brain, sealer, shouldSeal, samplers, enqueue, pull,
                 logins, flips, faults>>

(* `resleeve brain encrypt`: handleSetPolicy; what is stored is not         *)
(* encrypted again.                                                         *)
SetPolicy(p) ==
  /\ MultiTenant
  /\ policy[Personal] # p
  /\ flips < MaxFlips
  /\ policy' = [policy EXCEPT ![Personal] = p]
  /\ flips' = flips + 1
  /\ UNCHANGED <<chosen, alive, brain, sealer, shouldSeal, samplers, enqueue, pull,
                 logins, switches, faults>>

-------------------------------------------------------------------------------
(* sampleSealDecision *)

(* fetchWhoami, answered by handleWhoami for the brain of the client.       *)
Whoami(g) ==
  /\ sampler[g] = "ask"
  /\ answer' = [answer EXCEPT ![g] = Decision(policy[brain])]
  /\ sampler' = [sampler EXCEPT ![g] = "set"]
  /\ UNCHANGED <<policy, chosen, alive, brain, sealer, shouldSeal, enqueue, pull, counters>>

(* The request fails or times out: nothing asks again.                      *)
WhoamiFails(g) ==
  /\ sampler[g] = "ask"
  /\ faults < MaxFaults
  /\ faults' = faults + 1
  /\ sampler' = [sampler EXCEPT ![g] = "failed"]
  /\ UNCHANGED <<policy, chosen, alive, brain, sealer, shouldSeal, answer, enqueue, pull,
                 logins, flips, switches>>

SetShouldSeal(g) ==
  /\ sampler[g] = "set"
  /\ shouldSeal' = answer[g]
  /\ mixed' = (mixed \/ (pc # "idle" /\ shouldSeal # answer[g]))
  /\ sampler' = [sampler EXCEPT ![g] = "done"]
  /\ UNCHANGED <<policy, chosen, alive, brain, sealer, answer, enqueue,
                 pc, cur, page, full, opener, saved, ingest, counters>>

-------------------------------------------------------------------------------
(* EnqueueSession, EnqueueEvents (for each event), EnqueueScope, EnqueuePlan *)
(* and EnqueueLearning                                                       *)

GetSealer(e) ==
  /\ alive
  /\ enq[e] \in {"new", "lost"}    \* the caller comes back with what was lost
  /\ held' = [held EXCEPT ![e] = sealer]
  /\ enq' = [enq EXCEPT ![e] = IF sealer = 0 THEN "plain" ELSE "decide"]
  /\ plainBy' = [plainBy EXCEPT ![e] = IF sealer = 0 THEN "nobody" ELSE "-"]
  /\ UNCHANGED <<policy, chosen, alive, brain, sealer, shouldSeal, samplers, outbox, pull, counters>>

GetShouldSeal(e) ==
  /\ enq[e] = "decide"
  /\ enq' = [enq EXCEPT ![e] = IF shouldSeal THEN "seal" ELSE "plain"]
  /\ plainBy' = [plainBy EXCEPT ![e] =
       IF shouldSeal THEN "-"
       ELSE IF \E g \in Samplers : sampler[g] = "done" /\ ~answer[g] THEN "whoami" ELSE "default"]
  /\ UNCHANGED <<policy, chosen, alive, brain, sealer, shouldSeal, samplers, held, outbox,
                 pull, counters>>

(* Seal fails on a sealer that was wiped, by its check or by a panic that    *)
(* the HTTP server recovers; the row is not queued.                          *)
SealFails(e) ==
  /\ enq[e] = "seal"
  /\ held[e] # sealer
  /\ enq' = [enq EXCEPT ![e] = "lost"]
  /\ UNCHANGED <<policy, chosen, alive, brain, sealer, shouldSeal, samplers, held, outbox,
                 plainBy, pull, counters>>

EnqueueOutbox(e) ==
  /\ \/ enq[e] = "plain"
     \/ enq[e] = "seal" /\ held[e] = sealer
  /\ outbox' = outbox \cup {<<e, enq[e] = "seal">>}
  /\ enq' = [enq EXCEPT ![e] = "queued"]
  /\ UNCHANGED <<policy, chosen, alive, brain, sealer, shouldSeal, samplers, held, plainBy,
                 pull, counters>>

-------------------------------------------------------------------------------
(* pullLoop and pullKind *)

others == <<policy, chosen, brain, samplers, enqueue>>

(* parked() is asked when a cycle begins, and not again.                     *)
StartPull ==
  /\ alive
  /\ pc = "idle"
  /\ sealer # 0
  /\ pc' = "list"
  /\ cur' = saved
  /\ UNCHANGED <<others, alive, sealer, shouldSeal, page, full, opener, saved, ingest, mixed, counters>>

After(b, c) == {r \in Rows[b] : r > c}
Page(b, c) == {r \in After(b, c) : Cardinality({q \in After(b, c) : q < r}) < Limit}

List ==
  /\ pc = "list"
  /\ page' = Page(brain, cur)
  /\ full' = (Cardinality(Page(brain, cur)) = Limit)
  /\ pc' = IF Page(brain, cur) = {} THEN "idle" ELSE "row"
  /\ UNCHANGED <<others, alive, sealer, shouldSeal, cur, opener, saved, ingest, mixed, counters>>

(* The request fails, or SetCursor: the cycle is over.                       *)
PullFails ==
  /\ pc = "list" \/ (pc = "row" /\ page = {})
  /\ faults < MaxFaults
  /\ faults' = faults + 1
  /\ pc' = "idle"
  /\ UNCHANGED <<others, alive, sealer, shouldSeal, cur, page, full, opener, saved, ingest, mixed,
                 logins, flips, switches>>

Next1 == CHOOSE r \in page : \A q \in page : r <= q

(* ingestPulled, ingestMemoryRow: which sealer, if any, opens the row.       *)
PickSealer ==
  /\ pc = "row"
  /\ page # {}
  /\ opener' = IF shouldSeal THEN sealer ELSE 0
  /\ pc' = "open"
  /\ UNCHANGED <<others, alive, sealer, shouldSeal, cur, page, full, saved, ingest, mixed, counters>>

Fits == (Next1 \in Envelopes[brain]) = (opener # 0)

Ingested ==
  /\ Fits
  /\ got' = got \cup {<<brain, Next1>>}
  /\ UNCHANGED <<refused, missed, faults>>

(* An envelope without a sealer is no JSON, and a sealer opens no JSON.       *)
Refused ==
  /\ ~Fits
  /\ refused' = refused \cup {<<brain, Next1>>}
  /\ UNCHANGED <<got, missed, faults>>

(* A statement of the ingestion fails.                                       *)
Misses ==
  /\ faults < MaxFaults
  /\ faults' = faults + 1
  /\ missed' = missed \cup {<<brain, Next1>>}
  /\ UNCHANGED <<got, refused>>

(* Mutant: a row that could not be ingested moves the cursor too.            *)
OpenAlways ==
  /\ pc = "open"
  /\ opener \in {0, sealer}
  /\ Ingested \/ Refused \/ Misses
  /\ cur' = Next1
  /\ page' = page \ {Next1}
  /\ pc' = "row"
  /\ UNCHANGED <<others, alive, sealer, shouldSeal, full, opener, saved, mixed, logins, flips, switches>>

(* A row that fails is passed over and the cursor stays.                     *)
Open ==
  /\ pc = "open"
  /\ opener \in {0, sealer}
  /\ \/ Ingested /\ cur' = Next1
     \/ (Refused \/ Misses) /\ UNCHANGED cur
  /\ page' = page \ {Next1}
  /\ pc' = "row"
  /\ UNCHANGED <<others, alive, sealer, shouldSeal, full, opener, saved, mixed, logins, flips, switches>>

(* The sealer was wiped after it was read: Open returns an error ...         *)
OpenWiped ==
  /\ pc = "open"
  /\ opener \notin {0, sealer}
  /\ page' = page \ {Next1}
  /\ pc' = "row"
  /\ UNCHANGED <<others, alive, sealer, shouldSeal, cur, full, opener, saved, ingest, mixed, counters>>

(* ... or, when the wipe falls between Open's check of the AEAD and its use, *)
(* it panics in the goroutine of the loop, which takes the daemon down.      *)
OpenPanics ==
  /\ pc = "open"
  /\ opener \notin {0, sealer}
  /\ Stops
  /\ UNCHANGED <<policy, chosen, brain, answer, held, outbox, plainBy,
                 cur, full, opener, saved, ingest, mixed, counters>>

(* Mutant: the next page is asked for from the beginning.                     *)
SetCursorAnew ==
  /\ pc = "row"
  /\ page = {}
  /\ saved' = cur
  /\ cur' = 0
  /\ pc' = IF full THEN "list" ELSE "idle"
  /\ UNCHANGED <<others, alive, sealer, shouldSeal, page, full, opener, ingest, mixed, counters>>

SetCursor ==
  /\ pc = "row"
  /\ page = {}
  /\ saved' = cur
  /\ pc' = IF full THEN "list" ELSE "idle"
  /\ UNCHANGED <<others, alive, sealer, shouldSeal, cur, page, full, opener, ingest, mixed, counters>>

-------------------------------------------------------------------------------
Pulls == StartPull \/ List \/ PickSealer \/ Open \/ OpenWiped \/ OpenPanics \/ SetCursor

Next ==
  \/ Up \/ Down \/ Unlock \/ Lock
  \/ \E b \in Brains : BrainUse(b)
  \/ \E p \in {"e2e", "server-side"} : SetPolicy(p)
  \/ \E g \in Samplers : Whoami(g) \/ WhoamiFails(g) \/ SetShouldSeal(g)
  \/ \E e \in Items : GetSealer(e) \/ GetShouldSeal(e) \/ SealFails(e) \/ EnqueueOutbox(e)
  \/ Pulls \/ PullFails

Spec == Init /\ [][Next]_vars

(* A loop that can take a step takes one: the goroutines are scheduled and    *)
(* the ticker of pullLoop fires.                                              *)
FairSpec == Spec /\ WF_vars(Pulls)

-------------------------------------------------------------------------------
(* Properties *)

(* The types of the variables.                                                *)
TypeOK ==
  /\ policy \in [Brains -> {"e2e", "server-side"}]
  /\ {chosen, brain} \subseteq Brains
  /\ {alive, shouldSeal, full, mixed} \subseteq BOOLEAN
  /\ {sealer, opener, cur, saved, logins, flips, switches, faults} \subseteq Nat
  /\ sampler \in [Samplers -> {"off", "ask", "set", "failed", "done"}]
  /\ answer \in [Samplers -> BOOLEAN]
  /\ enq \in [Items -> {"new", "decide", "seal", "plain", "queued", "lost"}]
  /\ held \in [Items -> Nat]
  /\ outbox \subseteq Items \X BOOLEAN
  /\ pc \in {"idle", "list", "row", "open"}
  /\ pc = "open" => page # {}
  /\ page \subseteq Rows[brain]
  /\ got \cup refused \cup missed \subseteq Brains \X Nat
  /\ plainBy \in [Items -> {"-", "nobody", "whoami", "default"}]
  /\ ~alive => sealer = 0 /\ pc = "idle"

(* "Defaults to TRUE (seal) so we fail CLOSED: until whoami answers, we        *)
(* behave like the legacy zero-knowledge daemon" (sync.go:91): a machine that  *)
(* is logged in leaves a row plain only on an answer of this process' own      *)
(* handshake, whatever the order of restarts, logins, failures and captures.   *)
FailClosed == \A e \in Items : plainBy[e] # "default"

(* While nothing changes under a pull and the brain stays (sync.go:669-683):    *)
(* the cursor stands at a row that was ingested, so that rows which failed at    *)
(* the end of a cycle are asked for again; and of the rows before it, it passes   *)
(* none but those that had the other form or of which a statement failed.         *)
Passed == {r \in Rows[brain] : r <= saved}
NoneSkipped ==
  ~mixed /\ switches = 0 =>
    /\ saved # 0 => <<brain, saved>> \in got
    /\ \A r \in Passed : <<brain, r>> \in got \cup refused \cup missed

(* pullKind comes to its end, however the pages fall, once the machine stays      *)
(* logged in and its decision fits a row of every full page: a cycle never asks    *)
(* for the same page for ever.                                                     *)
Fitting == {r \in Rows[brain] : (r \in Envelopes[brain]) = shouldSeal}
Settled ==
  /\ alive /\ sealer # 0
  /\ \A c \in {0} \cup UNION {Rows[b] : b \in Brains} :
       Cardinality(Page(brain, c)) = Limit => Page(brain, c) \cap Fitting # {}
PullReturns == <>[]Settled => []<>(pc = "idle")

-------------------------------------------------------------------------------
(* Stated by the docs and not kept by the code (README, "Disagreements"); no *)
(* run checks it.                                                            *)

(* "at enqueue time we ALWAYS write to the outbox so capture doesn't lose         *)
(* events across a logout/login" (agent/sync.go:355-357): what a device of the     *)
(* account captured while logged out gets to the others as well.                   *)
FormsArePulled ==
  ~mixed /\ switches = 0 /\ missed = {} => \A r \in Passed : <<brain, r>> \in got

(* `brain use` "sets the machine's active brain so the daemon's sync reads and    *)
(* writes that namespace" (docs/use-cases/06-team-shared-memory.md:138-140): after  *)
(* a switch, what the cursor has passed is in the tables.                           *)
SwitchPulls ==
  ~mixed => \A r \in Passed : <<brain, r>> \in got \cup refused \cup missed
===============================================================================

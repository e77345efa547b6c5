-------------------------------- MODULE Outbox --------------------------------
(***************************************************************************)
(* The durable outbox of the local daemon and its way to the upstream:     *)
(* the outbox table (storage/sql/sqlite/sync.go), the goroutines that      *)
(* drain it (drainLoop and any number of concurrent DrainNow calls,        *)
(* agent/sync.go) and handlePush of `resleeve serve` (serve/server.go).    *)
(*                                                                         *)
(* A drain reads a batch, posts it and only then acks or bumps the rows it *)
(* read, so two drains may post the same rows; a request whose client has  *)
(* given up may still be executed; the server stores a batch row by row    *)
(* and answers with an error at the first row it cannot store.             *)
(*                                                                         *)
(* Time is abstracted: due holds the rows whose next_attempt_at has come,  *)
(* a bump takes a row out of it and Elapse puts it back (module Backoff    *)
(* looks at how long that takes).  Blobs are numbers: the n-th distinct    *)
(* blob handed to Enqueue under a key is n; 0 is "nothing stored".         *)
(***************************************************************************)
EXTENDS Naturals, FiniteSets

CONSTANTS
  Keys,       \* what rows are filed under: "<kind>/..." backend keys
  Rejected,   \* keys handlePush refuses (foreign prefix, empty or dot segment)
  Bulky,      \* keys whose blobs are too large to travel in any number ...
  BodyCap,    \* ... and how many of them fit in one request body
  Loop,       \* the drainLoop goroutine
  Callers,    \* POST /v1/sync/push-now requests
  PostIds,    \* bound: push requests that exist at one time
  BatchSize,  \* rows per batch
  MaxBlob,    \* bound: distinct blobs per key
  MaxRows,    \* bound: outbox rows ever inserted
  MaxFaults   \* bound: timeouts, broken connections and restarts

ASSUME OutboxAssumption ==
  /\ Rejected \subseteq Keys
  /\ Bulky \subseteq Keys
  /\ BodyCap \in Nat
  /\ Loop \notin Callers
  /\ BatchSize \in Nat \ {0}
  /\ MaxBlob \in Nat
  /\ MaxRows \in Nat
  /\ MaxFaults \in Nat

Drainers == Callers \cup {Loop}

NoPost == "no post"
ASSUME NoPostAssumption == NoPost \notin PostIds

VARIABLES
  outbox,     \* rows of the outbox table
  nextSeq,    \* the table's AUTOINCREMENT counter
  due,        \* seqs of rows whose next_attempt_at is not in the future
  latest,     \* latest[k]: number of the last blob handed to Enqueue under k
  sealer,     \* is a sealer installed
  pc,         \* where each drainer is
  req,        \* the post a drainer is waiting for
  posts,      \* push requests: their rows, and those already stored
  upstream,   \* upstream[k]: the blob the backend holds under k
  before,     \* DrainNow's depthBefore
  total,      \* DrainNow's total: what the call reports as pushed
  landed,     \* history: rows whose blob the backend has stored
  faults      \* how many faults have happened

table == <<outbox, nextSeq, due, latest>>
calls == <<before, total>>
remote == <<upstream, landed>>
vars == <<outbox, nextSeq, due, latest, sealer, pc, req, posts, upstream,
          before, total, landed, faults>>

Row == [seq : Nat, key : Keys, blob : Nat]

NoRequest == [state |-> "free", rows |-> {}, done |-> {}]

Init ==
  /\ outbox = {}
  /\ nextSeq = 1
  /\ due = {}
  /\ latest = [k \in Keys |-> 0]
  /\ sealer \in BOOLEAN
  /\ pc = [w \in Drainers |-> "idle"]
  /\ req = [w \in Drainers |-> NoPost]
  /\ posts = [p \in PostIds |-> NoRequest]
  /\ upstream = [k \in Keys |-> 0]
  /\ before = [c \in Callers |-> 0]
  /\ total = [c \in Callers |-> 0]
  /\ landed = {}
  /\ faults = 0

-------------------------------------------------------------------------------
(* Enqueue: EnqueueSession, EnqueueEvents, EnqueueScope, EnqueuePlan and    *)
(* EnqueueLearning all end in one INSERT OR IGNORE under UNIQUE(kind, key). *)
(* A handler may hand over the same blob again (an ingest retry, a session  *)
(* row that precedes every batch of events) or a new one (a scope update).  *)

Queued(k) == \E r \in outbox : r.key = k

(* Mutant: a plain INTEGER PRIMARY KEY, which reuses the highest seq once    *)
(* the row that held it is gone.                                           *)
EnqueueReusingSeq(k, b) ==
  /\ b = latest[k] \/ b = latest[k] + 1
  /\ b \in 1..MaxBlob
  /\ latest' = [latest EXCEPT ![k] = b]
  /\ \/ /\ ~Queued(k)
        /\ nextSeq <= MaxRows
        /\ \E s \in 1..MaxRows :
             /\ \A r \in outbox : r.seq < s
             /\ s = 1 \/ \E r \in outbox : r.seq = s - 1
             /\ outbox' = outbox \cup {[seq |-> s, key |-> k, blob |-> b]}
             /\ due' = due \cup {s}
        /\ nextSeq' = nextSeq + 1
     \/ /\ Queued(k)
        /\ UNCHANGED <<outbox, due, nextSeq>>
  /\ UNCHANGED <<sealer, pc, req, posts, remote, calls, faults>>

(* Mutant: the table without its UNIQUE(kind, key) constraint.              *)
EnqueueWithoutUnique(k, b) ==
  /\ b = latest[k] \/ b = latest[k] + 1
  /\ b \in 1..MaxBlob
  /\ nextSeq <= MaxRows
  /\ latest' = [latest EXCEPT ![k] = b]
  /\ outbox' = outbox \cup {[seq |-> nextSeq, key |-> k, blob |-> b]}
  /\ due' = due \cup {nextSeq}
  /\ nextSeq' = nextSeq + 1
  /\ UNCHANGED <<sealer, pc, req, posts, remote, calls, faults>>

EnqueueOutbox(k, b) ==
  /\ b = latest[k] \/ b = latest[k] + 1
  /\ b \in 1..MaxBlob
  /\ latest' = [latest EXCEPT ![k] = b]
  /\ \/ /\ ~Queued(k)
        /\ nextSeq <= MaxRows
        /\ outbox' = outbox \cup {[seq |-> nextSeq, key |-> k, blob |-> b]}
        /\ due' = due \cup {nextSeq}
        /\ nextSeq' = nextSeq + 1
     \/ /\ Queued(k)
        /\ UNCHANGED <<outbox, due, nextSeq>>
  /\ UNCHANGED <<sealer, pc, req, posts, remote, calls, faults>>

(* The wait set by a bump is over. *)
Elapse(s) ==
  /\ s \notin due
  /\ \E r \in outbox : r.seq = s
  /\ due' = due \cup {s}
  /\ UNCHANGED <<outbox, nextSeq, latest, sealer, pc, req, posts, remote, calls, faults>>

SetSealer ==
  /\ ~sealer
  /\ sealer' = TRUE
  /\ UNCHANGED <<table, pc, req, posts, remote, calls, faults>>

ClearSealer ==
  /\ sealer
  /\ sealer' = FALSE
  /\ UNCHANGED <<table, pc, req, posts, remote, calls, faults>>

-------------------------------------------------------------------------------
(* drainOnce, up to the request: DequeueOutbox reads the first BatchSize    *)
(* due rows in seq order and leaves them in the table.                      *)

Ready == {r \in outbox : r.seq \in due}

DequeueOutbox ==
  {r \in Ready : Cardinality({q \in Ready : q.seq < r.seq}) < BatchSize}

Post(w, p) ==
  /\ posts[p].state = "free"
  /\ posts' = [posts EXCEPT ![p] = [state |-> "open", rows |-> DequeueOutbox, done |-> {}]]
  /\ req' = [req EXCEPT ![w] = p]
  /\ pc' = [pc EXCEPT ![w] = "wait"]

(* drainLoop's tick: parked without a sealer, nothing to do without rows.   *)
DrainLoop(p) ==
  /\ pc[Loop] = "idle"
  /\ sealer
  /\ Ready # {}
  /\ Post(Loop, p)
  /\ UNCHANGED <<table, sealer, remote, calls, faults>>

(* DrainNow: depth, drainOnce, depth, until a batch removes nothing.  It    *)
(* does not look at the sealer.                                             *)
PushNow(c) ==
  /\ pc[c] = "idle"
  /\ pc' = [pc EXCEPT ![c] = "depth"]
  /\ total' = [total EXCEPT ![c] = 0]
  /\ UNCHANGED <<table, sealer, req, posts, remote, before, faults>>

DepthBefore(c) ==
  /\ pc[c] = "depth"
  /\ before' = [before EXCEPT ![c] = Cardinality(outbox)]
  /\ pc' = [pc EXCEPT ![c] = IF outbox = {} THEN "idle" ELSE "drain"]
  /\ UNCHANGED <<table, sealer, req, posts, remote, total, faults>>

DrainNow(c, p) ==
  /\ pc[c] = "drain"
  /\ Ready # {}
  /\ Post(c, p)
  /\ UNCHANGED <<table, sealer, remote, calls, faults>>

NothingDue(c) ==
  /\ pc[c] = "drain"
  /\ Ready = {}
  /\ pc' = [pc EXCEPT ![c] = "count"]
  /\ UNCHANGED <<table, sealer, req, posts, remote, calls, faults>>

(* pushed := depthBefore - depthAfter.  The call returns when pushed <= 0,  *)
(* and after maxBatches batches, which is any batch here.                   *)
DepthAfter(c) ==
  /\ pc[c] = "count"
  /\ \/ /\ Cardinality(outbox) >= before[c]
        /\ pc' = [pc EXCEPT ![c] = "idle"]
        /\ UNCHANGED total
     \/ /\ Cardinality(outbox) < before[c]
        /\ total' = [total EXCEPT ![c] = @ + (before[c] - Cardinality(outbox))]
        /\ \E next \in {"depth", "idle"} : pc' = [pc EXCEPT ![c] = next]
  /\ UNCHANGED <<table, sealer, req, posts, remote, before, faults>>

-------------------------------------------------------------------------------
(* handlePush, row by row in batch order.                                   *)

Waiting(p) == \E w \in Drainers : req[w] = p

Answer(p, reply) ==
  posts' = [posts EXCEPT ![p] =
              IF Waiting(p) THEN [@ EXCEPT !.state = reply] ELSE NoRequest]

TooLarge(p) == Cardinality({r \in posts[p].rows : r.key \in Bulky}) > BodyCap

Todo(p) == posts[p].rows \ posts[p].done

IsNext(p, r) == \A q \in Todo(p) : r.seq <= q.seq

PutRow(p) ==
  /\ posts[p].state = "open"
  /\ ~TooLarge(p)
  /\ \E r \in Todo(p) :
       /\ IsNext(p, r)
       /\ r.key \notin Rejected
       /\ upstream' = [upstream EXCEPT ![r.key] = r.blob]
       /\ landed' = landed \cup {r}
       /\ posts' = [posts EXCEPT ![p].done = @ \cup {r}]
  /\ UNCHANGED <<table, sealer, pc, req, calls, faults>>

Refuse(p) ==
  /\ posts[p].state = "open"
  /\ TooLarge(p) \/ \E r \in Todo(p) : IsNext(p, r) /\ r.key \in Rejected
  /\ Answer(p, "error")
  /\ UNCHANGED <<table, sealer, pc, req, remote, calls, faults>>

Reply(p) ==
  /\ posts[p].state = "open"
  /\ ~TooLarge(p)
  /\ Todo(p) = {}
  /\ Answer(p, "ok")
  /\ UNCHANGED <<table, sealer, pc, req, remote, calls, faults>>

(* The handler stops between two rows: encrypt or Put failed, the server    *)
(* restarted, the connection broke.                                         *)
Break(p) ==
  /\ posts[p].state = "open"
  /\ faults < MaxFaults
  /\ faults' = faults + 1
  /\ Answer(p, "error")
  /\ UNCHANGED <<table, sealer, pc, req, remote, calls>>

-------------------------------------------------------------------------------
(* drainOnce, from the answer on.                                           *)

Seqs(rows) == {r.seq : r \in rows}

(* keyToSeq[k] for every k the response lists. *)
AckSeqs(p) == {r.seq : r \in {q \in posts[p].rows : \E d \in posts[p].done : d.key = q.key}}

(* Mutant: a cumulative ack, everything up to the highest seq stored.       *)
AckedUpTo(p) == {r \in outbox : \E s \in AckSeqs(p) : r.seq <= s}

AckedRows(p) == {r \in outbox : r.seq \in AckSeqs(p)}

Done(w) ==
  /\ pc' = [pc EXCEPT ![w] = IF w = Loop THEN "idle" ELSE "count"]
  /\ req' = [req EXCEPT ![w] = NoPost]

(* Mutant: drainLoop returns on an error instead of going on to the next    *)
(* tick.                                                                   *)
FailedForGood(w) ==
  /\ pc' = [pc EXCEPT ![w] = "stopped"]
  /\ req' = [req EXCEPT ![w] = NoPost]

Failed(w) ==
  /\ pc' = [pc EXCEPT ![w] = "idle"]
  /\ req' = [req EXCEPT ![w] = NoPost]

Free(p) == posts' = [posts EXCEPT ![p] = NoRequest]

AckOutbox(w, p) ==
  /\ req[w] = p
  /\ posts[p].state = "ok"
  /\ outbox' = outbox \ AckedRows(p)
  /\ due' = due \ AckSeqs(p)
  /\ Done(w)
  /\ Free(p)
  /\ UNCHANGED <<nextSeq, latest, sealer, remote, calls, faults>>

(* Mutant: rows of a refused batch are dropped as poison.                   *)
DropAll(w, p) ==
  /\ req[w] = p
  /\ posts[p].state = "error"
  /\ outbox' = {r \in outbox : r.seq \notin Seqs(posts[p].rows)}
  /\ due' = due \ Seqs(posts[p].rows)
  /\ Failed(w)
  /\ Free(p)
  /\ UNCHANGED <<nextSeq, latest, sealer, remote, calls, faults>>

BumpAll(w, p) ==
  /\ req[w] = p
  /\ posts[p].state = "error"
  /\ due' = due \ Seqs(posts[p].rows)
  /\ Failed(w)
  /\ Free(p)
  /\ UNCHANGED <<outbox, nextSeq, latest, sealer, remote, calls, faults>>

(* No usable answer: a timeout, a dropped connection, a canceled caller, an *)
(* AckOutbox that failed.  The bump may fail too (its error is ignored).    *)
(* The server may still be executing the request.                           *)
GiveUp(w, p) ==
  /\ req[w] = p
  /\ posts[p].state \in {"open", "ok"}
  /\ faults < MaxFaults
  /\ faults' = faults + 1
  /\ \/ due' = due \ Seqs(posts[p].rows)
     \/ UNCHANGED due
  /\ \/ Free(p)
     \/ posts[p].state = "open" /\ UNCHANGED posts
  /\ Failed(w)
  /\ UNCHANGED <<outbox, nextSeq, latest, sealer, remote, calls>>

(* The daemon dies and starts again: the tables survive, the requests'      *)
(* clients are gone, a sealer is there only if the configuration gives one. *)
Restart ==
  /\ faults < MaxFaults
  /\ faults' = faults + 1
  /\ pc' = [w \in Drainers |-> "idle"]
  /\ req' = [w \in Drainers |-> NoPost]
  /\ posts' = [p \in PostIds |-> IF posts[p].state = "open" THEN posts[p] ELSE NoRequest]
  /\ sealer' \in BOOLEAN
  /\ total' = [c \in Callers |-> 0]
  /\ UNCHANGED <<table, remote, before>>

-------------------------------------------------------------------------------
ServerStep(p) == PutRow(p) \/ Refuse(p) \/ Reply(p)

Answered(w) == \E p \in PostIds : AckOutbox(w, p) \/ BumpAll(w, p)

CallerStep(c) ==
  \/ DepthBefore(c)
  \/ NothingDue(c)
  \/ DepthAfter(c)
  \/ \E p \in PostIds : DrainNow(c, p)

Next ==
  \/ \E k \in Keys, b \in 1..MaxBlob : EnqueueOutbox(k, b)
  \/ \E s \in 1..MaxRows : Elapse(s)
  \/ SetSealer
  \/ ClearSealer
  \/ \E p \in PostIds : DrainLoop(p)
  \/ \E c \in Callers : PushNow(c) \/ CallerStep(c)
  \/ \E p \in PostIds : ServerStep(p) \/ Break(p)
  \/ \E w \in Drainers : Answered(w)
  \/ \E w \in Drainers, p \in PostIds : GiveUp(w, p)
  \/ Restart

Spec == Init /\ [][Next]_vars

(* The ticker fires, requests that reach the server are answered, timers    *)
(* expire.  Nothing forces a login, a push-now call or a handler.           *)
Fairness ==
  /\ WF_vars(\E p \in PostIds : DrainLoop(p))
  /\ \A w \in Drainers : WF_vars(Answered(w))
  /\ \A c \in Callers : WF_vars(CallerStep(c))
  /\ \A p \in PostIds : WF_vars(ServerStep(p))
  /\ \A s \in 1..MaxRows : WF_vars(Elapse(s))

FairSpec == Spec /\ Fairness

-------------------------------------------------------------------------------
(* Types of the tables, of the drainers and of the requests in flight.      *)
TypeOK ==
  /\ outbox \subseteq Row
  /\ nextSeq \in Nat \ {0}
  /\ due \subseteq Nat
  /\ latest \in [Keys -> Nat]
  /\ sealer \in BOOLEAN
  /\ pc \in [Drainers -> {"idle", "depth", "drain", "wait", "count"}]
  /\ req \in [Drainers -> PostIds \cup {NoPost}]
  /\ posts \in [PostIds -> [state : {"free", "open", "ok", "error"},
                            rows : SUBSET Row, done : SUBSET Row]]
  /\ upstream \in [Keys -> Nat]
  /\ landed \subseteq Row
  /\ before \in [Callers -> Nat]
  /\ total \in [Callers -> Nat]
  /\ faults \in Nat

(* No data loss (docs/design/round-4/03, line 116): a key that was ever     *)
(* handed to the outbox has a row there or a blob upstream, whatever the    *)
(* drains, the server and restarts have done in between.                    *)
NoLoss == \A k \in Keys : latest[k] > 0 => Queued(k) \/ upstream[k] # 0

(* AckOutbox deletes by seq, on the strength of an answer that may come     *)
(* after another drain has acked the same rows and new rows have taken      *)
(* their keys: a row leaves the table only if that very row was stored.     *)
AckedIsStored == [][outbox \ outbox' \subseteq landed]_vars

(* What a request still in flight carries is a row as it is in the table,   *)
(* or a row that some drain has acked already: no two rows share a seq over *)
(* the life of the table, so an ack or a bump by seq cannot hit a stranger. *)
SeqNamesRow ==
  \A p \in PostIds : \A r \in posts[p].rows, q \in outbox : q.seq = r.seq => q = r

(* A bump moves a row behind rows inserted after it, and a retry may come   *)
(* at any time.  Still no row that waits in the table is older than what    *)
(* the upstream holds under its key, so no retry sets a key back: there is  *)
(* never a second row of the key, queued or stored, to be overtaken by.     *)
(* (Only a request that outlives its row's ack can set a key back.)         *)
OwedIsNewest == \A r \in outbox : r.blob >= upstream[r.key]

(* The push path keeps the promise of module Delivery. *)
D == INSTANCE Delivery WITH
       accepted <- {k \in Keys : latest[k] > 0},
       owed <- {r.key : r \in outbox},
       delivered <- {k \in Keys : upstream[k] # 0}

ImplementsDelivery == D!DSpec

(* The rows "drain when A reconnects" (docs/use-cases/02, line 210): once   *)
(* the daemon stays unlocked and the table holds no row that the server     *)
(* refuses, alone or for the size of the request, the table empties.        *)
Refusable ==
  \/ \E r \in outbox : r.key \in Rejected
  \/ Cardinality({r \in outbox : r.key \in Bulky}) > BodyCap

EventuallyDrained == <>[](sealer /\ ~Refusable) => <>[](outbox = {})

-------------------------------------------------------------------------------
(* Stated by the docs and not kept by the code (README, "Disagreements"); no *)
(* run checks it.                                                            *)

(* A row that the server would store does not wait for ever. *)
AcceptableDrained ==
  <>[]sealer => \A k \in Keys \ Rejected : <>[](~Queued(k))
===============================================================================

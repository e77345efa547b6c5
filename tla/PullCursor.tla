------------------------------ MODULE PullCursor ------------------------------
(***************************************************************************)
(* The pull half of session sync: pullKind of agent/sync.go against        *)
(* handlePull and Backend.List, by the periodic pullLoop and by any number *)
(* of POST /v1/sync/pull-now requests, over the shared sync_state table.   *)
(*                                                                         *)
(* A row is the rank of its key in the lexicographic order of its kind,    *)
(* which is the order List returns and the cursor counts in; 0 is the      *)
(* empty cursor.  "events/<sid>/..." sorts by session, so SessionOf is     *)
(* monotone.  The memory kind has its own module.                          *)
(***************************************************************************)
EXTENDS Naturals, FiniteSets

CONSTANTS
  Sessions,   \* rows of kind "sessions"
  Events,     \* rows of kind "events"
  SessionOf,  \* the session an event belongs to
  Pullers,    \* the pullLoop goroutine and the pull-now requests
  Bad,        \* events this device cannot open or parse
  Limit,      \* rows per page
  KeyOrder,   \* do keys reach the upstream in key order, sessions first
  MaxFaults   \* bound: failed requests and statements, and restarts

ASSUME PullAssumption ==
  /\ Sessions \subseteq Nat \ {0}
  /\ Events \subseteq Nat \ {0}
  /\ SessionOf \in [Events -> Sessions]
  /\ \A e, f \in Events : e <= f => SessionOf[e] <= SessionOf[f]
  /\ Bad \subseteq Events
  /\ Limit \in Nat \ {0}
  /\ KeyOrder \in BOOLEAN
  /\ MaxFaults \in Nat

Kinds == {"sessions", "events"}
RowsOf(kind) == IF kind = "sessions" THEN Sessions ELSE Events

VARIABLES
  up,      \* up[kind]: keys the backend holds
  local,   \* local[kind]: rows in this device's tables
  saved,   \* saved[kind]: sync_state.cursor
  pc,      \* where each puller is
  kind,    \* the kind it is at
  cur,     \* pullKind's cursor
  page,    \* rows of the page still to ingest
  full,    \* did the page come with a next_cursor
  faults,  \* how many faults have happened
  missed   \* history: missed[kind], rows whose statement has failed

puller == <<pc, kind, cur, page, full>>
vars == <<up, local, saved, pc, kind, cur, page, full, faults, missed>>

Init ==
  /\ up = [k \in Kinds |-> {}]
  /\ local = [k \in Kinds |-> {}]
  /\ saved = [k \in Kinds |-> 0]
  /\ pc = [p \in Pullers |-> "idle"]
  /\ kind = [p \in Pullers |-> "sessions"]
  /\ cur = [p \in Pullers |-> 0]
  /\ page = [p \in Pullers |-> {}]
  /\ full = [p \in Pullers |-> FALSE]
  /\ faults = 0
  /\ missed = [k \in Kinds |-> {}]

-------------------------------------------------------------------------------
(* Other devices push.  Session ids are random, a session that started      *)
(* earlier goes on producing events, and a refused batch comes back later;  *)
(* KeyOrder is the special case in which none of this happens.              *)
Push(k, r) ==
  /\ r \notin up[k]
  /\ KeyOrder =>
       /\ \A q \in up[k] : q < r
       /\ k = "events" => SessionOf[r] \in up["sessions"]
  /\ up' = [up EXCEPT ![k] = @ \cup {r}]
  /\ UNCHANGED <<local, saved, puller, faults, missed>>

-------------------------------------------------------------------------------
(* pullAllKindsCounts: sessions, then events. *)
StartPull(p) ==
  /\ pc[p] = "idle"
  /\ pc' = [pc EXCEPT ![p] = "cursor"]
  /\ kind' = [kind EXCEPT ![p] = "sessions"]
  /\ UNCHANGED <<up, local, saved, cur, page, full, faults, missed>>

GetCursor(p) ==
  /\ pc[p] = "cursor"
  /\ cur' = [cur EXCEPT ![p] = saved[kind[p]]]
  /\ pc' = [pc EXCEPT ![p] = "list"]
  /\ UNCHANGED <<up, local, saved, kind, page, full, faults, missed>>

(* List: the first Limit keys after the cursor. *)
After(k, c) == {r \in up[k] : r > c}
Page(k, c) == {r \in After(k, c) : Cardinality({q \in After(k, c) : q < r}) < Limit}

NextKind(p) ==
  IF kind[p] = "sessions"
  THEN /\ kind' = [kind EXCEPT ![p] = "events"]
       /\ pc' = [pc EXCEPT ![p] = "cursor"]
  ELSE /\ pc' = [pc EXCEPT ![p] = "idle"]
       /\ UNCHANGED kind

List(p) ==
  /\ pc[p] = "list"
  /\ \/ /\ Page(kind[p], cur[p]) # {}
        /\ page' = [page EXCEPT ![p] = Page(kind[p], cur[p])]
        /\ full' = [full EXCEPT ![p] = Cardinality(Page(kind[p], cur[p])) = Limit]
        /\ pc' = [pc EXCEPT ![p] = "ingest"]
        /\ UNCHANGED kind
     \/ /\ Page(kind[p], cur[p]) = {}
        /\ NextKind(p)
        /\ UNCHANGED <<page, full>>
  /\ UNCHANGED <<up, local, saved, cur, faults, missed>>

(* ingestPulled: an event needs its session row (the foreign key), and both *)
(* inserts ignore a row that is there.                                      *)
Ingestible(k, r) == k = "events" => r \notin Bad /\ SessionOf[r] \in local["sessions"]

IsNext(p, r) == r \in page[p] /\ \A q \in page[p] : r <= q

(* Mutant: the cursor moves past rows that failed as well.                  *)
IngestAndPass(p, r) ==
  /\ pc[p] = "ingest"
  /\ IsNext(p, r)
  /\ page' = [page EXCEPT ![p] = @ \ {r}]
  /\ local' = IF Ingestible(kind[p], r)
              THEN [local EXCEPT ![kind[p]] = @ \cup {r}] ELSE local
  /\ cur' = [cur EXCEPT ![p] = r]
  /\ UNCHANGED <<up, saved, pc, kind, full, faults, missed>>

(* The statement itself may fail as well (SQLITE_BUSY, a full disk).  Any    *)
(* error is logged and the loop goes on: the row stays where it is, and the  *)
(* next one that goes in moves the cursor past it.                           *)
Ingest(p, r) ==
  /\ pc[p] = "ingest"
  /\ IsNext(p, r)
  /\ page' = [page EXCEPT ![p] = @ \ {r}]
  /\ \/ /\ Ingestible(kind[p], r)
        /\ local' = [local EXCEPT ![kind[p]] = @ \cup {r}]
        /\ cur' = [cur EXCEPT ![p] = r]
        /\ UNCHANGED <<faults, missed>>
     \/ /\ ~Ingestible(kind[p], r)
        /\ UNCHANGED <<local, cur, faults, missed>>
     \/ /\ faults < MaxFaults
        /\ faults' = faults + 1
        /\ missed' = [missed EXCEPT ![kind[p]] = @ \cup {r}]
        /\ UNCHANGED <<local, cur>>
  /\ UNCHANGED <<up, saved, pc, kind, full>>

(* The end of a page: SetCursor, then the next page or the next kind.       *)
SetCursor(p) ==
  /\ pc[p] = "ingest"
  /\ page[p] = {}
  /\ saved' = IF cur[p] # 0 THEN [saved EXCEPT ![kind[p]] = cur[p]] ELSE saved
  /\ \/ /\ full[p]
        /\ pc' = [pc EXCEPT ![p] = "list"]
        /\ UNCHANGED kind
     \/ /\ ~full[p]
        /\ NextKind(p)
  /\ UNCHANGED <<up, local, cur, page, full, faults, missed>>

(* A request fails, or GetCursor or SetCursor: this pull is over, and the    *)
(* cursor stays where it is saved.                                          *)
Fail(p) ==
  /\ pc[p] # "idle"
  /\ faults < MaxFaults
  /\ faults' = faults + 1
  /\ pc' = [pc EXCEPT ![p] = "idle"]
  /\ page' = [page EXCEPT ![p] = {}]
  /\ UNCHANGED <<up, local, saved, kind, cur, full, missed>>

Restart ==
  /\ faults < MaxFaults
  /\ faults' = faults + 1
  /\ pc' = [p \in Pullers |-> "idle"]
  /\ page' = [p \in Pullers |-> {}]
  /\ UNCHANGED <<up, local, saved, kind, cur, full, missed>>

-------------------------------------------------------------------------------
PullStep(p) ==
  \/ GetCursor(p)
  \/ List(p)
  \/ \E r \in page[p] : Ingest(p, r)
  \/ SetCursor(p)

Next ==
  \/ \E k \in Kinds : \E r \in RowsOf(k) : Push(k, r)
  \/ \E p \in Pullers : StartPull(p) \/ PullStep(p) \/ Fail(p)
  \/ Restart

Spec == Init /\ [][Next]_vars

(* The ticker fires and every request is answered; nobody has to push.      *)
Fairness == \A p \in Pullers : WF_vars(StartPull(p)) /\ WF_vars(PullStep(p))

FairSpec == Spec /\ Fairness

-------------------------------------------------------------------------------
(* Types of the tables and of the pullers. *)
TypeOK ==
  /\ up \in [Kinds -> SUBSET (Sessions \cup Events)]
  /\ local \in [Kinds -> SUBSET (Sessions \cup Events)]
  /\ \A k \in Kinds : local[k] \subseteq up[k] /\ up[k] \subseteq RowsOf(k)
  /\ saved \in [Kinds -> Nat]
  /\ pc \in [Pullers -> {"idle", "cursor", "list", "ingest"}]
  /\ kind \in [Pullers -> Kinds]
  /\ cur \in [Pullers -> Nat]
  /\ page \in [Pullers -> SUBSET (Sessions \cup Events)]
  /\ full \in [Pullers -> BOOLEAN]
  /\ faults \in Nat
  /\ missed \in [Kinds -> SUBSET (Sessions \cup Events)]

Good(k) == IF k = "sessions" THEN Sessions ELSE Events \ Bad

(* A statement failed on the row, or on the session it waits for.           *)
Failed(k, r) == r \in missed[k] \/ (k = "events" /\ SessionOf[r] \in missed["sessions"])

(* "For each returned row: decrypt, call into local Sessions.Create /       *)
(* Events.Append.  Update cursor on success." (docs/design/round-4/02,      *)
(* lines 133-135): a row that could be ingested and that the saved cursor   *)
(* has passed, hence will not be asked for again, is in the tables, unless  *)
(* a statement failed on it or on its session.  Refused rows, pages, ends   *)
(* of pulls and restarts lose none.                                         *)
NoneSkipped ==
  \A k \in Kinds : \A r \in up[k] \cap Good(k) : r <= saved[k] => r \in local[k] \/ Failed(k, r)

(* The statement failed, and the cursor has passed the row since; an event  *)
(* is given up as well when its session is not in the tables.               *)
GivenUp(k, r) ==
  /\ Failed(k, r)
  /\ r <= saved[k] \/ (k = "events" /\ SessionOf[r] \notin local["sessions"])

(* "Correctness lives in the cursor pull": "the next pull catches up"       *)
(* (docs/design/round-13/00, lines 20-22): what is upstream and can be      *)
(* ingested is in the end in the tables, a row whose statement failed too   *)
(* if no later row has moved the cursor past it.                            *)
CatchesUp ==
  <>[](\A k \in Kinds : \A r \in up[k] \cap Good(k) : r \in local[k] \/ GivenUp(k, r))

-------------------------------------------------------------------------------
(* Stated by the docs and not kept by the code (README, "Disagreements"); no *)
(* run checks it.                                                            *)

(* The two sentences above as they stand: one statement that fails, between *)
(* two that do not, loses its row for good.                                 *)
CursorOnSuccess ==
  \A k \in Kinds : \A r \in up[k] \cap Good(k) : r <= saved[k] => r \in local[k]
AllCatchUp == <>[](\A k \in Kinds : up[k] \cap Good(k) \subseteq local[k])
===============================================================================

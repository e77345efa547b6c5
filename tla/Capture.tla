-------------------------------- MODULE Capture --------------------------------
(***************************************************************************)
(* How the events of a session get from a vendor's CLI into the tables and *)
(* the outbox of the daemon.  Two paths lead to IngestBatch                *)
(* (agent/ingest.go): the hooks that the CLI runs while it works           *)
(* (cli/hook.go, agent/handlers.go) and the sweep over its transcripts     *)
(* that a daemon does once when it starts (adapter/claude/watcher.go).     *)
(* IngestBatch is a sequence of statements without a transaction; an error *)
(* or the death of the daemon ends it after any of them.                   *)
(*                                                                         *)
(* One session.  Record n of its transcript is event n, and event 0 is     *)
(* session_start.  Events with the same id have the same deterministic     *)
(* UUID on both paths; "at" is the seq, the timestamp of the record        *)
(* (FromFile) or the time of the hook call, told apart by a number.  The   *)
(* session row is named by the event it was made from: only event 0 holds  *)
(* a cwd.  What happens to a row once the outbox has it is module Outbox;  *)
(* here an event's row is handed over, and the session's row is queued and *)
(* pushed, since a later one of the same key may replace it.               *)
(***************************************************************************)
EXTENDS Naturals, Sequences, FiniteSets

CONSTANTS
  Hooks,      \* requests of hooks that can be under way at a time
  Sweep,      \* the sweep, as a caller of IngestBatch
  None,       \* no session row
  Length,     \* bound: records in the transcript
  Rooted,     \* records that carry a cwd
  Hooked,     \* batches of ids that a hook sends
  FlushSize,  \* flushSize
  MaxFires,   \* bound: hook calls
  MaxFaults   \* bound: failed statements, cancelled requests and crashes

Callers == Hooks \cup {Sweep}

ASSUME CaptureAssumption ==
  /\ Sweep \notin Hooks
  /\ Length \in Nat
  /\ Rooted \subseteq 1..Length
  /\ Hooked \subseteq Seq(0..Length) \ {<<>>}
  /\ FlushSize \in Nat \ {0}
  /\ MaxFires \in Nat
  /\ MaxFaults \in Nat

FromFile == 0
Event == [id : 0..Length, at : 0..MaxFires]

ASSUME NoneAssumption == None \notin Event

VARIABLES
  written,     \* records in the transcript
  fires,       \* hook calls so far
  up,          \* does the daemon run
  sweep,       \* ingestFile: its position, what it has buffered, and whether
               \* all its batches have gone in
  call,        \* the calls of IngestBatch
  session,     \* table sessions
  events,      \* table events
  eventCount,  \* sessions.event_count
  outSession,  \* the session's row in the outbox
  upSession,   \* the session's blob upstream
  handed,      \* the rows of events that the outbox was handed
  faults,      \* how many faults have happened
  torn         \* history: a call ended after its append and before its count

tables == <<session, events, eventCount>>
outbox == <<outSession, upSession, handed>>
vars == <<written, fires, up, sweep, call, tables, outbox, faults, torn>>

NoCall == [pc |-> "idle", batch |-> <<>>]
NoSweep == [at |-> "off", pos |-> 0, pending |-> <<>>, batch |-> <<>>,
            synthesized |-> FALSE, clean |-> TRUE]

Ids(S) == {e.id : e \in S}
InBatch(b) == {b[i] : i \in DOMAIN b}

Init ==
  /\ written = 0
  /\ fires = 0
  /\ up = FALSE
  /\ sweep = NoSweep
  /\ call = [c \in Callers |-> NoCall]
  /\ session = None
  /\ events = {}
  /\ eventCount = 0
  /\ outSession = None
  /\ upSession = None
  /\ handed = {}
  /\ faults = 0
  /\ torn = FALSE

-------------------------------------------------------------------------------
(* The vendor's CLI appends to its transcript, whether a daemon runs or not. *)
Write ==
  /\ written < Length
  /\ written' = written + 1
  /\ UNCHANGED <<fires, up, sweep, call, tables, outbox, faults, torn>>

(* It runs `resleeve hook`, which posts one batch; without a daemon, and on  *)
(* any error, the hook does nothing and exits 0.                             *)
Hook(c, ids) ==
  /\ up
  /\ fires < MaxFires
  /\ call[c].pc = "idle"
  /\ fires' = fires + 1
  /\ call' = [call EXCEPT ![c] =
       [pc |-> "create", batch |-> [i \in DOMAIN ids |-> [id |-> ids[i], at |-> fires + 1]]]]
  /\ UNCHANGED <<written, up, sweep, tables, outbox, faults, torn>>

-------------------------------------------------------------------------------
(* The sweep: ingestFile for the session's transcript. *)

Start ==
  /\ ~up
  /\ up' = TRUE
  /\ sweep' = [NoSweep EXCEPT !.at = "read"]
  /\ UNCHANGED <<written, fires, call, tables, outbox, faults, torn>>

FileEvent(n) == [id |-> n, at |-> FromFile]

(* Mutant: a session without a cwd is not held back. *)
BufferAtOnce(s, n) ==
  IF n \in Rooted /\ ~s.synthesized
  THEN [s EXCEPT !.pos = n, !.batch = @ \o <<FileEvent(0), FileEvent(n)>>, !.synthesized = TRUE]
  ELSE [s EXCEPT !.pos = n, !.batch = Append(@, FileEvent(n))]

(* Records wait in pending until one has a cwd; then session_start is made   *)
(* up and goes first.                                                        *)
Buffer(s, n) ==
  IF s.synthesized THEN [s EXCEPT !.pos = n, !.batch = Append(@, FileEvent(n))]
  ELSE IF n \notin Rooted THEN [s EXCEPT !.pos = n, !.pending = Append(@, FileEvent(n))]
  ELSE [s EXCEPT !.pos = n,
                 !.batch = <<FileEvent(0)>> \o s.pending \o <<FileEvent(n)>>,
                 !.pending = <<>>,
                 !.synthesized = TRUE]

(* flush: the batch goes to IngestBatch, and the sweep waits for it.         *)
Flush(s, then) ==
  /\ call' = [call EXCEPT ![Sweep] = [pc |-> "create", batch |-> s.batch]]
  /\ sweep' = [s EXCEPT !.at = then, !.batch = <<>>, !.pending = <<>>]

ReadRecord ==
  /\ sweep.at = "read"
  /\ sweep.pos < written
  /\ LET s == Buffer(sweep, sweep.pos + 1) IN
     IF Len(s.batch) >= FlushSize THEN Flush(s, "flush")
     ELSE sweep' = s /\ UNCHANGED call
  /\ UNCHANGED <<written, fires, up, tables, outbox, faults, torn>>

(* Mutant: what is still pending is forgotten. *)
EndOfFileDropsPending ==
  /\ sweep.at = "read"
  /\ sweep.pos = written
  /\ IF sweep.batch # <<>> THEN Flush(sweep, "last flush")
     ELSE sweep' = [sweep EXCEPT !.at = "done", !.pending = <<>>] /\ UNCHANGED call
  /\ UNCHANGED <<written, fires, up, tables, outbox, faults, torn>>

EndOfFile ==
  /\ sweep.at = "read"
  /\ sweep.pos = written
  /\ LET s == [sweep EXCEPT !.batch = @ \o sweep.pending] IN
     IF s.batch # <<>> THEN Flush(s, "last flush")
     ELSE sweep' = [s EXCEPT !.at = "done"] /\ UNCHANGED call
  /\ UNCHANGED <<written, fires, up, tables, outbox, faults, torn>>

(* IngestBatch has returned; an error is logged and the sweep goes on.       *)
Return(c, ok) ==
  sweep' = IF c # Sweep THEN sweep
           ELSE [sweep EXCEPT !.at = IF @ = "flush" THEN "read" ELSE "done",
                              !.clean = @ /\ ok]

-------------------------------------------------------------------------------
(* IngestBatch, one action per statement.  The heartbeat of the slot, which  *)
(* is machine-local, is left out.                                            *)

(* createSessionFromFirstEvent: INSERT OR IGNORE. *)
CreateSession(c) ==
  /\ call[c].pc = "create"
  /\ session' = IF session = None THEN Head(call[c].batch) ELSE session
  /\ call' = [call EXCEPT ![c].pc = "append"]
  /\ UNCHANGED <<written, fires, up, sweep, events, eventCount, outbox, faults, torn>>

New(b) == {e \in InBatch(b) : e.id \notin Ids(events)}

(* Mutant: a batch of which every event is known is taken for done.          *)
AppendEventsOnce(c) ==
  /\ call[c].pc = "append"
  /\ events' = events \cup New(call[c].batch)
  /\ IF New(call[c].batch) = {}
     THEN call' = [call EXCEPT ![c] = NoCall] /\ Return(c, TRUE)
     ELSE call' = [call EXCEPT ![c].pc = "count"] /\ UNCHANGED sweep
  /\ UNCHANGED <<written, fires, up, session, eventCount, outbox, faults, torn>>

(* Events.Append: one transaction of INSERT OR IGNORE. *)
AppendEvents(c) ==
  /\ call[c].pc = "append"
  /\ events' = events \cup New(call[c].batch)
  /\ call' = [call EXCEPT ![c].pc = "count"]
  /\ UNCHANGED <<written, fires, up, sweep, session, eventCount, outbox, faults, torn>>

(* Mutant: the count grows by the length of the batch. *)
AddEventCount(c) ==
  /\ call[c].pc = "count"
  /\ eventCount' = eventCount + Len(call[c].batch)
  /\ torn' = FALSE
  /\ call' = [call EXCEPT ![c].pc = "session"]
  /\ UNCHANGED <<written, fires, up, sweep, session, events, outbox, faults>>

SyncEventCount(c) ==
  /\ call[c].pc = "count"
  /\ eventCount' = Cardinality(events)
  /\ torn' = FALSE
  /\ call' = [call EXCEPT ![c].pc = "session"]
  /\ UNCHANGED <<written, fires, up, sweep, session, events, outbox, faults>>

(* Mutant: only the first batch of a session sends the session.              *)
EnqueueFirstSession(c) ==
  /\ call[c].pc = "session"
  /\ outSession' = IF outSession = None /\ eventCount = Len(call[c].batch)
                   THEN Head(call[c].batch) ELSE outSession
  /\ call' = [call EXCEPT ![c].pc = "events"]
  /\ UNCHANGED <<written, fires, up, sweep, tables, upSession, handed, faults, torn>>

(* The row is the one made from this batch, not the one in the table; a row  *)
(* that is still queued stays (INSERT OR IGNORE).                            *)
EnqueueSession(c) ==
  /\ call[c].pc = "session"
  /\ outSession' = IF outSession = None THEN Head(call[c].batch) ELSE outSession
  /\ call' = [call EXCEPT ![c].pc = "events"]
  /\ UNCHANGED <<written, fires, up, sweep, tables, upSession, handed, faults, torn>>

(* One event of EnqueueEvents, under the key events/<session>/<seq>-<uuid>.  *)
EnqueueEvent(c) ==
  /\ call[c].pc = "events"
  /\ handed' = handed \cup {Head(call[c].batch)}
  /\ IF Tail(call[c].batch) # <<>>
     THEN call' = [call EXCEPT ![c].batch = Tail(@)] /\ UNCHANGED sweep
     ELSE call' = [call EXCEPT ![c] = NoCall] /\ Return(c, TRUE)
  /\ UNCHANGED <<written, fires, up, tables, outSession, upSession, faults, torn>>

-------------------------------------------------------------------------------
(* The drain stores the session's row. *)

ShipSession ==
  /\ up
  /\ outSession # None
  /\ upSession' = outSession
  /\ outSession' = None
  /\ UNCHANGED <<written, fires, up, sweep, call, tables, handed, faults, torn>>

-------------------------------------------------------------------------------
(* Faults. *)

Fault == faults < MaxFaults /\ faults' = faults + 1

(* A statement fails, or the hook's request is cancelled with its context.   *)
CallFails(c) ==
  /\ Fault
  /\ call[c].pc # "idle"
  /\ call' = [call EXCEPT ![c] = NoCall]
  /\ torn' = (torn \/ call[c].pc = "count")
  /\ Return(c, FALSE)
  /\ UNCHANGED <<written, fires, up, tables, outbox>>

Crash ==
  /\ Fault
  /\ up
  /\ up' = FALSE
  /\ sweep' = NoSweep
  /\ call' = [c \in Callers |-> NoCall]
  /\ torn' = (torn \/ \E c \in Callers : call[c].pc = "count")
  /\ UNCHANGED <<written, fires, tables, outbox>>

-------------------------------------------------------------------------------
IngestBatch(c) ==
  \/ CreateSession(c)
  \/ AppendEvents(c)
  \/ SyncEventCount(c)
  \/ EnqueueSession(c)
  \/ EnqueueEvent(c)

ReadTranscript == ReadRecord \/ EndOfFile

Next ==
  \/ Write
  \/ \E c \in Hooks, ids \in Hooked : Hook(c, ids)
  \/ Start
  \/ ReadTranscript
  \/ \E c \in Callers : IngestBatch(c)
  \/ ShipSession
  \/ \E c \in Callers : CallFails(c)
  \/ Crash

Spec == Init /\ [][Next]_vars

(* The goroutine of the sweep and those of the requests run.  Nobody has to  *)
(* start a daemon, to write or to run a hook, and no drain is needed.        *)
Fairness ==
  /\ WF_vars(ReadTranscript)
  /\ \A c \in Callers : WF_vars(IngestBatch(c))

FairSpec == Spec /\ Fairness

-------------------------------------------------------------------------------
(* Types of the transcript, the calls, the tables and the outbox. *)
TypeOK ==
  /\ written \in 0..Length
  /\ fires \in 0..MaxFires
  /\ up \in BOOLEAN
  /\ sweep \in [at : {"off", "read", "flush", "last flush", "done"}, pos : 0..Length,
                pending : Seq(Event), batch : Seq(Event),
                synthesized : BOOLEAN, clean : BOOLEAN]
  /\ call \in [Callers -> [pc : {"idle", "create", "append", "count", "session", "events"},
                           batch : Seq(Event)]]
  /\ {session, outSession, upSession} \subseteq Event \cup {None}
  /\ events \subseteq Event
  /\ eventCount \in Nat
  /\ handed \subseteq Event
  /\ faults \in 0..MaxFaults
  /\ torn \in BOOLEAN

(* "Append is idempotent ..., so retrying the same batch must not           *)
(* double-count" (agent/ingest.go, line 45): however hooks and the sweep    *)
(* overlap, event_count is the number of events, unless a call is about to  *)
(* set it or has failed right before.                                       *)
CountIsExact ==
  \/ eventCount = Cardinality(events)
  \/ torn
  \/ \E c \in Callers : call[c].pc = "count"

(* A peer can only insert an event whose session it has, and what a peer can *)
(* learn this device knows: an event is handed to the outbox only after its  *)
(* session row and after it is in the tables itself.                         *)
PushedIsGrounded ==
  handed # {} =>
    /\ outSession # None \/ upSession # None
    /\ session # None
    /\ Ids(handed) \subseteq Ids(events)

(* The sweep "backfills any events the live hook path missed"                *)
(* (agent/daemon.go, line 169): once it is through and no batch has failed,  *)
(* every record it has read is in the tables and on its way, also those that *)
(* an earlier process had appended and did not live to enqueue.               *)
SweptIsKept ==
  sweep.at = "done" /\ sweep.clean =>
    \A n \in 1..sweep.pos : n \in Ids(events) /\ FileEvent(n) \in handed

(* "some leading records have cwd:null which would otherwise leak            *)
(* scope='unknown' into the sessions row" (adapter/claude/watcher.go, 73):   *)
(* the first sweep makes a session without a cwd only from a transcript that *)
(* has none as far as it is written.                                         *)
SweepFindsCwd ==
  faults = 0 /\ session # None /\ session.at = FromFile /\ session.id # 0 =>
    \A n \in 1..sweep.pos : n \notin Rooted

(* What the transcript holds when a daemon starts is on its way in the end   *)
(* if nothing fails from then on, whatever failed before.                    *)
SweepRepairs ==
  \A n \in 1..Length :
    (sweep.at = "read" /\ sweep.pos = 0 /\ n <= written /\ faults = MaxFaults)
      ~> FileEvent(n) \in handed

-------------------------------------------------------------------------------
(* Stated by the docs and not kept by the code (README, "Disagreements"); no *)
(* run checks it.                                                            *)

(* "Idempotent on session ID (the outbox unique constraint on (kind, key)    *)
(* absorbs duplicate enqueues)" (agent/sync.go, line 350): what the batches  *)
(* after the first enqueue does not take the cwd from the session's row      *)
(* upstream, where `resume` on another machine looks for it.                 *)
LaterBatchesAbsorbed ==
  session # None /\ session.id = 0 /\ upSession # None => upSession.id = 0
===============================================================================

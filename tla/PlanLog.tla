-------------------------------- MODULE PlanLog --------------------------------
(***************************************************************************)
(* One plan slot of one scope: the append-only version log                 *)
(* (AppendPlanVersion, storage/sql/sqlite/memory.go), the handler in front *)
(* of it (putPlan, agent/memory_handlers.go) and the writers that use it:  *)
(* agents over MCP, which send the version they read, and `resleeve plan   *)
(* write`, which looks the version up again just before it writes.  Either *)
(* may force its write, which then is not checked against HEAD.            *)
(*                                                                         *)
(* The content of a version is the set of writers whose edits it contains; *)
(* a writer adds its edit to the content it read.  AppendPlanVersion is a  *)
(* deferred SQLite transaction on a WAL database: it reads HEAD under a    *)
(* snapshot and can write only while nothing else has been written since.  *)
(***************************************************************************)
EXTENDS Integers, Sequences

CONSTANTS
  Mcp,          \* agents: resleeve_plan_read, then resleeve_plan_write
  Cli,          \* `resleeve plan write`, its content edited from what was read
  MaxVersions,  \* bound: length of the log
  MaxDeletes,   \* bound: DELETE /v1/scope requests
  MaxFaults     \* bound: failed enqueues and crashes

Writers == Mcp \cup Cli

AnyHead == -1  \* the base_version of a forced write: every HEAD will do

ASSUME PlanLogAssumption ==
  /\ Mcp \cap Cli = {}
  /\ MaxVersions \in Nat
  /\ MaxDeletes \in Nat
  /\ MaxFaults \in Nat

VARIABLES
  exists,   \* is the scope row there (plan_versions.scope references it)
  log,      \* plan_versions of the slot, by version
  epoch,    \* how often the scope has been deleted
  pc,       \* where each writer is
  view,     \* the version and content a writer works from
  base,     \* the base_version it sends
  fresh,    \* writers whose snapshot no write has invalidated
  wrote,    \* the version its transaction committed
  queue,    \* the rows of the slot in the outbox
  shipped,  \* the rows of the slot that were acked upstream
  acked,    \* history: what commits have reported, with its epoch
  faults    \* how many faults have happened

vars == <<exists, log, epoch, pc, view, base, fresh, wrote, queue, shipped, acked, faults>>
stored == <<exists, log, epoch, queue, shipped, acked>>

Entry == [content : SUBSET Writers, by : Writers]
View == [version : Nat, content : SUBSET Writers]
Ack == [version : Nat, content : SUBSET Writers, epoch : Nat]

Init ==
  /\ exists \in BOOLEAN
  /\ log = <<>>
  /\ epoch = 0
  /\ pc = [w \in Writers |-> "idle"]
  /\ view = [w \in Writers |-> [version |-> 0, content |-> {}]]
  /\ base = [w \in Writers |-> 0]
  /\ fresh = {}
  /\ wrote = [w \in Writers |-> 0]
  /\ queue = {}
  /\ shipped = {}
  /\ acked = {}
  /\ faults = 0

-------------------------------------------------------------------------------
(* GetPlan: the materialized HEAD, version 0 when there is none.            *)
Content == IF log = <<>> THEN {} ELSE log[Len(log)].content

Head0 == [version |-> Len(log), content |-> Content]

PutScope ==
  /\ ~exists
  /\ exists' = TRUE
  /\ fresh' = {}
  /\ UNCHANGED <<log, epoch, pc, view, base, wrote, queue, shipped, acked, faults>>

(* The delete cascades to plan_versions.                                    *)
DeleteScope ==
  /\ exists
  /\ epoch < MaxDeletes
  /\ exists' = FALSE
  /\ log' = <<>>
  /\ epoch' = epoch + 1
  /\ fresh' = {}
  /\ UNCHANGED <<pc, view, base, wrote, queue, shipped, acked, faults>>

-------------------------------------------------------------------------------
(* The writers up to the PUT.                                               *)

(* plan_read, `plan read`, or the buffer of `plan write --edit`.  An agent  *)
(* sends the version that came with the content.                            *)
ReadPlan(w) ==
  /\ pc[w] = "idle"
  /\ view' = [view EXCEPT ![w] = Head0]
  /\ \/ /\ w \in Mcp
        /\ \E b \in {Len(log), AnyHead} : base' = [base EXCEPT ![w] = b]
        /\ pc' = [pc EXCEPT ![w] = "put"]
     \/ /\ w \in Cli
        /\ pc' = [pc EXCEPT ![w] = "edit"]
        /\ UNCHANGED base
  /\ UNCHANGED <<stored, fresh, wrote, faults>>

(* An agent writes without reading: a first version, or by force.           *)
WriteNew(w) ==
  /\ pc[w] = "idle"
  /\ w \in Mcp
  /\ view' = [view EXCEPT ![w] = [version |-> 0, content |-> {}]]
  /\ \E b \in {0, AnyHead} : base' = [base EXCEPT ![w] = b]
  /\ pc' = [pc EXCEPT ![w] = "put"]
  /\ UNCHANGED <<stored, fresh, wrote, faults>>

(* runPlanWrite looks the version up after the content is made.             *)
LookUpBase(w) ==
  /\ pc[w] = "edit"
  /\ \E b \in {Len(log), AnyHead} : base' = [base EXCEPT ![w] = b]
  /\ pc' = [pc EXCEPT ![w] = "put"]
  /\ UNCHANGED <<stored, view, fresh, wrote, faults>>

-------------------------------------------------------------------------------
(* AppendPlanVersion. *)

Stale(w) == base[w] \notin {Len(log), AnyHead}

(* Mutant: a retry takes the new version number and keeps the old content.  *)
ConflictKeepsContent(w) ==
  /\ pc[w] = "put"
  /\ Stale(w)
  /\ \/ /\ w \in Mcp
        /\ base' = [base EXCEPT ![w] = Len(log)]
        /\ UNCHANGED <<pc, view>>
     \/ /\ pc' = [pc EXCEPT ![w] = "idle"]
        /\ UNCHANGED <<view, base>>
  /\ UNCHANGED <<stored, fresh, wrote, faults>>

(* 409: an agent merges its edit into the HEAD that came back and retries,  *)
(* or gives up; the CLI exits.                                              *)
Conflict(w) ==
  /\ pc[w] = "put"
  /\ Stale(w)
  /\ \/ /\ w \in Mcp
        /\ view' = [view EXCEPT ![w] = Head0]
        /\ \E b \in {Len(log), AnyHead} : base' = [base EXCEPT ![w] = b]
        /\ UNCHANGED pc
     \/ /\ pc' = [pc EXCEPT ![w] = "idle"]
        /\ UNCHANGED <<view, base>>
  /\ UNCHANGED <<stored, fresh, wrote, faults>>

TxRead(w) ==
  /\ pc[w] = "put"
  /\ ~Stale(w)
  /\ pc' = [pc EXCEPT ![w] = "tx"]
  /\ fresh' = fresh \cup {w}
  /\ wrote' = [wrote EXCEPT ![w] = Len(log) + 1]
  /\ UNCHANGED <<stored, view, base, faults>>

NewEntry(w) == [content |-> view[w].content \cup {w}, by |-> w]

NewAck(w) == [version |-> wrote[w], content |-> NewEntry(w).content, epoch |-> epoch]

(* Mutant: HEAD is read outside of the transaction, and the row upserted.   *)
TxUpsert(w) ==
  /\ pc[w] = "tx"
  /\ exists
  /\ wrote[w] \in 1..(Len(log) + 1)
  /\ wrote[w] <= MaxVersions
  /\ log' = [v \in 1..(IF wrote[w] > Len(log) THEN wrote[w] ELSE Len(log)) |->
               IF v = wrote[w] THEN NewEntry(w) ELSE log[v]]
  /\ acked' = acked \cup {NewAck(w)}
  /\ fresh' = {}
  /\ pc' = [pc EXCEPT ![w] = "enqueue"]
  /\ UNCHANGED <<exists, epoch, view, base, wrote, queue, shipped, faults>>

TxCommit(w) ==
  /\ pc[w] = "tx"
  /\ w \in fresh
  /\ exists
  /\ Len(log) < MaxVersions
  /\ log' = Append(log, NewEntry(w))
  /\ acked' = acked \cup {NewAck(w)}
  /\ fresh' = {}
  /\ pc' = [pc EXCEPT ![w] = "enqueue"]
  /\ UNCHANGED <<exists, epoch, view, base, wrote, queue, shipped, faults>>

(* The insert fails: SQLITE_BUSY, on a stale snapshot or behind any other   *)
(* writer of the database, or no scope row to refer to.  An agent may send  *)
(* the same request again.                                                  *)
TxFail(w) ==
  /\ pc[w] = "tx"
  /\ \E next \in IF w \in Mcp THEN {"idle", "put"} ELSE {"idle"} :
       pc' = [pc EXCEPT ![w] = next]
  /\ fresh' = fresh \ {w}
  /\ UNCHANGED <<stored, view, base, wrote, faults>>

-------------------------------------------------------------------------------
(* putPlan after the commit: EnqueuePlan of the version just written, under *)
(* a key that ends in the version.                                          *)

RowOf(w) == [version |-> wrote[w], content |-> NewEntry(w).content]

Insert(row) ==
  IF \E q \in queue : q.version = row.version THEN queue ELSE queue \cup {row}

(* Mutant: the handler enqueues what GetPlan returns, as putScope does.     *)
EnqueueHead(w) ==
  /\ pc[w] = "enqueue"
  /\ queue' = Insert(Head0)
  /\ fresh' = {}
  /\ pc' = [pc EXCEPT ![w] = "idle"]
  /\ UNCHANGED <<exists, log, epoch, view, base, wrote, shipped, acked, faults>>

EnqueuePlan(w) ==
  /\ pc[w] = "enqueue"
  /\ queue' = Insert(RowOf(w))
  /\ fresh' = {}
  /\ pc' = [pc EXCEPT ![w] = "idle"]
  /\ UNCHANGED <<exists, log, epoch, view, base, wrote, shipped, acked, faults>>

(* logSyncEnqueueErr: the write succeeds without its row.                   *)
EnqueueFails(w) ==
  /\ pc[w] = "enqueue"
  /\ faults < MaxFaults
  /\ faults' = faults + 1
  /\ pc' = [pc EXCEPT ![w] = "idle"]
  /\ UNCHANGED <<stored, view, base, fresh, wrote>>

(* The daemon dies; the writers are processes of their own.                 *)
Crash ==
  /\ faults < MaxFaults
  /\ faults' = faults + 1
  /\ fresh' = {}
  /\ pc' = [w \in Writers |-> IF pc[w] \in {"tx", "enqueue"} THEN "idle" ELSE pc[w]]
  /\ UNCHANGED <<stored, view, base, wrote>>

(* The push path, module Outbox. *)
Ship(row) ==
  /\ row \in queue
  /\ queue' = queue \ {row}
  /\ shipped' = shipped \cup {row}
  /\ fresh' = {}
  /\ UNCHANGED <<exists, log, epoch, pc, view, base, wrote, acked, faults>>

-------------------------------------------------------------------------------
WriterStep(w) ==
  \/ ReadPlan(w)
  \/ WriteNew(w)
  \/ LookUpBase(w)
  \/ Conflict(w)
  \/ TxRead(w)
  \/ TxCommit(w)
  \/ TxFail(w)
  \/ EnqueuePlan(w)
  \/ EnqueueFails(w)

Next ==
  \/ PutScope
  \/ DeleteScope
  \/ \E w \in Writers : WriterStep(w)
  \/ Crash
  \/ \E row \in queue : Ship(row)

Spec == Init /\ [][Next]_vars

-------------------------------------------------------------------------------
(* Types of the tables and of the writers. *)
TypeOK ==
  /\ exists \in BOOLEAN
  /\ log \in Seq(Entry)
  /\ epoch \in Nat
  /\ pc \in [Writers -> {"idle", "edit", "put", "tx", "enqueue"}]
  /\ view \in [Writers -> View]
  /\ base \in [Writers -> Nat \cup {AnyHead}]
  /\ fresh \subseteq Writers
  /\ wrote \in [Writers -> Nat]
  /\ queue \subseteq View
  /\ shipped \subseteq View
  /\ acked \subseteq Ack
  /\ faults \in Nat

(* "two concurrent appends can't both observe the same HEAD and write the   *)
(* same version number": as long as the scope is not deleted, the version   *)
(* and content a commit has reported are what the log holds.                *)
AckedStays ==
  \A a \in acked :
    a.epoch = epoch => a.version \in DOMAIN log /\ log[a.version].content = a.content

(* What of "a stale edit is rejected with the current version, never        *)
(* silently overwritten" (README.md, line 40) holds whatever the CLI and    *)
(* forced writes do: as long as the scope has not been deleted, an agent's  *)
(* append contains the version it replaces, be it retried, merged after a   *)
(* conflict or behind SQLITE_BUSY.                                          *)
AgentsMerge ==
  [][\A w \in Mcp :
       base[w] # AnyHead /\ epoch = 0 /\ Len(log') = Len(log) + 1 /\ log'[Len(log')].by = w
         => Content \subseteq log'[Len(log')].content]_vars

(* Once no handler is between its commit and its enqueue, every version in  *)
(* the log is in the outbox or upstream, under its own number and with its  *)
(* own content, although other writers have moved HEAD in between (as long  *)
(* as no enqueue has failed and the scope has not been deleted).            *)
Settled == \A w \in Writers : pc[w] # "enqueue"

EveryVersionQueued ==
  Settled /\ faults = 0 /\ epoch = 0
    => \A v \in DOMAIN log :
         \E row \in queue \cup shipped : row.version = v /\ row.content = log[v].content

-------------------------------------------------------------------------------
(* Stated by the docs and not kept by the code (README, "Disagreements"); no *)
(* run checks it.                                                            *)

(* "a stale edit is rejected with the current version, never silently       *)
(* overwritten" (README.md, line 40): what an unforced write appends still  *)
(* contains every edit of the version it replaces as HEAD.                  *)
NoSilentOverwrite ==
  [][\A w \in Writers :
       base[w] # AnyHead /\ Len(log') = Len(log) + 1 /\ log'[Len(log')].by = w
         => Content \subseteq log'[Len(log')].content]_vars
===============================================================================

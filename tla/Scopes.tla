-------------------------------- MODULE Scopes --------------------------------
(***************************************************************************)
(* The scope tree and what hangs on it: `resleeve scope`, `learning` and   *)
(* `context`, their MCP tools and the SessionStart hook call the handlers  *)
(* of the daemon (agent/memory_handlers.go), which work on the tables      *)
(* scopes, plan_versions and learnings statement by statement              *)
(* (storage/sql/sqlite/memory.go), and the rows go to the other machines   *)
(* (agent/sync.go).                                                        *)
(*                                                                         *)
(* Its theorems are in MemoryProofs, which reads it beside PlanLog and     *)
(* MemoryFeed; so some of its names differ from theirs: outbox and req are *)
(* what is queue and pc elsewhere.                                         *)
(*                                                                         *)
(* Of a scope row the model keeps whether it is a boundary                 *)
(* (do_not_inherit); a scope has a plan or none (its versions are module   *)
(* PlanLog).  A row upstream can come to a machine at any time and more    *)
(* than once, by the stream or by a pull (module MemoryFeed).              *)
(***************************************************************************)
EXTENDS Naturals, Sequences, FiniteSets, SequencesExt

CONSTANTS
  Machines,     \* machines with a daemon
  Callers,      \* requests that a daemon may be working on
  Paths,        \* scopes, each a sequence of numbers for its segments
  LearningIds,  \* ids of learnings, in the order in which they sort
  MaxCalls      \* bound: requests

ASSUME ScopesAssumption ==
  /\ Paths \subseteq Seq(Nat) \ {<<>>}
  /\ LearningIds \subseteq Nat \ {0}
  /\ MaxCalls \in Nat

VARIABLES
  db,      \* on each machine: the row of each scope, the plans, the learnings
  made,    \* the learnings ever appended
  outbox,  \* table outbox of each machine
  up,      \* the rows of kind memory upstream
  req,     \* where each request is
  calls,   \* how many requests there were
  watch    \* history: what has been true all along while a context was built

tables == <<db, made, outbox, up>>
scopeVars == <<tables, req, calls, watch>>

NoLearning == [path |-> <<>>, fixes |-> 0, by |-> 0]
Empty == [scope |-> [p \in Paths |-> "none"], plan |-> {}, learning |-> {}]
NoRow == [key |-> <<>>, kind |-> "none"]
Idle == [at |-> "idle", m |-> 0, path |-> <<>>, row |-> NoRow, chain |-> <<>>, i |-> 0, doc |-> {}]
NoWatch == [bounded |-> {}, replaced |-> {}, steady |-> {}]

ScopesInit ==
  /\ db = [m \in Machines |-> Empty]
  /\ made = [l \in LearningIds |-> NoLearning]
  /\ outbox = [m \in Machines |-> {}]
  /\ up = {}
  /\ req = [c \in Callers |-> Idle]
  /\ calls = 0
  /\ watch = [c \in Callers |-> NoWatch]

-------------------------------------------------------------------------------
(* The tree. *)

Above(p, q) == IsStrictPrefix(p, q)
Ancestors(p) == [i \in 1..Len(p) |-> SubSeq(p, 1, i)]

(* Mutant: only the first boundary counts. *)
ApplyFirstBoundary(chain) ==
  LET marks == {i \in DOMAIN chain : chain[i].kind = "boundary"}
      first == IF marks = {} THEN 1 ELSE CHOOSE i \in marks : \A j \in marks : i <= j
  IN SubSeq(chain, first, Len(chain))

(* The chain from the last boundary on. *)
ApplyBoundary(chain) ==
  LET marks == {i \in DOMAIN chain : chain[i].kind = "boundary"}
      first == IF marks = {} THEN 1 ELSE CHOOSE i \in marks : \A j \in marks : j <= i
  IN SubSeq(chain, first, Len(chain))

HasScope(d, p) == d.scope[p] # "none"
Children(d, p) == {q \in Paths : Above(p, q) /\ HasScope(d, q)}
Superseded(d) == {made[l].fixes : l \in d.learning}
LearningsOf(d, p) == {l \in d.learning : made[l].path = p}

-------------------------------------------------------------------------------
(* The statements. *)

UpdateScope(d, p, kind) == [d EXCEPT !.scope[p] = kind]

(* Mutant: any id may be superseded. *)
CanAppendAny(d, p, fixes) == HasScope(d, p)

(* The foreign keys: the scope's row, and the learning that is superseded. *)
CanAppend(d, p, fixes) == HasScope(d, p) /\ fixes \in d.learning \cup {0}

(* ON DELETE CASCADE takes the plans and learnings of the scope; a learning  *)
(* of another scope that supersedes one of them makes the statement fail.    *)
DeleteFails(d, p) ==
  \E l \in d.learning : made[l].path # p /\ made[l].fixes \in LearningsOf(d, p)

DeleteRow(d, p) ==
  IF DeleteFails(d, p) THEN d
  ELSE [d EXCEPT !.scope[p] = "none", !.plan = @ \ {p}, !.learning = @ \ LearningsOf(d, p)]

ScopeKey(p) == <<"scope", p>>
LearningKey(l) == <<"learning", l>>
PlanKey(p) == <<"plan", p>>

(* INSERT OR IGNORE on the key: a queued row stays as it is. *)
EnqueueOutbox(Q, row) == IF \E r \in Q : r.key = row.key THEN Q ELSE Q \cup {row}

(* ingestMemoryRow, straight into the tables. *)
IngestRow(d, row) ==
  LET x == row.key[2]
  IN CASE row.key[1] = "scope" -> UpdateScope(d, x, row.kind)
       [] row.key[1] = "plan" -> IF HasScope(d, x) THEN [d EXCEPT !.plan = @ \cup {x}] ELSE d
       [] OTHER -> IF CanAppend(d, made[x].path, made[x].fixes)
                   THEN [d EXCEPT !.learning = @ \cup {x}] ELSE d

-------------------------------------------------------------------------------
(* A request begins. *)

Begin(c, m, at, p, row) ==
  /\ req[c].at = "idle"
  /\ calls < MaxCalls
  /\ calls' = calls + 1
  /\ req' = [req EXCEPT ![c] = [Idle EXCEPT !.at = at, !.m = m, !.path = p, !.row = row, !.i = 1]]

SetScope(c, m, p, kind) ==
  /\ Begin(c, m, "read", p, [key |-> ScopeKey(p), kind |-> kind])
  /\ db' = [db EXCEPT ![m] = UpdateScope(@, p, kind)]
  /\ UNCHANGED <<made, outbox, up>>

(* newLearningID: the ids of one machine grow. *)
AppendLearning(c, m, p, l, fixes) ==
  /\ made[l] = NoLearning
  /\ \A k \in LearningIds : made[k].by = m => k < l
  /\ CanAppend(db[m], p, fixes)
  /\ Begin(c, m, "read", p, [key |-> LearningKey(l), kind |-> "item"])
  /\ made' = [made EXCEPT ![l] = [path |-> p, fixes |-> fixes, by |-> m]]
  /\ db' = [db EXCEPT ![m].learning = @ \cup {l}]
  /\ UNCHANGED <<outbox, up>>

PutPlan(c, m, p) ==
  /\ HasScope(db[m], p)
  /\ Begin(c, m, "enqueue", p, [key |-> PlanKey(p), kind |-> "item"])
  /\ db' = [db EXCEPT ![m].plan = @ \cup {p}]
  /\ UNCHANGED <<made, outbox, up>>

(* DeleteScope, SELECT COUNT: the call ends here if there are children. *)
CountChildren(c, m, p) ==
  /\ Children(db[m], p) = {}
  /\ Begin(c, m, "delete", p, NoRow)
  /\ UNCHANGED tables

BuildContext(c, m, p) ==
  /\ Begin(c, m, "walk", p, NoRow)
  /\ UNCHANGED tables

-------------------------------------------------------------------------------
(* A request goes on. *)

Goto(c, rec) == req' = [req EXCEPT ![c] = rec] /\ UNCHANGED calls

(* GetScope, GetLearning: what is enqueued and answered is the row as it is  *)
(* by then, and without a row the call ends with an error.                   *)
ReadBack(c) ==
  LET d == db[req[c].m]
      key == req[c].row.key
      kind == IF key[1] = "scope" THEN d.scope[key[2]]
              ELSE IF key[2] \in d.learning THEN "item" ELSE "none"
  IN /\ req[c].at = "read"
     /\ Goto(c, IF kind = "none" THEN Idle ELSE [req[c] EXCEPT !.at = "enqueue", !.row.kind = kind])
     /\ UNCHANGED tables

(* Mutant: scopes are kept to the machine. *)
EnqueueItems(c) ==
  /\ req[c].at = "enqueue"
  /\ outbox' = IF req[c].row.key[1] = "scope" THEN outbox
              ELSE [outbox EXCEPT ![req[c].m] = EnqueueOutbox(@, req[c].row)]
  /\ Goto(c, Idle)
  /\ UNCHANGED <<db, made, up>>

(* EnqueueScope, EnqueueLearning, EnqueuePlan *)
Enqueue(c) ==
  /\ req[c].at = "enqueue"
  /\ outbox' = [outbox EXCEPT ![req[c].m] = EnqueueOutbox(@, req[c].row)]
  /\ Goto(c, Idle)
  /\ UNCHANGED <<db, made, up>>

(* DeleteScope, DELETE *)
Delete(c) ==
  /\ req[c].at = "delete"
  /\ db' = [db EXCEPT ![req[c].m] = DeleteRow(@, req[c].path)]
  /\ Goto(c, Idle)
  /\ UNCHANGED <<made, outbox, up>>

(* ResolveChain reads the scopes from the root down, and then applies the    *)
(* boundaries; a scope without a row is a gap.                               *)
ResolveChain(c) ==
  LET p == Ancestors(req[c].path)[req[c].i]
      kind == IF p \in Paths THEN db[req[c].m].scope[p] ELSE "none"
      chain == IF kind = "none" THEN req[c].chain
               ELSE Append(req[c].chain, [path |-> p, kind |-> kind])
  IN /\ req[c].at = "walk"
     /\ Goto(c, IF req[c].i < Len(req[c].path)
                THEN [req[c] EXCEPT !.chain = chain, !.i = @ + 1]
                ELSE [req[c] EXCEPT !.at = IF chain = <<>> THEN "done" ELSE "plans",
                                   !.chain = ApplyBoundary(chain), !.i = 1])
     /\ UNCHANGED tables

(* Two rounds over the chain, first of the plans. *)
Collect(c, at, next, items) ==
  /\ req[c].at = at
  /\ Goto(c, [req[c] EXCEPT !.doc = @ \cup items,
                           !.at = IF @ = at /\ req[c].i = Len(req[c].chain) THEN next ELSE at,
                           !.i = IF @ < Len(req[c].chain) THEN @ + 1 ELSE 1])
  /\ UNCHANGED tables

GetPlan(c) ==
  LET p == req[c].chain[req[c].i].path
  IN Collect(c, "plans", "learnings", IF p \in db[req[c].m].plan THEN {PlanKey(p)} ELSE {})

ListLearnings(c) ==
  LET d == db[req[c].m]
  IN Collect(c, "learnings", "done",
             {LearningKey(l) : l \in LearningsOf(d, req[c].chain[req[c].i].path) \ Superseded(d)})

(* The document is answered. *)
Return(c) ==
  /\ req[c].at = "done"
  /\ Goto(c, Idle)
  /\ UNCHANGED tables

-------------------------------------------------------------------------------
(* The rows travel: drainOnce, then pullKind or runSSE. *)

Push(m) ==
  /\ \E row \in outbox[m] :
       /\ outbox' = [outbox EXCEPT ![m] = @ \ {row}]
       /\ up' = {r \in up : r.key # row.key} \cup {row}
  /\ UNCHANGED <<db, made, req, calls>>

Receive(m) ==
  /\ \E row \in up : db' = [db EXCEPT ![m] = IngestRow(@, row)]
  /\ UNCHANGED <<made, outbox, up, req, calls>>

-------------------------------------------------------------------------------
Building(r) == r.at \in {"walk", "plans", "learnings", "done"}

(* What a context of path p would show at this moment. *)
Bounded(d, p) == {b \in Paths : (Above(b, p) \/ b = p) /\ d.scope[b] = "boundary"}

Shown(d, p) ==
  LET inView == {s \in Paths : /\ Above(s, p) \/ s = p
                               /\ HasScope(d, s)
                               /\ \A b \in Bounded(d, p) : ~Above(s, b)}
  IN {PlanKey(s) : s \in d.plan \cap inView}
       \cup {LearningKey(l) : l \in {k \in d.learning \ Superseded(d) : made[k].path \in inView}}

Glance(c) ==
  LET d == db[req[c].m]
      p == req[c].path
  IN [bounded |-> Bounded(d, p), replaced |-> Superseded(d), steady |-> Shown(d, p)]

Both(a, b) == [bounded |-> a.bounded \cap b.bounded, replaced |-> a.replaced \cap b.replaced,
               steady |-> a.steady \cap b.steady]

Watch ==
  watch' = [c \in Callers |->
              IF ~Building(req'[c]) THEN NoWatch
              ELSE IF Building(req[c]) THEN Both(watch[c], Glance(c)') ELSE Glance(c)']

CallerStep(c) ==
  \/ \E m \in Machines, p \in Paths :
       \/ \E kind \in {"open", "boundary"} : SetScope(c, m, p, kind)
       \/ \E l \in LearningIds, fixes \in LearningIds \cup {0} : AppendLearning(c, m, p, l, fixes)
       \/ PutPlan(c, m, p)
       \/ CountChildren(c, m, p)
       \/ BuildContext(c, m, p)
  \/ ReadBack(c) \/ Enqueue(c) \/ Delete(c)
  \/ ResolveChain(c) \/ GetPlan(c) \/ ListLearnings(c) \/ Return(c)

ScopesNext ==
  /\ \/ \E c \in Callers : CallerStep(c)
     \/ \E m \in Machines : Push(m) \/ Receive(m)
  /\ Watch

ScopesSpec == ScopesInit /\ [][ScopesNext]_scopeVars

-------------------------------------------------------------------------------
Items == {PlanKey(p) : p \in Paths} \cup {LearningKey(l) : l \in LearningIds}
Tables == [scope : [Paths -> {"none", "open", "boundary"}],
           plan : SUBSET Paths, learning : SUBSET LearningIds]
MemoryRows == [key : {ScopeKey(p) : p \in Paths}, kind : {"open", "boundary"}]
                \cup [key : Items, kind : {"item"}]
Requests == [at : {"idle", "read", "enqueue", "delete", "walk", "plans", "learnings", "done"},
             m : Machines \cup {0}, path : Paths \cup {<<>>}, row : MemoryRows \cup {NoRow},
             chain : Seq([path : Paths, kind : {"open", "boundary"}]), i : Nat, doc : SUBSET Items]

(* The foreign keys hold on every machine, and an outbox has one row a key. *)
ScopesTypeOK ==
  /\ db \in [Machines -> Tables]
  /\ made \in [LearningIds -> [path : Paths \cup {<<>>}, fixes : LearningIds \cup {0},
                              by : Machines \cup {0}]]
  /\ outbox \in [Machines -> SUBSET MemoryRows] /\ up \subseteq MemoryRows
  /\ req \in [Callers -> Requests]
  /\ \A m \in Machines :
       /\ \A p \in db[m].plan : HasScope(db[m], p)
       /\ \A l \in db[m].learning :
            HasScope(db[m], made[l].path) /\ made[l].fixes \in db[m].learning \cup {0}
       /\ \A a, b \in outbox[m] : a.key = b.key => a = b

(* `resleeve context` is many statements, and other requests and rows from   *)
(* upstream come in between.  Still the document has every plan and learning *)
(* that was in view all the while, and nothing from above a scope that was a *)
(* boundary all the while ("they don't see ancestors' plans or learnings",   *)
(* docs/USER_GUIDE.md 2.1.3), and no learning that was superseded all the    *)
(* while ("hidden from default reads", 2.3).                                 *)
PathOf(item) == IF item[1] = "plan" THEN item[2] ELSE made[item[2]].path

ContextSound ==
  \A c \in Callers : req[c].at = "done" =>
    /\ watch[c].steady \subseteq req[c].doc
    /\ \A item \in req[c].doc :
         /\ \A b \in watch[c].bounded : ~Above(PathOf(item), b)
         /\ item[1] = "learning" => item[2] \notin watch[c].replaced

(* "A fresh machine reading the memory prefix in lexicographic order applies *)
(* the scope before any of its plans (FK-safe)" (agent/sync.go, EnqueuePlan):*)
(* once everything is pushed, such a machine gets every plan and learning    *)
(* that some machine has, whichever machine made the scope, in whatever      *)
(* order the rows went up, and though deletes do not travel.  Except for     *)
(* corrections that sort before what they correct: those of another scope,   *)
(* or of a machine whose clock is behind.                                    *)
KeyPath(key) == IF key[1] = "learning" THEN made[key[2]].path ELSE key[2]
Rank(key) == CASE key[1] = "scope" -> <<0, 0>> [] key[1] = "learning" -> <<1, key[2]>> [] OTHER -> <<2, 0>>

PathBefore(p, q) ==
  \/ Above(p, q)
  \/ \E i \in 1..Len(p) : i <= Len(q) /\ p[i] < q[i] /\ \A j \in 1..(i - 1) : p[j] = q[j]

Sorts(a, b) ==
  \/ PathBefore(KeyPath(a.key), KeyPath(b.key))
  \/ KeyPath(a.key) = KeyPath(b.key) /\ PathBefore(Rank(a.key), Rank(b.key))

InKeyOrder ==
  \A l \in LearningIds : made[l].fixes # 0 =>
    Sorts([key |-> LearningKey(made[l].fixes)], [key |-> LearningKey(l)])

Fresh ==
  LET after[R \in SUBSET up] ==
        IF R = {} THEN Empty
        ELSE LET last == CHOOSE r \in R : \A q \in R \ {r} : Sorts(q, r)
             IN IngestRow(after[R \ {last}], last)
  IN after[up]

AllPushed ==
  /\ \A m \in Machines : outbox[m] = {}
  /\ \A c \in Callers : req[c].at \notin {"read", "enqueue"}

FreshIsWhole ==
  AllPushed /\ InKeyOrder => \A m \in Machines :
    db[m].plan \subseteq Fresh.plan /\ db[m].learning \subseteq Fresh.learning

(* "Set this on any scope to reset inheritance at that node. Children walk   *)
(* up to this scope but stop" (docs/USER_GUIDE.md 2.1.3): with one machine,  *)
(* a scope remains a boundary until somebody sets or deletes it.             *)
BoundaryStays ==
  [][\A m \in Machines, p \in Paths :
       db[m].scope[p] = "boundary" /\ db'[m].scope[p] = "open"
         => \E c \in Callers : req[c] # req'[c] /\ req'[c].path = p]_scopeVars
===============================================================================

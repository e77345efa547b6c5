----------------------------- MODULE MemoryProofs -----------------------------
(***************************************************************************)
(* Theorems about the memory of a brain, for any writers, keys, scopes and *)
(* bounds: module PlanLog, the versions of one plan slot; module           *)
(* MemoryFeed, the rows of kind memory on their way to a device; and       *)
(* module Scopes, the scope tree and the documents made of it.             *)
(*                                                                         *)
(* PlanLog.  A writer with a fresh snapshot is about to write the version  *)
(* after HEAD (FreshIsNext), for every write of the database takes all     *)
(* snapshots away.  So a commit only ever appends, and what an earlier     *)
(* commit reported stays where it was.  Until the log is cut back, an      *)
(* agent's base_version identifies the content it works from (ViewIsLog),  *)
(* so passing the check means having seen HEAD.                            *)
(*                                                                         *)
(* MemoryFeed.  A subscriber has every row after its since=, or the row is *)
(* about to be published to it, or its backlog has not come to it          *)
(* (HandedOver): a page leaves out only rows that come after all of its    *)
(* own, and none unless it is full.  While the rows are put in the order   *)
(* of their keys, whatever can become the cursor has only rows behind it   *)
(* that are in the tables or are Lost (Marks), for a row that is on        *)
(* the wire, in a buffer, in the backlog or in the pull's page has the     *)
(* missing rows before it on their way ahead of it (Ordered).              *)
(*                                                                         *)
(* Scopes.  What has been true all along is true now (Followed), so a      *)
(* statement of a context cannot miss what is to be shown, nor read what   *)
(* is hidden, of the scope it is about.  The walk has the scopes and the   *)
(* boundaries as far as it has come (Walked), after it nothing in the      *)
(* chain is above a boundary (Limited), and a round has collected what was *)
(* in view of the scopes it has passed (Round).  A fresh machine: every    *)
(* key of a table is upstream or on its way there (OnTheirWay), and the    *)
(* rows are ingested in a total order in which a row needs earlier ones    *)
(* only (PathsAreOrdered, CompleteBefore, FreshHolds).                     *)
(***************************************************************************)
EXTENDS PlanLog, MemoryFeed, Scopes, SequenceTheorems, FiniteSetTheorems, WellFoundedInduction, TLAPS

-------------------------------------------------------------------------------
(* The versions of a plan slot. *)
FreshIsNext ==
  \A w \in fresh : pc[w] = "tx" /\ wrote[w] = Len(log) + 1

EpochOfAcks == \A a \in acked : a.epoch <= epoch

IInv ==
  /\ TypeOK
  /\ FreshIsNext
  /\ EpochOfAcks
  /\ AckedStays

LEMMA InitSafe == Init => IInv
<1> SUFFICES ASSUME Init PROVE IInv
  OBVIOUS
<1>1. log \in Seq(Entry)
  BY EmptySeq DEF Init
<1> QED  BY <1>1 DEF Init, IInv, TypeOK, View, FreshIsNext, EpochOfAcks, AckedStays

(* HEAD as GetPlan returns it. *)
LEMMA HeadType ==
  ASSUME TypeOK
  PROVE  Len(log) \in Nat /\ Content \in SUBSET Writers /\ Head0 \in View
<1>1. Len(log) \in Nat
  BY LenProperties DEF TypeOK
<1>2. Content \in SUBSET Writers
  <2>1. CASE log = <<>>
    BY <2>1 DEF Content
  <2>2. CASE log # <<>>
    <3>1. Len(log) \in 1..Len(log)
      BY <2>2, EmptySeq, LenProperties DEF TypeOK
    <3>2. log[Len(log)] \in Entry
      BY <3>1, ElementOfSeq DEF TypeOK
    <3> QED  BY <2>2, <3>2 DEF Content, Entry
  <2> QED  BY <2>1, <2>2
<1> QED  BY <1>1, <1>2 DEF Head0, View

LEMMA CommitAppends ==
  ASSUME TypeOK, FreshIsNext, NEW w \in Writers, TxCommit(w)
  PROVE  /\ NewEntry(w) \in Entry
         /\ NewAck(w) \in Ack
         /\ log' \in Seq(Entry)
         /\ Len(log') = Len(log) + 1
         /\ \A v \in 1..Len(log) : log'[v] = log[v]
         /\ log'[Len(log) + 1] = NewEntry(w)
         /\ wrote[w] = Len(log) + 1
<1>1. NewEntry(w) \in Entry /\ NewEntry(w).content \in SUBSET Writers
  BY DEF NewEntry, Entry, TypeOK, View
<1>2. NewAck(w) \in Ack
  BY <1>1 DEF NewAck, Ack, TypeOK
<1>3. wrote[w] = Len(log) + 1
  BY DEF TxCommit, FreshIsNext
<1>4. log' = Append(log, NewEntry(w)) /\ log \in Seq(Entry)
  BY DEF TxCommit, TypeOK
<1> QED  BY <1>1, <1>2, <1>3, <1>4, AppendProperties

-------------------------------------------------------------------------------
LEMMA TypeStep == TypeOK /\ FreshIsNext /\ [Next]_vars => TypeOK'
<1> SUFFICES ASSUME TypeOK, FreshIsNext, [Next]_vars PROVE TypeOK'
  OBVIOUS
<1> DEFINE PcType == pc' \in [Writers -> {"idle", "edit", "put", "tx", "enqueue"}]
<1>1. CASE PutScope
  BY <1>1 DEF PutScope, TypeOK
<1>2. CASE DeleteScope
  <2>1. log' \in Seq(Entry)
    BY <1>2, EmptySeq DEF DeleteScope
  <2>2. epoch' \in Nat /\ fresh' \subseteq Writers
    BY <1>2 DEF DeleteScope, TypeOK
  <2>3. exists' \in BOOLEAN
    BY <1>2, Zenon DEF DeleteScope
  <2>4. UNCHANGED <<pc, view, base, wrote, queue, shipped, acked, faults>>
    BY <1>2 DEF DeleteScope
  <2> QED  BY <2>1, <2>2, <2>3, <2>4 DEF TypeOK
<1>3. ASSUME NEW w \in Writers, ReadPlan(w)
      PROVE  TypeOK'
  <2>1. view' \in [Writers -> View] /\ base' \in [Writers -> Nat \cup {AnyHead}]
    BY <1>3, HeadType DEF ReadPlan, TypeOK
  <2>2. PcType
    BY <1>3 DEF ReadPlan, TypeOK
  <2>3. UNCHANGED <<stored, fresh, wrote, faults>>
    BY <1>3 DEF ReadPlan
  <2> QED  BY <2>1, <2>2, <2>3 DEF TypeOK, stored
<1>4. ASSUME NEW w \in Writers, WriteNew(w)
      PROVE  TypeOK'
  <2>1. [version |-> 0, content |-> {}] \in View
    BY DEF View
  <2>2. view' \in [Writers -> View] /\ base' \in [Writers -> Nat \cup {AnyHead}] /\ PcType
    BY <1>4, <2>1 DEF WriteNew, TypeOK
  <2> QED  BY <1>4, <2>2 DEF WriteNew, TypeOK, stored
<1>5. ASSUME NEW w \in Writers, LookUpBase(w)
      PROVE  TypeOK'
  <2>1. base' \in [Writers -> Nat \cup {AnyHead}] /\ PcType
    BY <1>5, HeadType DEF LookUpBase, TypeOK
  <2> QED  BY <1>5, <2>1 DEF LookUpBase, TypeOK, stored
<1>6. ASSUME NEW w \in Writers, Conflict(w)
      PROVE  TypeOK'
  <2>1. view' \in [Writers -> View] /\ base' \in [Writers -> Nat \cup {AnyHead}] /\ PcType
    <3>1. Head0 \in View /\ Len(log) \in Nat
      BY HeadType
    <3>2. base' \in [Writers -> Nat \cup {AnyHead}] /\ PcType
      BY <1>6, <3>1 DEF Conflict, TypeOK
    <3>3. view' \in [Writers -> View]
      BY <1>6, <3>1 DEF Conflict, TypeOK
    <3> QED  BY <3>2, <3>3
  <2> QED  BY <1>6, <2>1 DEF Conflict, TypeOK, stored
<1>7. ASSUME NEW w \in Writers, TxRead(w)
      PROVE  TypeOK'
  <2>1. wrote' \in [Writers -> Nat] /\ PcType /\ fresh' \subseteq Writers
    BY <1>7, HeadType DEF TxRead, TypeOK
  <2> QED  BY <1>7, <2>1 DEF TxRead, TypeOK, stored
<1>8. ASSUME NEW w \in Writers, TxCommit(w)
      PROVE  TypeOK'
  <2>1. log' \in Seq(Entry) /\ NewAck(w) \in Ack
    BY <1>8, CommitAppends
  <2>2. acked' \subseteq Ack /\ PcType
    BY <1>8, <2>1 DEF TxCommit, TypeOK
  <2> QED  BY <1>8, <2>1, <2>2 DEF TxCommit, TypeOK
<1>9. ASSUME NEW w \in Writers, TxFail(w)
      PROVE  TypeOK'
  <2>1. PcType /\ fresh' \subseteq Writers
    BY <1>9 DEF TxFail, TypeOK
  <2> QED  BY <1>9, <2>1 DEF TxFail, TypeOK, stored
<1>10. ASSUME NEW w \in Writers, EnqueuePlan(w)
       PROVE  TypeOK'
  <2>1. RowOf(w) \in View
    BY DEF RowOf, NewEntry, View, TypeOK
  <2>2. queue' \subseteq View /\ PcType
    BY <1>10, <2>1 DEF EnqueuePlan, Insert, TypeOK
  <2> QED  BY <1>10, <2>2 DEF EnqueuePlan, TypeOK
<1>11. ASSUME NEW w \in Writers, EnqueueFails(w)
       PROVE  TypeOK'
  BY <1>11 DEF EnqueueFails, TypeOK, stored
<1>12. CASE Crash
  <2>1. PcType
    BY <1>12 DEF Crash, TypeOK
  <2> QED  BY <1>12, <2>1 DEF Crash, TypeOK, stored
<1>13. ASSUME NEW row \in queue, Ship(row)
       PROVE  TypeOK'
  BY <1>13 DEF Ship, TypeOK
<1>14. CASE UNCHANGED vars
  BY <1>14 DEF vars, TypeOK
<1> QED
  BY <1>1, <1>2, <1>3, <1>4, <1>5, <1>6, <1>7, <1>8, <1>9, <1>10, <1>11, <1>12,
     <1>13, <1>14
  DEF Next, WriterStep

-------------------------------------------------------------------------------
(* What a step can do to the log: a commit appends, a delete empties it,    *)
(* and every other step leaves it, and what was reported about it, alone.   *)
LEMMA LogSteps ==
  ASSUME [Next]_vars
  PROVE  \/ DeleteScope
         \/ \E w \in Writers : TxCommit(w)
         \/ UNCHANGED <<log, epoch, acked>>
BY DEF Next, WriterStep, vars, stored, PutScope, ReadPlan, WriteNew, LookUpBase, Conflict,
       TxRead, TxFail, EnqueuePlan, EnqueueFails, Crash, Ship

LEMMA FreshStep ==
  ASSUME IInv, [Next]_vars
  PROVE  FreshIsNext'
<1> USE DEF IInv, FreshIsNext
<1>1. CASE fresh' = {}
  BY <1>1
<1>2. ASSUME NEW w \in Writers,
             ReadPlan(w) \/ WriteNew(w) \/ LookUpBase(w) \/ Conflict(w) \/ EnqueueFails(w)
      PROVE  FreshIsNext'
  <2>1. w \notin fresh /\ UNCHANGED <<fresh, log, wrote>>
    BY <1>2 DEF ReadPlan, WriteNew, LookUpBase, Conflict, EnqueueFails, stored
  <2>2. \A u \in Writers \ {w} : pc'[u] = pc[u]
    BY <1>2 DEF ReadPlan, WriteNew, LookUpBase, Conflict, EnqueueFails, TypeOK
  <2> QED  BY <2>1, <2>2 DEF TypeOK
<1>3. ASSUME NEW w \in Writers, TxRead(w)
      PROVE  FreshIsNext'
  <2>1. pc'[w] = "tx" /\ wrote'[w] = Len(log) + 1
    BY <1>3 DEF TxRead, TypeOK
  <2>2. \A u \in Writers \ {w} : pc'[u] = pc[u] /\ wrote'[u] = wrote[u]
    BY <1>3 DEF TxRead, TypeOK
  <2>3. fresh' = fresh \cup {w} /\ UNCHANGED log
    BY <1>3 DEF TxRead, stored
  <2> QED  BY <2>1, <2>2, <2>3 DEF TypeOK
<1>4. ASSUME NEW w \in Writers, TxFail(w)
      PROVE  FreshIsNext'
  <2>1. \A u \in Writers \ {w} : pc'[u] = pc[u]
    BY <1>4 DEF TxFail, TypeOK
  <2>2. fresh' = fresh \ {w} /\ UNCHANGED <<log, wrote>>
    BY <1>4 DEF TxFail, stored
  <2> QED  BY <2>1, <2>2 DEF TypeOK
<1>5. CASE UNCHANGED vars
  BY <1>5 DEF vars
<1>6. \/ fresh' = {}
      \/ \E w \in Writers : \/ ReadPlan(w) \/ WriteNew(w) \/ LookUpBase(w) \/ Conflict(w)
                            \/ EnqueueFails(w) \/ TxRead(w) \/ TxFail(w)
      \/ UNCHANGED vars
  BY DEF Next, WriterStep, PutScope, DeleteScope, TxCommit, EnqueuePlan, Crash, Ship
<1> QED  BY <1>1, <1>2, <1>3, <1>4, <1>5, <1>6

LEMMA AckStep ==
  ASSUME IInv, [Next]_vars
  PROVE  EpochOfAcks' /\ AckedStays'
<1>0. Len(log) \in Nat /\ DOMAIN log = 1..Len(log) /\ epoch \in Nat
      /\ \A a \in acked : a.epoch \in Nat /\ a.version \in Nat
  BY LenProperties DEF IInv, TypeOK, Ack
<1>1. CASE DeleteScope
  <2>1. epoch' = epoch + 1 /\ acked' = acked
    BY <1>1 DEF DeleteScope
  <2> QED  BY <1>0, <2>1 DEF IInv, EpochOfAcks, AckedStays
<1>2. ASSUME NEW w \in Writers, TxCommit(w)
      PROVE  EpochOfAcks' /\ AckedStays'
  <2>1. /\ log' \in Seq(Entry) /\ Len(log') = Len(log) + 1
        /\ \A v \in 1..Len(log) : log'[v] = log[v]
        /\ log'[Len(log) + 1] = NewEntry(w)
        /\ wrote[w] = Len(log) + 1
    BY <1>2, CommitAppends DEF IInv
  <2>2. DOMAIN log' = 1..(Len(log) + 1)
    BY <2>1, LenProperties
  <2>3. acked' = acked \cup {NewAck(w)} /\ epoch' = epoch
    BY <1>2 DEF TxCommit
  <2>4. /\ NewAck(w).epoch = epoch
        /\ NewAck(w).version = Len(log) + 1
        /\ NewAck(w).content = NewEntry(w).content
    BY <2>1 DEF NewAck
  <2>5. EpochOfAcks'
    BY <1>0, <2>3, <2>4 DEF IInv, EpochOfAcks
  <2>6. ASSUME NEW a \in acked', a.epoch = epoch'
        PROVE  a.version \in DOMAIN log' /\ log'[a.version].content = a.content
    <3>1. CASE a \in acked
      <4>1. a.version \in 1..Len(log) /\ log[a.version].content = a.content
        BY <1>0, <2>3, <2>6, <3>1 DEF IInv, AckedStays
      <4> QED  BY <1>0, <2>1, <2>2, <4>1
    <3>2. CASE a = NewAck(w)
      BY <1>0, <2>1, <2>2, <2>4, <3>2
    <3> QED  BY <2>3, <2>6, <3>1, <3>2
  <2> QED  BY <2>5, <2>6 DEF AckedStays
<1>3. CASE UNCHANGED <<log, epoch, acked>>
  BY <1>3 DEF IInv, EpochOfAcks, AckedStays
<1> QED  BY <1>1, <1>2, <1>3, LogSteps

LEMMA Invariance == Spec => []IInv
<1>1. IInv /\ [Next]_vars => IInv'
  BY TypeStep, FreshStep, AckStep DEF IInv
<1> QED  BY <1>1, InitSafe, PTL DEF Spec

(* The tables and the writers keep their types in every behaviour. *)
THEOREM TypeCorrect == Spec => []TypeOK
BY Invariance, PTL DEF IInv

(* A version number that a commit has reported keeps its content for as     *)
(* long as the scope is not deleted, for any mixture of agents, CLI writes  *)
(* and forced writes: AppendPlanVersion never hands a number out twice.     *)
THEOREM VersionsAreImmutable == Spec => []AckedStays
BY Invariance, PTL DEF IInv

-------------------------------------------------------------------------------
(* What an agent works from is a version of the log, and its base_version   *)
(* names that version or forces the write; a process at "edit" is a CLI.    *)
ViewIsLog ==
  \A w \in Mcp :
    /\ pc[w] # "edit"
    /\ base[w] \in {view[w].version, AnyHead}
    /\ view[w].version <= Len(log)
    /\ view[w].content = IF view[w].version = 0 THEN {} ELSE log[view[w].version].content

(* An agent whose transaction can still write has seen HEAD, or forces.     *)
FreshHasSeen == \A w \in fresh \cap Mcp : base[w] \in {Len(log), AnyHead}

Seen == epoch = 0 => ViewIsLog /\ FreshHasSeen

LEMMA SeenInit == Init => Seen
<1> SUFFICES ASSUME Init PROVE Seen
  OBVIOUS
<1>1. Len(log) = 0
  BY EmptySeq DEF Init
<1> QED  BY <1>1 DEF Init, Seen, ViewIsLog, FreshHasSeen, Writers

LEMMA ContentAtHead ==
  ASSUME TypeOK
  PROVE  Content = IF Len(log) = 0 THEN {} ELSE log[Len(log)].content
<1>1. log = <<>> <=> Len(log) = 0
  BY EmptySeq DEF TypeOK
<1> QED  BY <1>1 DEF Content

LEMMA SeenStep ==
  ASSUME IInv, Seen, [Next]_vars
  PROVE  Seen'
<1>0. /\ Len(log) \in Nat /\ epoch \in Nat
      /\ \A w \in Writers : view[w].version \in Nat
      /\ Mcp \subseteq Writers
      /\ Head0.version = Len(log)
      /\ Head0.content = IF Len(log) = 0 THEN {} ELSE log[Len(log)].content
  BY HeadType, ContentAtHead DEF IInv, TypeOK, View, Writers, Head0
<1>1. CASE DeleteScope
  <2>1. epoch' # 0
    BY <1>0, <1>1 DEF DeleteScope
  <2> QED  BY <2>1 DEF Seen
<1>2. CASE epoch # 0 /\ UNCHANGED epoch
  BY <1>2 DEF Seen
<1>3. ASSUME NEW w \in Writers, TxCommit(w), epoch = 0
      PROVE  Seen'
  <2>1. Len(log') = Len(log) + 1 /\ \A v \in 1..Len(log) : log'[v] = log[v]
    BY <1>3, CommitAppends DEF IInv
  <2>2. fresh' = {} /\ UNCHANGED <<view, base, epoch>>
    BY <1>3 DEF TxCommit
  <2>3. \A u \in Mcp : pc'[u] # "edit"
    BY <1>0, <1>3 DEF TxCommit, Seen, ViewIsLog, IInv, TypeOK
  <2>4. ViewIsLog'
    BY <1>0, <1>3, <2>1, <2>2, <2>3 DEF Seen, ViewIsLog
  <2> QED  BY <2>2, <2>4 DEF Seen, FreshHasSeen
<1>4. ASSUME NEW w \in Writers, epoch = 0,
             ReadPlan(w) \/ WriteNew(w) \/ LookUpBase(w) \/ Conflict(w)
      PROVE  Seen'
  <2>1. UNCHANGED <<log, epoch, fresh>> /\ w \notin fresh
    BY <1>4 DEF ReadPlan, WriteNew, LookUpBase, Conflict, stored, IInv, FreshIsNext
  <2>2. \A u \in Mcp : pc'[u] # "edit"
    BY <1>0, <1>4, PlanLogAssumption
    DEF ReadPlan, WriteNew, LookUpBase, Conflict, Seen, ViewIsLog, IInv, TypeOK
  <2>3. \A u \in Writers \ {w} : view'[u] = view[u] /\ base'[u] = base[u]
    BY <1>4 DEF ReadPlan, WriteNew, LookUpBase, Conflict, IInv, TypeOK
  <2>4. ASSUME w \in Mcp
        PROVE  \/ view'[w] = view[w] /\ base'[w] = base[w]
               \/ view'[w] = Head0 /\ base'[w] \in {Len(log), AnyHead}
               \/ view'[w] = [version |-> 0, content |-> {}] /\ base'[w] \in {0, AnyHead}
    <3>1. ~LookUpBase(w)
      BY <1>4, <2>4 DEF LookUpBase, Seen, ViewIsLog
    <3>2. CASE ReadPlan(w)
      BY <2>4, <3>2, PlanLogAssumption DEF ReadPlan, IInv, TypeOK
    <3>3. CASE WriteNew(w)
      BY <3>3 DEF WriteNew, IInv, TypeOK
    <3>4. CASE Conflict(w)
      BY <3>4 DEF Conflict, IInv, TypeOK
    <3> QED  BY <1>4, <3>1, <3>2, <3>3, <3>4
  <2>5. ViewIsLog'
    <3> SUFFICES ASSUME NEW u \in Mcp
                 PROVE  /\ base'[u] \in {view'[u].version, AnyHead}
                        /\ view'[u].version <= Len(log)
                        /\ view'[u].content = IF view'[u].version = 0 THEN {}
                                              ELSE log[view'[u].version].content
      BY <2>1, <2>2 DEF ViewIsLog
    <3>1. CASE view'[u] = view[u] /\ base'[u] = base[u]
      BY <1>4, <3>1 DEF Seen, ViewIsLog
    <3>2. CASE view'[u] = Head0 /\ base'[u] \in {Len(log), AnyHead}
      BY <1>0, <3>2
    <3>3. CASE view'[u] = [version |-> 0, content |-> {}] /\ base'[u] \in {0, AnyHead}
      BY <1>0, <3>3
    <3> QED  BY <1>0, <2>3, <2>4, <3>1, <3>2, <3>3
  <2>6. FreshHasSeen'
    BY <1>0, <1>4, <2>1, <2>3 DEF Seen, FreshHasSeen
  <2> QED  BY <2>5, <2>6 DEF Seen
<1>5. ASSUME NEW w \in Writers, TxRead(w), epoch = 0
      PROVE  Seen'
  <2>1. UNCHANGED <<log, epoch, view, base>> /\ fresh' = fresh \cup {w}
    BY <1>5 DEF TxRead, stored
  <2>2. base[w] \in {Len(log), AnyHead}
    BY <1>5 DEF TxRead, Stale
  <2>3. \A u \in Mcp : pc'[u] # "edit"
    BY <1>0, <1>5 DEF TxRead, Seen, ViewIsLog, IInv, TypeOK
  <2> QED  BY <1>5, <2>1, <2>2, <2>3 DEF Seen, ViewIsLog, FreshHasSeen
<1>6. ASSUME UNCHANGED <<log, epoch, view, base>>, fresh' \subseteq fresh, epoch = 0,
             \A u \in Writers : pc'[u] = pc[u] \/ pc'[u] # "edit"
      PROVE  Seen'
  BY <1>0, <1>6 DEF Seen, ViewIsLog, FreshHasSeen
<1>7. ASSUME NEW w \in Writers, TxFail(w) \/ EnqueuePlan(w) \/ EnqueueFails(w), epoch = 0
      PROVE  Seen'
  <2>1. \A u \in Writers : pc'[u] = pc[u] \/ pc'[u] # "edit"
    BY <1>7 DEF TxFail, EnqueuePlan, EnqueueFails, IInv, TypeOK
  <2>2. UNCHANGED <<log, epoch, view, base>> /\ fresh' \subseteq fresh
    BY <1>7 DEF TxFail, EnqueuePlan, EnqueueFails, stored
  <2> QED  BY <1>6, <1>7, <2>1, <2>2
<1>8. CASE Crash /\ epoch = 0
  <2>1. \A u \in Writers : pc'[u] = pc[u] \/ pc'[u] # "edit"
    BY <1>8 DEF Crash
  <2>2. UNCHANGED <<log, epoch, view, base>> /\ fresh' \subseteq fresh
    BY <1>8 DEF Crash, stored
  <2> QED  BY <1>6, <1>8, <2>1, <2>2
<1>9. CASE (PutScope \/ (\E row \in queue : Ship(row)) \/ UNCHANGED vars) /\ epoch = 0
  BY <1>6, <1>9 DEF PutScope, Ship, vars
<1>10. DeleteScope \/ UNCHANGED epoch
  BY LogSteps DEF TxCommit
<1> QED
  BY <1>1, <1>2, <1>3, <1>4, <1>5, <1>7, <1>8, <1>9, <1>10 DEF Next, WriterStep

(* A commit that was not forced contains what it replaces. *)
LEMMA CommitContainsHead ==
  ASSUME IInv, Seen, [Next]_vars, NEW w \in Mcp, base[w] # AnyHead, epoch = 0,
         Len(log') = Len(log) + 1, log'[Len(log')].by = w
  PROVE  Content \subseteq log'[Len(log')].content
<1>0. Len(log) \in Nat /\ Len(log) # Len(log) + 1
  BY HeadType DEF IInv
<1>1. ~DeleteScope
  <2>1. DeleteScope => Len(log') = 0
    BY EmptySeq DEF DeleteScope
  <2> QED  BY <1>0, <2>1
<1>2. PICK u \in Writers : TxCommit(u)
  BY <1>0, <1>1, LogSteps
<1>3. log'[Len(log')] = NewEntry(u)
  BY <1>2, CommitAppends DEF IInv
<1>4. u = w
  BY <1>3 DEF NewEntry
<1>5. view[w].version = Len(log)
  BY <1>0, <1>2, <1>4 DEF TxCommit, Seen, ViewIsLog, FreshHasSeen
<1>6. view[w].content = Content
  BY <1>0, <1>5, ContentAtHead DEF Seen, ViewIsLog, IInv
<1> QED  BY <1>3, <1>4, <1>6 DEF NewEntry

(* An agent's unforced append loses no edit of the HEAD it replaces, for    *)
(* any number of agents, CLI writes and forced writes beside it.            *)
THEOREM AgentsLoseNothing == Spec => AgentsMerge
<1>1. Init => Seen
  BY SeenInit
<1>2. IInv /\ Seen /\ [Next]_vars => Seen'
  BY SeenStep
<1>3. IInv /\ Seen /\ [Next]_vars
        => [\A w \in Mcp :
              base[w] # AnyHead /\ epoch = 0 /\ Len(log') = Len(log) + 1 /\ log'[Len(log')].by = w
                => Content \subseteq log'[Len(log')].content]_vars
  BY CommitContainsHead
<1> QED  BY <1>1, <1>2, <1>3, Invariance, PTL DEF Spec, AgentsMerge

-------------------------------------------------------------------------------
(* Every row of the slot is a version of the log, a handler between its     *)
(* commit and its enqueue holds a version of the log, and every version has *)
(* a row or such a handler.                                                 *)
IsVersion(row) == row.version \in 1..Len(log) /\ row.content = log[row.version].content

Rows == queue \cup shipped

Accounted ==
  /\ \A row \in Rows : IsVersion(row)
  /\ \A w \in Writers : pc[w] = "enqueue" => IsVersion(RowOf(w))
  /\ \A v \in 1..Len(log) : \/ \E row \in Rows : row.version = v
                            \/ \E w \in Writers : pc[w] = "enqueue" /\ wrote[w] = v

Backed == faults = 0 /\ epoch = 0 => Accounted

LEMMA BackedInit == Init => Backed
<1> SUFFICES ASSUME Init PROVE Accounted
  BY DEF Backed
<1>1. Len(log) = 0
  BY EmptySeq DEF Init
<1> QED  BY <1>1 DEF Init, Accounted, Rows

(* Neither number comes back to 0. *)
LEMMA CountersGrow ==
  ASSUME TypeOK, [Next]_vars, faults' = 0, epoch' = 0
  PROVE  faults = 0 /\ epoch = 0 /\ UNCHANGED faults /\ ~DeleteScope /\ ~Crash
         /\ \A w \in Writers : ~EnqueueFails(w)
<1>1. faults \in Nat /\ epoch \in Nat
  BY DEF TypeOK
<1> QED
  BY <1>1 DEF Next, WriterStep, vars, stored, PutScope, DeleteScope, ReadPlan, WriteNew,
     LookUpBase, Conflict, TxRead, TxCommit, TxFail, EnqueuePlan, EnqueueFails, Crash, Ship

LEMMA BackedStep ==
  ASSUME IInv, Backed, [Next]_vars
  PROVE  Backed'
<1> SUFFICES ASSUME faults' = 0, epoch' = 0
             PROVE  Accounted'
  BY DEF Backed
<1>0. Accounted /\ ~DeleteScope /\ ~Crash /\ \A w \in Writers : ~EnqueueFails(w)
  BY CountersGrow DEF IInv, Backed
<1>1. TypeOK /\ Len(log) \in Nat
  BY HeadType DEF IInv
<1>2. ASSUME UNCHANGED <<log, queue, shipped>>,
             \A u \in Writers : /\ pc'[u] = "enqueue" <=> pc[u] = "enqueue"
                                /\ pc[u] = "enqueue" => /\ wrote'[u] = wrote[u]
                                                        /\ view'[u] = view[u]
      PROVE  Accounted'
  BY <1>0, <1>2 DEF Accounted, Rows, IsVersion, RowOf, NewEntry
<1>3. ASSUME NEW w \in Writers,
             ReadPlan(w) \/ WriteNew(w) \/ LookUpBase(w) \/ Conflict(w) \/ TxRead(w) \/ TxFail(w)
      PROVE  Accounted'
  <2>1. pc[w] # "enqueue" /\ pc'[w] # "enqueue" /\ UNCHANGED <<log, queue, shipped>>
    BY <1>1, <1>3
    DEF ReadPlan, WriteNew, LookUpBase, Conflict, TxRead, TxFail, stored, TypeOK
  <2>2. \A u \in Writers \ {w} : pc'[u] = pc[u] /\ wrote'[u] = wrote[u] /\ view'[u] = view[u]
    BY <1>1, <1>3 DEF ReadPlan, WriteNew, LookUpBase, Conflict, TxRead, TxFail, TypeOK
  <2> QED  BY <1>2, <2>1, <2>2
<1>4. ASSUME NEW w \in Writers, TxCommit(w)
      PROVE  Accounted'
  <2>1. /\ Len(log') = Len(log) + 1
        /\ \A v \in 1..Len(log) : log'[v] = log[v]
        /\ log'[Len(log) + 1] = NewEntry(w)
        /\ wrote[w] = Len(log) + 1
    BY <1>4, CommitAppends DEF IInv
  <2>2. UNCHANGED <<queue, shipped, view, wrote>> /\ pc' = [pc EXCEPT ![w] = "enqueue"]
    BY <1>4 DEF TxCommit
  <2>3. \A row : IsVersion(row) => IsVersion(row)'
    BY <1>1, <2>1 DEF IsVersion
  <2>4. \A row \in Rows' : IsVersion(row)'
    BY <1>0, <2>2, <2>3 DEF Accounted, Rows
  <2>5. \A u \in Writers : RowOf(u)' = RowOf(u)
    BY <2>2 DEF RowOf, NewEntry
  <2>6. IsVersion(RowOf(w))'
    BY <1>1, <2>1, <2>2 DEF IsVersion, RowOf, NewEntry
  <2>7. \A u \in Writers : pc'[u] = "enqueue" => IsVersion(RowOf(u))'
    <3> TAKE u \in Writers
    <3>1. CASE u = w
      BY <2>6, <3>1
    <3>2. CASE u # w
      <4>1. pc'[u] = pc[u]
        BY <1>1, <2>2, <3>2 DEF TypeOK
      <4>2. pc[u] = "enqueue" => IsVersion(RowOf(u))
        BY <1>0 DEF Accounted
      <4> QED  BY <1>1, <2>1, <2>5, <4>1, <4>2 DEF IsVersion
    <3> QED  BY <3>1, <3>2
  <2>8. ASSUME NEW v \in 1..Len(log')
        PROVE  \/ \E row \in Rows' : row.version = v
               \/ \E u \in Writers : pc'[u] = "enqueue" /\ wrote'[u] = v
    <3>1. CASE v \in 1..Len(log)
      BY <1>0, <1>1, <2>2, <3>1 DEF Accounted, Rows, TypeOK
    <3>2. CASE v = Len(log) + 1
      BY <1>1, <2>1, <2>2, <3>2 DEF TypeOK
    <3> QED  BY <1>1, <2>1, <3>1, <3>2
  <2> QED  BY <2>4, <2>7, <2>8 DEF Accounted
<1>5. ASSUME NEW w \in Writers, EnqueuePlan(w)
      PROVE  Accounted'
  <2>1. /\ UNCHANGED <<log, shipped, view, wrote>> /\ pc[w] = "enqueue"
        /\ pc' = [pc EXCEPT ![w] = "idle"] /\ queue' = Insert(RowOf(w))
    BY <1>5 DEF EnqueuePlan
  <2>2. IsVersion(RowOf(w))
    BY <1>0, <2>1 DEF Accounted
  <2>3. Rows \subseteq Rows' /\ Rows' \subseteq Rows \cup {RowOf(w)}
    BY <2>1 DEF Rows, Insert
  <2>4. \E row \in Rows' : row.version = wrote[w]
    <3>1. RowOf(w).version = wrote[w]
      BY DEF RowOf
    <3>2. CASE \E q \in queue : q.version = RowOf(w).version
      BY <2>3, <3>1, <3>2 DEF Rows
    <3>3. CASE ~\E q \in queue : q.version = RowOf(w).version
      BY <2>1, <3>1, <3>3 DEF Rows, Insert
    <3> QED  BY <3>2, <3>3
  <2>5. \A row \in Rows' : IsVersion(row)'
    BY <1>0, <2>1, <2>2, <2>3 DEF Accounted, IsVersion
  <2>6. \A u \in Writers : pc'[u] = "enqueue" => pc[u] = "enqueue" /\ u # w
    BY <1>1, <2>1 DEF TypeOK
  <2>7. \A u \in Writers : pc'[u] = "enqueue" => IsVersion(RowOf(u))'
    BY <1>0, <2>1, <2>6 DEF Accounted, IsVersion, RowOf, NewEntry
  <2>8. ASSUME NEW v \in 1..Len(log')
        PROVE  \/ \E row \in Rows' : row.version = v
               \/ \E u \in Writers : pc'[u] = "enqueue" /\ wrote'[u] = v
    BY <1>0, <1>1, <2>1, <2>3, <2>4 DEF Accounted, TypeOK
  <2> QED  BY <2>5, <2>7, <2>8 DEF Accounted
<1>6. ASSUME NEW row \in queue, Ship(row)
      PROVE  Accounted'
  <2>1. Rows' = Rows /\ UNCHANGED <<log, pc, view, wrote>>
    BY <1>6 DEF Ship, Rows
  <2> QED  BY <1>0, <2>1 DEF Accounted, IsVersion, RowOf, NewEntry
<1>7. CASE PutScope \/ UNCHANGED vars
  BY <1>2, <1>7 DEF PutScope, vars
<1> QED
  BY <1>0, <1>3, <1>4, <1>5, <1>6, <1>7 DEF Next, WriterStep

(* Each version of the log gets to the other devices under its own number   *)
(* and with its own content, for any writers and however far HEAD has moved *)
(* on before the handler of a version enqueues it.                          *)
THEOREM VersionsTravel == Spec => []EveryVersionQueued
<1>1. IInv /\ Backed => EveryVersionQueued
  <2> SUFFICES ASSUME IInv, Backed, Settled, faults = 0, epoch = 0, NEW v \in DOMAIN log
               PROVE  \E row \in queue \cup shipped :
                        row.version = v /\ row.content = log[v].content
    BY DEF EveryVersionQueued
  <2>1. v \in 1..Len(log)
    BY LenProperties DEF IInv, TypeOK
  <2> QED  BY <2>1 DEF Backed, Accounted, Rows, IsVersion, Settled
<1> QED  BY <1>1, BackedInit, BackedStep, Invariance, PTL DEF Spec

-------------------------------------------------------------------------------
(* The rows of kind memory on their way to a device. *)

(* Every row on its way is of a key that was put. *)
Stored == {k \in Keys : store[k] # 0}
StoredRow(row) == row.key \in Stored /\ row.version # 0

RequestStored(x) ==
  /\ conn[x].todo \cup conn[x].told \subseteq Stored
  /\ Len(conn[x].buf) <= Buffer
  /\ \A i \in DOMAIN conn[x].buf : StoredRow(conn[x].buf[i])
  /\ \A i \in DOMAIN conn[x].wire : StoredRow(conn[x].wire[i])

RowsStored ==
  /\ IsFiniteSet(Stored)
  /\ \A row \in putting : StoredRow(row)
  /\ \A row \in pull.page : StoredRow(row)
  /\ \A x \in Conns : RequestStored(x)

(* A subscriber has every row after its since=, or is still to get it: from   *)
(* the backlog, which has not come to it, or from the hub.                    *)
Served(x, k) ==
  \/ k \in conn[x].told
  \/ Current(k) \in putting
  \/ \E i \in DOMAIN conn[x].buf : conn[x].buf[i] = Current(k)

Pending(x, k) ==
  /\ k > conn[x].since
  /\ \/ conn[x].state = "sub"
     \/ /\ conn[x].state = "backlog"
        /\ k \in conn[x].todo \/ (conn[x].full /\ \A j \in conn[x].todo : j < k)

Handed(x) ==
  /\ conn[x].state \in {"dial", "open"} => conn[x].since = conn[x].start
  /\ conn[x].state = "backlog" => \A k \in conn[x].todo : k > conn[x].since
  /\ Subscribed(x) => \A k \in After(conn[x].start) : Served(x, k) \/ Pending(x, k)

HandedOver == \A x \in Conns : Handed(x)

(* While the rows are put in order: what every cursor has passed is in the    *)
(* tables, or is Lost, and so is what comes before a row on its way, unless   *)
(* it is on its way ahead of it.                                              *)
Have(k) == local[k] # 0 \/ Lost(k)
Mark(c) == c \in Stored \cup {0} /\ \A k \in Stored : k <= c => Have(k)
Cursors == {cursor, moved, pull.cursor} \cup {conn[x].start : x \in Conns}
Marks == \A c \in Cursors : Mark(c)

InLine ==
  /\ \A k \in Stored : ScopeOf[k] \in Stored
  /\ \A row \in putting : putting = {row} /\ \A k \in Stored : k <= row.key

PageInLine ==
  \A row \in pull.page : \A k \in Stored : k < row.key => Have(k) \/ \E r \in pull.page : r.key = k

BacklogInLine(x) ==
  /\ conn[x].since \in Stored \cup {0}
  /\ conn[x].state \in {"sub", "backlog"} =>
       \A k \in Stored : conn[x].start < k /\ k <= conn[x].since => k \in conn[x].told
  /\ conn[x].state = "backlog" =>
       \A k \in Stored : conn[x].since < k => k \in conn[x].todo \/ \A j \in conn[x].todo : j < k

BufInLine(x) ==
  /\ \A i, j \in DOMAIN conn[x].buf : i < j => conn[x].buf[i].key < conn[x].buf[j].key
  /\ \A i \in DOMAIN conn[x].buf : \A row \in putting : conn[x].buf[i].key < row.key

OnWire(x, k) == \E i \in DOMAIN conn[x].wire : conn[x].wire[i].key = k
WireInLine(x) ==
  /\ \A k \in conn[x].told : Have(k) \/ OnWire(x, k)
  /\ \A i \in DOMAIN conn[x].wire : \A k \in Stored :
       k < conn[x].wire[i].key => Have(k) \/ \E j \in 1..(i - 1) : conn[x].wire[j].key = k

RequestInLine(x) == BacklogInLine(x) /\ BufInLine(x) /\ (x \in reading => WireInLine(x))

Ordered == inOrder => InLine /\ Marks /\ PageInLine /\ \A x \in Conns : RequestInLine(x)

(* What a step of the server does to the request it is about. *)
Others(x) == conn' \in [Conns -> Request] /\ \A y \in Conns : y # x => conn'[y] = conn[y]
KeepsRange(x) == conn'[x].start = conn[x].start /\ conn'[x].since = conn[x].since
KeepsBacklog(x) == conn'[x].todo = conn[x].todo /\ conn'[x].full = conn[x].full
KeepsQueues(x) == conn'[x].buf = conn[x].buf /\ conn'[x].wire = conn[x].wire
KeepsTold(x) == conn'[x].told = conn[x].told

LEMMA RequestSet ==
  ASSUME conn \in [Conns -> Request], NEW x \in Conns, NEW r \in Request, conn' = [conn EXCEPT ![x] = r]
  PROVE  Others(x) /\ conn'[x] = r
BY DEF Others

LEMMA RequestFields ==
  ASSUME NEW r \in Request
  PROVE  /\ r.state \in {"free", "dial", "open", "sub", "backlog", "live"}
         /\ r.start \in Nat /\ r.since \in Nat /\ r.full \in BOOLEAN
         /\ r.todo \subseteq Keys /\ r.told \subseteq Keys
         /\ r.buf \in Seq(Row) /\ r.wire \in Seq(Row)
BY DEF Request

LEMMA NoConnRequest == NoConn \in Request
BY DEF NoConn, Request

LEMMA StateDoes ==
  ASSUME conn \in [Conns -> Request], NEW x \in Conns,
         NEW s \in {"free", "dial", "open", "sub", "backlog", "live"}, conn' = [conn EXCEPT ![x].state = s]
  PROVE  /\ Others(x) /\ conn'[x].state = s
         /\ KeepsRange(x) /\ KeepsBacklog(x) /\ KeepsQueues(x) /\ KeepsTold(x)
<1>1. conn' = [conn EXCEPT ![x] = [conn[x] EXCEPT !.state = s]]
  OBVIOUS
<1>2. [conn[x] EXCEPT !.state = s] \in Request
  BY DEF Request
<1>3. Others(x) /\ conn'[x] = [conn[x] EXCEPT !.state = s]
  BY <1>1, <1>2, RequestSet
<1>4. QED BY <1>3 DEF Request, KeepsRange, KeepsBacklog, KeepsQueues, KeepsTold

LEMMA AcceptDoes ==
  ASSUME FeedTypeOK, NEW x \in Conns, Accept(x)
  PROVE  /\ conn[x].state = "dial" /\ slots < MaxSlots /\ slots' = slots + 1
         /\ Others(x) /\ conn'[x].state = "open"
         /\ KeepsRange(x) /\ KeepsBacklog(x) /\ KeepsQueues(x) /\ KeepsTold(x)
         /\ UNCHANGED <<store, putting, client, pull, failures, dropped, missed, inOrder>>
BY StateDoes DEF Accept, FeedTypeOK

LEMMA SubscribeDoes ==
  ASSUME FeedTypeOK, NEW x \in Conns, Subscribe(x)
  PROVE  /\ conn[x].state = "open" /\ Others(x) /\ conn'[x].state = "sub"
         /\ KeepsRange(x) /\ KeepsBacklog(x) /\ KeepsQueues(x) /\ KeepsTold(x)
         /\ UNCHANGED server
BY StateDoes DEF Subscribe, FeedTypeOK

LEMMA RejectDoes ==
  ASSUME FeedTypeOK, NEW x \in Conns, Reject(x)
  PROVE  /\ conn[x].state = "dial" /\ Others(x) /\ conn'[x] = NoConn
         /\ reading' = reading \ {x}
         /\ UNCHANGED <<store, putting, slots, moved, cursor, local, twice, pull, failures, dropped, missed, inOrder>>
BY RequestSet, NoConnRequest DEF Reject, FeedTypeOK

LEMMA HangupDoes ==
  ASSUME FeedTypeOK, NEW x \in Conns, Hangup(x)
  PROVE  /\ conn[x].state \notin {"free", "dial"} /\ x \notin reading
         /\ Others(x) /\ conn'[x] = NoConn /\ slots' = slots - 1
         /\ UNCHANGED <<store, putting, client, pull, failures, dropped, missed, inOrder>>
BY RequestSet, NoConnRequest DEF Hangup, FeedTypeOK

LEMMA DialDoes ==
  ASSUME FeedTypeOK, NEW x \in Conns, Dial(x)
  PROVE  /\ conn[x].state = "free" /\ reading = {} /\ reading' = {x} /\ Others(x)
         /\ conn'[x].state = "dial" /\ conn'[x].start = cursor /\ conn'[x].since = cursor
         /\ conn'[x].todo = {} /\ conn'[x].told = {} /\ conn'[x].buf = <<>> /\ conn'[x].wire = <<>>
         /\ UNCHANGED <<store, putting, slots, moved, cursor, local, twice, pull, failures, dropped, missed, inOrder>>
<1> DEFINE r == [NoConn EXCEPT !.state = "dial", !.start = cursor, !.since = cursor]
<1>1. r \in Request
  <2>1. cursor \in Nat
    BY DEF FeedTypeOK
  <2>2. QED BY <2>1, NoConnRequest DEF Request
<1>2. conn' = [conn EXCEPT ![x] = r] /\ conn \in [Conns -> Request]
  BY DEF Dial, FeedTypeOK
<1>3. Others(x) /\ conn'[x] = r
  BY <1>1, <1>2, RequestSet
<1>4. /\ r.state = "dial" /\ r.start = cursor /\ r.since = cursor /\ r.todo = {} /\ r.told = {}
      /\ r.buf = <<>> /\ r.wire = <<>>
  BY DEF NoConn
<1>5. conn[x].state = "free"
  BY DEF Dial, First
<1>6. QED BY <1>3, <1>4, <1>5 DEF Dial

(* What a page of the backlog is. *)
LEMMA PageOfKeys ==
  ASSUME NEW c \in Nat
  PROVE  Page(c) \subseteq After(c) /\ After(c) \subseteq Stored /\ \A k \in After(c) : k > c
BY DEF Page, After, Stored

LEMMA ListBacklogDoes ==
  ASSUME FeedTypeOK, NEW x \in Conns, ListBacklog(x)
  PROVE  /\ conn[x].state = "sub" /\ Others(x) /\ conn'[x].state = "backlog"
         /\ conn'[x].todo = Page(conn[x].since)
         /\ conn'[x].full = (Cardinality(Page(conn[x].since)) = Limit)
         /\ KeepsRange(x) /\ KeepsQueues(x) /\ KeepsTold(x)
         /\ UNCHANGED server
<1> DEFINE p == Page(conn[x].since)
           r == [conn[x] EXCEPT !.state = "backlog", !.todo = p, !.full = (Cardinality(p) = Limit)]
<1>1. conn \in [Conns -> Request] /\ conn[x] \in Request
  BY DEF FeedTypeOK
<1>2. p \subseteq Keys
  BY DEF Page, After
<1>3. conn' = [conn EXCEPT ![x] = r]
  BY DEF ListBacklog
<1> HIDE DEF p
<1>4. r \in Request
  BY <1>1, <1>2 DEF Request
<1>5. Others(x) /\ conn'[x] = r
  BY <1>1, <1>3, <1>4, RequestSet
<1>6. QED BY <1>1, <1>5 DEF p, ListBacklog, Request, KeepsRange, KeepsQueues, KeepsTold

LEMMA BacklogRowDoes ==
  ASSUME FeedTypeOK, NEW x \in Conns, NEW k \in conn[x].todo, BacklogRow(x, k)
  PROVE  /\ conn[x].state = "backlog" /\ First(k, conn[x].todo) /\ k \in Keys
         /\ Others(x) /\ conn'[x].state = "backlog"
         /\ conn'[x].start = conn[x].start /\ conn'[x].since = k
         /\ conn'[x].todo = conn[x].todo \ {k} /\ conn'[x].full = conn[x].full
         /\ conn'[x].buf = conn[x].buf /\ conn'[x].wire = Append(conn[x].wire, Current(k))
         /\ conn'[x].told = conn[x].told \cup {k}
         /\ UNCHANGED server
<1> DEFINE r == [conn[x] EXCEPT !.todo = @ \ {k}, !.since = k, !.wire = Append(@, Current(k)), !.told = @ \cup {k}]
<1>1. conn \in [Conns -> Request] /\ conn[x] \in Request /\ k \in Keys /\ k \in Nat
  BY RequestFields, FeedAssumption DEF FeedTypeOK
<1>2. Current(k) \in Row
  BY <1>1 DEF FeedTypeOK, Current, Row
<1>3. Append(conn[x].wire, Current(k)) \in Seq(Row)
  BY <1>1, <1>2, RequestFields
<1>4. r \in Request
  BY <1>1, <1>3 DEF Request
<1>5. conn' = [conn EXCEPT ![x] = r]
  BY DEF BacklogRow
<1>6. Others(x) /\ conn'[x] = r
  BY <1>1, <1>4, <1>5, RequestSet
<1>7. conn[x].state = "backlog" /\ First(k, conn[x].todo) /\ UNCHANGED server
  BY DEF BacklogRow
<1>8. QED BY <1>1, <1>6, <1>7 DEF Request

LEMMA BacklogPageDoes ==
  ASSUME FeedTypeOK, NEW x \in Conns, BacklogPage(x)
  PROVE  /\ conn[x].state = "backlog" /\ conn[x].todo = {}
         /\ \/ conn[x].full /\ conn'[x].state = "sub" /\ conn'[x].since = conn[x].since
            \/ ~conn[x].full /\ conn'[x].state = "live" /\ conn'[x].since = 0
         /\ Others(x) /\ conn'[x].start = conn[x].start
         /\ KeepsBacklog(x) /\ KeepsQueues(x) /\ KeepsTold(x)
         /\ UNCHANGED server
<1>1. conn \in [Conns -> Request] /\ conn[x] \in Request
  BY DEF FeedTypeOK
<1>2. conn[x].state = "backlog" /\ conn[x].todo = {} /\ UNCHANGED server
  BY DEF BacklogPage
<1>3. CASE conn[x].full /\ conn' = [conn EXCEPT ![x].state = "sub"]
  BY <1>1, <1>2, <1>3, StateDoes DEF KeepsRange
<1>4. CASE ~conn[x].full /\ conn' = [conn EXCEPT ![x].state = "live", ![x].since = 0]
  <2> DEFINE r == [conn[x] EXCEPT !.state = "live", !.since = 0]
  <2>1. r \in Request
    BY <1>1 DEF Request
  <2>2. conn' = [conn EXCEPT ![x] = r]
    BY <1>4
  <2>3. Others(x) /\ conn'[x] = r
    BY <1>1, <2>1, <2>2, RequestSet
  <2>4. QED BY <1>1, <1>2, <1>4, <2>3 DEF Request, KeepsBacklog, KeepsQueues, KeepsTold
<1>5. QED BY <1>3, <1>4 DEF BacklogPage

LEMMA HeadRow ==
  ASSUME NEW q \in Seq(Row), q # <<>>
  PROVE  /\ Head(q) \in Row /\ Head(q).key \in Keys /\ Head(q).version \in Nat
         /\ Head(q) = q[1] /\ 1 \in DOMAIN q /\ Tail(q) \in Seq(Row)
         /\ Len(Tail(q)) = Len(q) - 1
         /\ \A i \in DOMAIN Tail(q) : i + 1 \in DOMAIN q /\ Tail(q)[i] = q[i + 1]
         /\ \A i \in DOMAIN q : i > 1 => i - 1 \in DOMAIN Tail(q) /\ Tail(q)[i - 1] = q[i]
<1>1. Len(q) \in Nat /\ DOMAIN q = 1..Len(q) /\ Len(q) # 0 /\ Head(q) = q[1] /\ q[1] \in Row
  OBVIOUS
<1>2. Tail(q) \in Seq(Row) /\ Len(Tail(q)) = Len(q) - 1 /\ DOMAIN Tail(q) = 1..(Len(q) - 1)
  OBVIOUS
<1>3. \A i \in 1..(Len(q) - 1) : Tail(q)[i] = q[i + 1]
  BY <1>1
<1>4. \A i \in DOMAIN Tail(q) : i + 1 \in DOMAIN q /\ Tail(q)[i] = q[i + 1]
  BY <1>1, <1>2, <1>3
<1>5. \A i \in DOMAIN q : i > 1 => i - 1 \in DOMAIN Tail(q) /\ Tail(q)[i - 1] = q[i]
  BY <1>1, <1>2, <1>3
<1>6. Head(q).key \in Keys /\ Head(q).version \in Nat
  BY <1>1 DEF Row
<1>7. QED BY <1>1, <1>2, <1>4, <1>5, <1>6

LEMMA LiveRowDoes ==
  ASSUME FeedTypeOK, NEW x \in Conns, LiveRow(x)
  PROVE  /\ conn[x].state = "live" /\ conn[x].buf # <<>>
         /\ Others(x) /\ conn'[x].state = "live"
         /\ KeepsRange(x) /\ KeepsBacklog(x)
         /\ conn'[x].buf = Tail(conn[x].buf)
         /\ conn'[x].wire = Append(conn[x].wire, Head(conn[x].buf))
         /\ conn'[x].told = IF Head(conn[x].buf) = Current(Head(conn[x].buf).key)
                            THEN conn[x].told \cup {Head(conn[x].buf).key} ELSE conn[x].told
         /\ UNCHANGED server
<1> DEFINE row == Head(conn[x].buf)
           t == IF row = Current(row.key) THEN conn[x].told \cup {row.key} ELSE conn[x].told
           w == Append(conn[x].wire, row)
           r == [conn[x] EXCEPT !.buf = Tail(@), !.wire = Append(@, row),
                                !.told = IF row = Current(row.key) THEN @ \cup {row.key} ELSE @]
<1>1. conn \in [Conns -> Request] /\ conn[x] \in Request
  BY DEF FeedTypeOK
<1>2. conn[x].state = "live" /\ conn[x].buf # <<>> /\ UNCHANGED server /\ conn' = [conn EXCEPT ![x] = r]
  BY DEF LiveRow
<1>3. row \in Row /\ row.key \in Keys /\ Tail(conn[x].buf) \in Seq(Row)
  BY <1>1, <1>2, RequestFields, HeadRow
<1>4. w \in Seq(Row) /\ t \subseteq Keys
  BY <1>1, <1>3, RequestFields
<1>5. /\ r.state = conn[x].state /\ r.start = conn[x].start /\ r.since = conn[x].since
      /\ r.todo = conn[x].todo /\ r.full = conn[x].full
      /\ r.buf = Tail(conn[x].buf) /\ r.wire = w /\ r.told = t /\ r \in Request
  <2> HIDE DEF row
  <2>1. QED BY <1>1, <1>3, <1>4 DEF Request
<1>6. Others(x) /\ conn'[x] = r
  BY <1>1, <1>2, <1>5, RequestSet
<1>7. QED BY <1>2, <1>5, <1>6 DEF KeepsRange, KeepsBacklog

LEMMA RowFailsTyped ==
  ASSUME FeedTypeOK, NEW k \in Keys, RowFails(k)
  PROVE  failures' \in Nat /\ missed \subseteq missed' /\ missed' \subseteq Keys
BY DEF RowFails, Fault, FeedTypeOK

LEMMA StreamRowDoes ==
  ASSUME FeedTypeOK, NEW x \in Conns, StreamRow(x)
  PROVE  /\ reading = {x} /\ moved = 0 /\ conn[x].wire # <<>>
         /\ Others(x) /\ conn'[x].state = conn[x].state
         /\ KeepsRange(x) /\ KeepsBacklog(x) /\ KeepsTold(x)
         /\ conn'[x].buf = conn[x].buf /\ conn'[x].wire = Tail(conn[x].wire)
         /\ \/ /\ Ingestible(Head(conn[x].wire).key) /\ IngestMemoryRow(Head(conn[x].wire))
               /\ moved' = Head(conn[x].wire).key
            \/ /\ ~Ingestible(Head(conn[x].wire).key) /\ UNCHANGED <<local, twice, moved>>
            \/ RowFails(Head(conn[x].wire).key) /\ UNCHANGED moved
         /\ failures' \in Nat /\ missed \subseteq missed' /\ missed' \subseteq Keys
         /\ UNCHANGED <<store, putting, slots, reading, cursor, pull, dropped, inOrder>>
<1> DEFINE r == [conn[x] EXCEPT !.wire = Tail(@)]
<1>1. conn \in [Conns -> Request] /\ conn[x] \in Request
  BY DEF FeedTypeOK
<1>2. conn[x].wire # <<>> /\ conn' = [conn EXCEPT ![x] = r]
  BY DEF StreamRow
<1>3. Tail(conn[x].wire) \in Seq(Row)
  BY <1>1, <1>2, RequestFields, HeadRow
<1>4. r \in Request
  BY <1>1, <1>3 DEF Request
<1>5. Others(x) /\ conn'[x] = r
  BY <1>1, <1>2, <1>4, RequestSet
<1>6. Head(conn[x].wire).key \in Keys
  BY <1>1, <1>2, RequestFields, HeadRow
<1>7. failures' \in Nat /\ missed \subseteq missed' /\ missed' \subseteq Keys
  BY <1>6, RowFailsTyped DEF StreamRow, FeedTypeOK
<1>8. QED BY <1>1, <1>5, <1>7 DEF StreamRow, Request, KeepsRange, KeepsBacklog, KeepsTold

LEMMA AppendRow ==
  ASSUME NEW q \in Seq(Row), NEW row \in Row
  PROVE  /\ Append(q, row) \in Seq(Row) /\ Len(Append(q, row)) = Len(q) + 1
         /\ DOMAIN Append(q, row) = DOMAIN q \cup {Len(q) + 1}
         /\ \A i \in DOMAIN q : i <= Len(q) /\ Append(q, row)[i] = q[i]
         /\ Append(q, row)[Len(q) + 1] = row
         /\ Len(q) \in Nat /\ DOMAIN q = 1..Len(q)
<1>1. Len(q) \in Nat /\ DOMAIN q = 1..Len(q)
  OBVIOUS
<1>2. Append(q, row) \in Seq(Row) /\ Len(Append(q, row)) = Len(q) + 1 /\ DOMAIN Append(q, row) = 1..(Len(q) + 1)
  OBVIOUS
<1>3. \A i \in 1..Len(q) : Append(q, row)[i] = q[i]
  BY <1>1
<1>4. Append(q, row)[Len(q) + 1] = row
  BY <1>1
<1>5. QED BY <1>1, <1>2, <1>3, <1>4

(* What the two halves of a push do. *)
LEMMA PutDoes ==
  ASSUME FeedTypeOK, NEW k \in Keys, Put(k)
  PROVE  /\ store' = [store EXCEPT ![k] = @ + 1] /\ store' \in [Keys -> Nat]
         /\ putting' = putting \cup {[key |-> k, version |-> store[k] + 1]} /\ putting' \subseteq Row
         /\ conn' \in [Conns -> Request]
         /\ \A x \in Conns :
              /\ conn'[x].state = conn[x].state /\ conn'[x].told = conn[x].told \ {k}
              /\ KeepsRange(x) /\ KeepsBacklog(x) /\ KeepsQueues(x)
         /\ inOrder' = (inOrder /\ putting = {} /\ After(k - 1) = {} /\ (k \in Scopes \/ store[ScopeOf[k]] # 0))
         /\ UNCHANGED <<slots, client, pull, failures, dropped, missed>>
<1>1. conn \in [Conns -> Request] /\ store \in [Keys -> Nat] /\ putting \subseteq Row
  BY DEF FeedTypeOK
<1>2. conn' = [x \in Conns |-> [conn[x] EXCEPT !.told = @ \ {k}]]
  BY DEF Put
<1>3. ASSUME NEW x \in Conns
      PROVE  /\ conn'[x] \in Request /\ conn'[x].state = conn[x].state /\ conn'[x].told = conn[x].told \ {k}
             /\ KeepsRange(x) /\ KeepsBacklog(x) /\ KeepsQueues(x)
  <2>1. conn'[x] = [conn[x] EXCEPT !.told = @ \ {k}] /\ conn[x] \in Request
    BY <1>1, <1>2
  <2>2. conn'[x] \in Request /\ conn'[x].state = conn[x].state /\ conn'[x].told = conn[x].told \ {k}
    BY ONLY <2>1 DEF Request
  <2>3. KeepsRange(x) /\ KeepsBacklog(x) /\ KeepsQueues(x)
    BY ONLY <2>1 DEF Request, KeepsRange, KeepsBacklog, KeepsQueues
  <2>4. QED BY <2>2, <2>3
<1>4. conn' \in [Conns -> Request]
  BY <1>2, <1>3
<1>5. store' = [store EXCEPT ![k] = @ + 1] /\ store' \in [Keys -> Nat]
  BY <1>1 DEF Put
<1>6. [key |-> k, version |-> store[k] + 1] \in Row
  BY <1>1 DEF Row
<1>7. putting' = putting \cup {[key |-> k, version |-> store[k] + 1]} /\ putting' \subseteq Row
  BY <1>1, <1>6 DEF Put
<1>8. QED BY <1>3, <1>4, <1>5, <1>7 DEF Put

(* What the hub does to a request: nothing, or a row more in its buffer, or   *)
(* the row counts as dealt with.                                              *)
LEMMA DeliverCases ==
  ASSUME FeedTypeOK, NEW x \in Conns, NEW row \in Row, NEW r, r = Deliver(x, row)
  PROVE  \/ ~Subscribed(x) /\ r = conn[x]
         \/ Subscribed(x) /\ Len(conn[x].buf) < Buffer /\ r = [conn[x] EXCEPT !.buf = Append(@, row)]
         \/ /\ Subscribed(x) /\ ~(Len(conn[x].buf) < Buffer) /\ row = Current(row.key)
            /\ r = [conn[x] EXCEPT !.told = @ \cup {row.key}]
         \/ Subscribed(x) /\ ~(Len(conn[x].buf) < Buffer) /\ row # Current(row.key) /\ r = conn[x]
BY DEF Deliver

LEMMA DeliverTyped ==
  ASSUME FeedTypeOK, NEW x \in Conns, NEW row \in Row
  PROVE  Deliver(x, row) \in Request
<1> SUFFICES ASSUME NEW r, r = Deliver(x, row) PROVE r \in Request
  OBVIOUS
<1>2. conn[x] \in Request /\ conn[x].buf \in Seq(Row) /\ conn[x].told \subseteq Keys /\ row.key \in Keys
  BY RequestFields DEF FeedTypeOK, Row
<1>3. Append(conn[x].buf, row) \in Seq(Row) /\ conn[x].told \cup {row.key} \in SUBSET Keys
  BY <1>2
<1>4. CASE r = conn[x]
  BY <1>2, <1>4
<1>5. CASE r = [conn[x] EXCEPT !.buf = Append(@, row)]
  BY <1>2, <1>3, <1>5 DEF Request
<1>6. CASE r = [conn[x] EXCEPT !.told = @ \cup {row.key}]
  BY <1>2, <1>3, <1>6 DEF Request
<1>7. QED BY <1>4, <1>5, <1>6, DeliverCases

LEMMA PublishDoes ==
  ASSUME FeedTypeOK, NEW row \in putting, Publish(row)
  PROVE  /\ row \in Row /\ putting' = putting \ {row}
         /\ conn' \in [Conns -> Request]
         /\ \A x \in Conns : conn'[x] = Deliver(x, row)
         /\ dropped' = IF \E x \in Conns : Subscribed(x) /\ Len(conn[x].buf) = Buffer
                       THEN dropped \cup {row.key} ELSE dropped
         /\ dropped' \in {dropped, dropped \cup {row.key}}
         /\ UNCHANGED <<store, slots, client, pull, failures, missed, inOrder>>
<1>1. row \in Row
  BY DEF FeedTypeOK
<1>2. conn' = [x \in Conns |-> Deliver(x, row)]
  BY DEF Publish
<1>3. \A x \in Conns : Deliver(x, row) \in Request
  BY <1>1, DeliverTyped
<1>4. dropped' = IF \E x \in Conns : Subscribed(x) /\ Len(conn[x].buf) = Buffer
                 THEN dropped \cup {row.key} ELSE dropped
  BY DEF Publish
<1>5. dropped' \in {dropped, dropped \cup {row.key}}
  BY ONLY <1>4
<1>6. QED BY <1>1, <1>2, <1>3, <1>4, <1>5 DEF Publish

LEMMA PublishedTo ==
  ASSUME FeedTypeOK, NEW row \in putting, Publish(row), NEW x \in Conns
  PROVE  /\ conn'[x].state = conn[x].state /\ conn'[x].start = conn[x].start /\ conn'[x].since = conn[x].since
         /\ conn'[x].todo = conn[x].todo /\ conn'[x].full = conn[x].full /\ conn'[x].wire = conn[x].wire
         /\ ~Subscribed(x) => conn'[x].buf = conn[x].buf /\ conn'[x].told = conn[x].told
         /\ Subscribed(x) /\ Len(conn[x].buf) < Buffer =>
              conn'[x].buf = Append(conn[x].buf, row) /\ conn'[x].told = conn[x].told
         /\ Subscribed(x) /\ ~(Len(conn[x].buf) < Buffer) =>
              /\ conn'[x].buf = conn[x].buf
              /\ conn'[x].told = IF row = Current(row.key) THEN conn[x].told \cup {row.key} ELSE conn[x].told
<1>1. row \in Row /\ conn[x] \in Request
  BY PublishDoes DEF FeedTypeOK
<1>2. PICK r : r = conn'[x]
  OBVIOUS
<1>3. r = Deliver(x, row)
  BY <1>2, PublishDoes
<1>4. CASE ~Subscribed(x) /\ r = conn[x]
  BY <1>2, <1>4
<1>5. CASE Subscribed(x) /\ Len(conn[x].buf) < Buffer /\ r = [conn[x] EXCEPT !.buf = Append(@, row)]
  BY <1>1, <1>2, <1>5 DEF Request
<1>6. CASE /\ Subscribed(x) /\ ~(Len(conn[x].buf) < Buffer) /\ row = Current(row.key)
           /\ r = [conn[x] EXCEPT !.told = @ \cup {row.key}]
  BY <1>1, <1>2, <1>6 DEF Request
<1>7. CASE Subscribed(x) /\ ~(Len(conn[x].buf) < Buffer) /\ row # Current(row.key) /\ r = conn[x]
  BY <1>2, <1>7
<1>8. QED BY <1>1, <1>3, <1>4, <1>5, <1>6, <1>7, DeliverCases

LEMMA IngestDoes ==
  ASSUME FeedTypeOK, NEW row \in Row, IngestMemoryRow(row)
  PROVE  /\ row.key \in Keys /\ row.key \in Nat /\ row.version \in Nat
         /\ local' \in [Keys -> Nat] /\ local'[row.key] = row.version
         /\ \A k \in Keys : k # row.key => local'[k] = local[k]
         /\ twice' \subseteq Plans
<1>1. row.key \in Keys /\ row.key \in Nat /\ row.version \in Nat
  BY FeedAssumption DEF Row
<1>2. local \in [Keys -> Nat] /\ twice \subseteq Plans
  BY DEF FeedTypeOK
<1>3. local' = [local EXCEPT ![row.key] = row.version]
  BY DEF IngestMemoryRow
<1>4. twice' \subseteq Plans
  BY <1>2 DEF IngestMemoryRow
<1>5. QED BY <1>1, <1>2, <1>3, <1>4

(* The row that runSSE reads is ingested, or leaves the tables as they are. *)
LEMMA StreamRowTables ==
  ASSUME FeedTypeOK, NEW x \in Conns, StreamRow(x), NEW row, row = Head(conn[x].wire)
  PROVE  /\ row \in Row /\ row.key \in Keys /\ row.key \in Nat
         /\ \/ /\ Ingestible(row.key) /\ moved' = row.key /\ local'[row.key] = row.version
               /\ \A k \in Keys : k # row.key => local'[k] = local[k]
            \/ moved' = moved /\ local' = local /\ (~Ingestible(row.key) \/ row.key \in missed')
         /\ local' \in [Keys -> Nat] /\ twice' \subseteq Plans /\ moved' \in Nat
<1>1. conn[x].wire # <<>> /\ conn[x].wire \in Seq(Row)
  BY StreamRowDoes, RequestFields DEF FeedTypeOK
<1>2. row \in Row /\ row.key \in Keys /\ row.key \in Nat
  BY <1>1, HeadRow, FeedAssumption
<1>3. CASE Ingestible(row.key) /\ IngestMemoryRow(row) /\ moved' = row.key
  BY <1>2, <1>3, IngestDoes
<1>4. CASE ~Ingestible(row.key) /\ UNCHANGED <<local, twice, moved>>
  BY <1>2, <1>4 DEF FeedTypeOK
<1>5. CASE RowFails(row.key) /\ UNCHANGED moved
  BY <1>2, <1>5 DEF FeedTypeOK, RowFails
<1>6. QED BY <1>3, <1>4, <1>5, StreamRowDoes

LEMMA PullListDoes ==
  ASSUME FeedTypeOK, PullList
  PROVE  /\ pull' \in PullRun
         /\ \/ Page(pull.cursor) = {} /\ pull' = NoPull
            \/ /\ Page(pull.cursor) # {} /\ pull'.cursor = pull.cursor
               /\ pull'.page = {Current(k) : k \in Page(pull.cursor)}
         /\ UNCHANGED <<store, putting, conn, slots, client, failures, dropped, missed, inOrder>>
<1> DEFINE page == Page(pull.cursor)
           rows == {Current(k) : k \in page}
<1>1. pull \in PullRun /\ store \in [Keys -> Nat]
  BY DEF FeedTypeOK
<1>2. page \subseteq Keys
  BY DEF Page, After
<1>3. \A k \in page : Current(k) \in Row
  BY <1>1, <1>2 DEF Current, Row
<1>4. rows \subseteq Row
  BY <1>3
<1>5. CASE page = {}
  <2>1. pull' = NoPull
    BY <1>5 DEF PullList
  <2>2. QED BY <1>5, <2>1 DEF PullList, PullRun, NoPull
<1>6. CASE page # {}
  <2>1. pull' = [pull EXCEPT !.at = "ingest", !.page = rows, !.full = (Cardinality(page) = Limit)]
    BY <1>6 DEF PullList
  <2> HIDE DEF rows, page
  <2>2. pull' \in PullRun /\ pull'.cursor = pull.cursor /\ pull'.page = rows
    BY <1>1, <1>4, <2>1 DEF PullRun
  <2>3. QED BY <1>6, <2>2 DEF PullList, rows, page
<1>7. QED BY <1>5, <1>6

LEMMA PullRowDoes ==
  ASSUME FeedTypeOK, NEW row \in pull.page, PullRow(row)
  PROVE  /\ row \in Row /\ row.key \in Keys /\ row.key \in Nat
         /\ \A r \in pull.page : row.key <= r.key
         /\ pull' \in PullRun /\ pull'.page = pull.page \ {row}
         /\ \/ /\ Ingestible(row.key) /\ pull'.cursor = row.key /\ local'[row.key] = row.version
               /\ \A k \in Keys : k # row.key => local'[k] = local[k]
            \/ /\ pull'.cursor = pull.cursor /\ local' = local
               /\ ~Ingestible(row.key) \/ row.key \in missed'
         /\ local' \in [Keys -> Nat] /\ twice' \subseteq Plans
         /\ failures' \in Nat /\ missed \subseteq missed' /\ missed' \subseteq Keys
         /\ UNCHANGED <<store, putting, conn, slots, reading, moved, cursor, dropped, inOrder>>
<1>1. pull \in PullRun /\ row \in Row
  BY DEF FeedTypeOK, PullRun
<1>2. row.key \in Keys /\ row.key \in Nat
  BY <1>1, FeedAssumption DEF Row
<1>3. \A r \in pull.page : row.key <= r.key
  BY DEF PullRow, First
<1>4. CASE /\ Ingestible(row.key) /\ IngestMemoryRow(row)
           /\ pull' = [pull EXCEPT !.page = @ \ {row}, !.cursor = row.key]
           /\ UNCHANGED <<failures, missed>>
  <2>1. pull' \in PullRun /\ pull'.page = pull.page \ {row} /\ pull'.cursor = row.key
    BY <1>1, <1>2, <1>4 DEF PullRun
  <2>2. failures' \in Nat /\ missed \subseteq missed' /\ missed' \subseteq Keys
    BY <1>4 DEF FeedTypeOK
  <2>3. QED BY <1>1, <1>2, <1>3, <1>4, <2>1, <2>2, IngestDoes DEF PullRow
<1>5. CASE /\ (~Ingestible(row.key) /\ UNCHANGED <<failures, missed>>) \/ RowFails(row.key)
           /\ pull' = [pull EXCEPT !.page = @ \ {row}] /\ UNCHANGED <<local, twice>>
  <2>1. pull' \in PullRun /\ pull'.page = pull.page \ {row} /\ pull'.cursor = pull.cursor
    BY <1>1, <1>2, <1>5 DEF PullRun
  <2>2. local' \in [Keys -> Nat] /\ twice' \subseteq Plans
    BY <1>5 DEF FeedTypeOK
  <2>3. failures' \in Nat /\ missed \subseteq missed' /\ missed' \subseteq Keys
    BY <1>2, <1>5, RowFailsTyped DEF FeedTypeOK
  <2>4. ~Ingestible(row.key) \/ row.key \in missed'
    BY <1>5 DEF RowFails
  <2>5. QED BY <1>1, <1>2, <1>3, <1>5, <2>1, <2>2, <2>3, <2>4 DEF PullRow
<1>6. QED BY <1>4, <1>5 DEF PullRow, RowFails

LEMMA PullStops ==
  ASSUME pull' = NoPull
  PROVE  pull' \in PullRun /\ pull'.page = {} /\ pull'.cursor = 0
BY DEF PullRun, NoPull

LEMMA PullCursorDoes ==
  ASSUME FeedTypeOK, PullCursor
  PROVE  /\ pull.page = {} /\ pull' \in PullRun /\ pull'.page = {}
         /\ pull'.cursor \in {pull.cursor, 0} /\ cursor' \in {pull.cursor, cursor}
         /\ UNCHANGED <<store, putting, conn, slots, reading, moved, local, twice, failures, dropped, missed, inOrder>>
<1>1. pull \in PullRun /\ pull.page = {}
  BY DEF FeedTypeOK, PullCursor
<1>2. CASE pull' = [pull EXCEPT !.at = "list", !.full = FALSE]
  BY <1>1, <1>2 DEF PullCursor, PullRun
<1>3. CASE pull' = NoPull
  BY <1>1, <1>3, PullStops DEF PullCursor
<1>4. QED BY <1>2, <1>3 DEF PullCursor

LEMMA PullStarts ==
  ASSUME FeedTypeOK, PullStart
  PROVE  /\ pull' \in PullRun /\ pull'.page = pull.page /\ pull'.cursor = cursor
         /\ UNCHANGED <<store, putting, conn, slots, client, failures, dropped, missed, inOrder>>
BY DEF PullStart, FeedTypeOK, PullRun

-------------------------------------------------------------------------------
(* Types, and the count of the slots. *)
Active == {x \in Conns : conn[x].state \notin {"free", "dial"}}

LEMMA ActiveFinite == IsFiniteSet(Active) /\ Cardinality(Active) \in Nat
<1>1. IsFiniteSet(Conns)
  BY FS_Interval, FeedAssumption DEF Conns
<1>2. Active \subseteq Conns
  BY DEF Active
<1>3. QED BY <1>1, <1>2, FS_Subset, FS_CardinalityType

LEMMA FeedTypeInit == FeedInit => FeedTypeOK /\ SlotsCounted
<1> SUFFICES ASSUME FeedInit PROVE FeedTypeOK /\ SlotsCounted
  OBVIOUS
<1>1. conn \in [Conns -> Request] /\ pull \in PullRun
  BY NoConnRequest DEF FeedInit, PullRun, NoPull
<1>2. FeedTypeOK
  BY <1>1, FeedAssumption DEF FeedInit, FeedTypeOK
<1>3. Active = {}
  BY DEF FeedInit, Active, NoConn
<1>4. QED BY <1>2, <1>3, FS_EmptySet DEF SlotsCounted, Active, FeedInit

(* A step that changes the state of one request. *)
LEMMA SlotsStay ==
  ASSUME SlotsCounted, NEW x \in Conns, Others(x), UNCHANGED slots,
         conn'[x].state \in {"free", "dial"} <=> conn[x].state \in {"free", "dial"}
  PROVE  SlotsCounted'
<1>1. Active' = Active
  BY DEF Active, Others
<1>2. QED BY <1>1 DEF SlotsCounted, Active

LEMMA ServerTyped ==
  ASSUME FeedTypeOK, NEW x \in Conns, Others(x), UNCHANGED server
  PROVE  FeedTypeOK'
BY DEF FeedTypeOK, server, client, Others

LEMMA FeedTypeStep == FeedTypeOK /\ SlotsCounted /\ [FeedNext]_feedVars => FeedTypeOK' /\ SlotsCounted'
<1> SUFFICES ASSUME FeedTypeOK, SlotsCounted, [FeedNext]_feedVars PROVE FeedTypeOK' /\ SlotsCounted'
  OBVIOUS
<1> USE FeedAssumption
<1>0. SlotsCounted <=> slots = Cardinality(Active)
  BY DEF SlotsCounted, Active
<1>1. ASSUME NEW k \in Keys, Put(k) PROVE FeedTypeOK' /\ SlotsCounted'
  <2>1. Active' = Active
    BY <1>1, PutDoes DEF Active
  <2>2. SlotsCounted'
    BY <1>1, <2>1, PutDoes DEF SlotsCounted, Active
  <2>3. inOrder' \in BOOLEAN
    BY <1>1, PutDoes DEF FeedTypeOK
  <2>4. QED BY <1>1, <2>2, <2>3, PutDoes DEF FeedTypeOK, client
<1>2. ASSUME NEW row \in putting, Publish(row) PROVE FeedTypeOK' /\ SlotsCounted'
  <2>1. \A x \in Conns : conn'[x].state = conn[x].state
    BY <1>2, PublishedTo
  <2>2. Active' = Active
    BY <2>1 DEF Active
  <2>3. SlotsCounted'
    BY <1>2, <2>2, PublishDoes DEF SlotsCounted, Active
  <2>4. putting' \subseteq Row
    BY <1>2, PublishDoes DEF FeedTypeOK
  <2>5. row.key \in Keys
    BY <1>2, PublishDoes DEF Row
  <2>6. dropped' \subseteq Keys
    <3>1. dropped' \in {dropped, dropped \cup {row.key}} /\ dropped \subseteq Keys
      BY <1>2, PublishDoes DEF FeedTypeOK
    <3>2. QED BY <2>5, <3>1
  <2>7. QED BY <1>2, <2>3, <2>4, <2>6, PublishDoes DEF FeedTypeOK, client
<1>3. ASSUME NEW x \in Conns, Accept(x) PROVE FeedTypeOK' /\ SlotsCounted'
  <2>1. x \notin Active /\ Active' = Active \cup {x}
    BY <1>3, AcceptDoes DEF Active, Others
  <2>2. Cardinality(Active') = Cardinality(Active) + 1
    BY <2>1, ActiveFinite, FS_AddElement
  <2>3. SlotsCounted'
    BY <1>0, <1>3, <2>2, AcceptDoes DEF SlotsCounted, Active
  <2>4. slots' \in 0..MaxSlots
    BY <1>3, AcceptDoes DEF FeedTypeOK
  <2>5. UNCHANGED <<store, putting, client, pull, failures, dropped, missed, inOrder>> /\ conn' \in [Conns -> Request]
    BY <1>3, AcceptDoes DEF Others
  <2>6. QED BY <2>3, <2>4, <2>5 DEF FeedTypeOK, client
<1>4. ASSUME NEW x \in Conns, Reject(x) PROVE FeedTypeOK' /\ SlotsCounted'
  <2>1. SlotsCounted'
    BY <1>4, RejectDoes, SlotsStay DEF NoConn
  <2>2. conn' \in [Conns -> Request] /\ reading' \subseteq reading
    BY <1>4, RejectDoes DEF Others
  <2>3. UNCHANGED <<store, putting, slots, moved, cursor, local, twice, pull, failures, dropped, missed, inOrder>>
    BY <1>4, RejectDoes
  <2>4. QED BY <2>1, <2>2, <2>3 DEF FeedTypeOK
<1>5. ASSUME NEW x \in Conns, Subscribe(x) PROVE FeedTypeOK' /\ SlotsCounted'
  BY <1>5, SubscribeDoes, SlotsStay, ServerTyped DEF server
<1>6. ASSUME NEW x \in Conns, ListBacklog(x) PROVE FeedTypeOK' /\ SlotsCounted'
  BY <1>6, ListBacklogDoes, SlotsStay, ServerTyped DEF server
<1>7. ASSUME NEW x \in Conns, NEW k \in conn[x].todo, BacklogRow(x, k) PROVE FeedTypeOK' /\ SlotsCounted'
  BY <1>7, BacklogRowDoes, SlotsStay, ServerTyped DEF server
<1>8. ASSUME NEW x \in Conns, BacklogPage(x) PROVE FeedTypeOK' /\ SlotsCounted'
  BY <1>8, BacklogPageDoes, SlotsStay, ServerTyped DEF server
<1>9. ASSUME NEW x \in Conns, LiveRow(x) PROVE FeedTypeOK' /\ SlotsCounted'
  BY <1>9, LiveRowDoes, SlotsStay, ServerTyped DEF server
<1>10. ASSUME NEW x \in Conns, Hangup(x) PROVE FeedTypeOK' /\ SlotsCounted'
  <2>1. x \in Active /\ Active' = Active \ {x}
    BY <1>10, HangupDoes DEF Active, Others, NoConn
  <2>2. Cardinality(Active') = Cardinality(Active) - 1
    BY <2>1, ActiveFinite, FS_RemoveElement
  <2>3. Cardinality(Active') \in Nat
    BY <2>1, ActiveFinite, FS_RemoveElement, FS_CardinalityType
  <2>4. SlotsCounted'
    BY <1>0, <1>10, <2>2, HangupDoes DEF SlotsCounted, Active
  <2>5. slots' \in 0..MaxSlots
    BY <1>0, <1>10, <2>2, <2>3, HangupDoes DEF FeedTypeOK
  <2>6. UNCHANGED <<store, putting, client, pull, failures, dropped, missed, inOrder>> /\ conn' \in [Conns -> Request]
    BY <1>10, HangupDoes DEF Others
  <2>7. QED BY <2>4, <2>5, <2>6 DEF FeedTypeOK, client
<1>11. ASSUME NEW x \in Conns, Dial(x) PROVE FeedTypeOK' /\ SlotsCounted'
  <2>1. SlotsCounted'
    BY <1>11, DialDoes, SlotsStay
  <2>2. conn' \in [Conns -> Request] /\ reading' \subseteq Conns
    BY <1>11, DialDoes DEF Others
  <2>3. UNCHANGED <<store, putting, slots, moved, cursor, local, twice, pull, failures, dropped, missed, inOrder>>
    BY <1>11, DialDoes
  <2>4. QED BY <2>1, <2>2, <2>3 DEF FeedTypeOK
<1>12. ASSUME NEW x \in Conns, StreamRow(x) PROVE FeedTypeOK' /\ SlotsCounted'
  <2>1. SlotsCounted'
    BY <1>12, StreamRowDoes, SlotsStay
  <2>2. local' \in [Keys -> Nat] /\ twice' \subseteq Plans /\ moved' \in Nat
    BY <1>12, StreamRowTables
  <2>3. QED BY <1>12, <2>1, <2>2, StreamRowDoes DEF FeedTypeOK, Others
<1>13. CASE StreamCursor
  BY <1>13 DEF StreamCursor, FeedTypeOK, SlotsCounted
<1>14. CASE PullStart
  BY <1>14, PullStarts DEF FeedTypeOK, SlotsCounted, client
<1>15. CASE PullList
  BY <1>15, PullListDoes DEF FeedTypeOK, SlotsCounted, client
<1>16. ASSUME NEW row \in pull.page, PullRow(row) PROVE FeedTypeOK' /\ SlotsCounted'
  BY <1>16, PullRowDoes DEF FeedTypeOK, SlotsCounted
<1>17. CASE PullCursor
  <2>1. cursor' \in Nat /\ pull' \in PullRun
    BY <1>17, PullCursorDoes DEF FeedTypeOK, PullRun
  <2>2. QED BY <1>17, <2>1, PullCursorDoes DEF FeedTypeOK, SlotsCounted
<1>18. CASE Break
  BY <1>18 DEF Break, Fault, FeedTypeOK, SlotsCounted
<1>19. CASE PullFails
  <2>1. pull' \in PullRun
    BY <1>19, PullStops DEF PullFails
  <2>2. QED BY <1>19, <2>1 DEF PullFails, Fault, FeedTypeOK, SlotsCounted, client
<1>20. CASE RestartDaemon
  <2>1. pull' \in PullRun
    BY <1>20, PullStops DEF RestartDaemon
  <2>2. QED BY <1>20, <2>1 DEF RestartDaemon, Fault, FeedTypeOK, SlotsCounted
<1>21. CASE RestartServer
  <2>1. conn' \in [Conns -> Request]
    BY <1>21, NoConnRequest DEF RestartServer
  <2>2. Active' = {}
    BY <1>21 DEF RestartServer, Active, NoConn
  <2>3. SlotsCounted'
    BY <1>21, <2>2, FS_EmptySet DEF RestartServer, SlotsCounted, Active
  <2>4. QED BY <1>21, <2>1, <2>3 DEF RestartServer, Fault, FeedTypeOK
<1>22. CASE UNCHANGED feedVars
  BY <1>22 DEF feedVars, client, FeedTypeOK, SlotsCounted
<1>23. QED
  BY <1>1, <1>2, <1>3, <1>4, <1>5, <1>6, <1>7, <1>8, <1>9, <1>10, <1>11, <1>12, <1>13, <1>14,
     <1>15, <1>16, <1>17, <1>18, <1>19, <1>20, <1>21, <1>22
  DEF FeedNext, ServerStep, ClientStep, PullStep

-------------------------------------------------------------------------------
(* Every row on its way is of a key that was put. *)
LEMMA StoredStays ==
  ASSUME UNCHANGED store
  PROVE  /\ Stored' = Stored /\ \A row : StoredRow(row)' <=> StoredRow(row)
         /\ \A k : Current(k)' = Current(k)
         /\ \A c : After(c)' = After(c) /\ Page(c)' = Page(c)
<1>1. Stored' = Stored
  BY DEF Stored
<1>2. \A k : Current(k)' = Current(k)
  BY DEF Current
<1>3. \A c : After(c)' = After(c) /\ Page(c)' = Page(c)
  BY DEF After, Page
<1>4. QED BY <1>1, <1>2, <1>3 DEF StoredRow

LEMMA StoredStates ==
  ASSUME FeedTypeOK
  PROVE  /\ Stored \subseteq Keys /\ Stored \subseteq Nat /\ 0 \notin Stored
         /\ \A k \in Keys : k \in Stored <=> store[k] # 0
         /\ \A k \in Stored : StoredRow(Current(k)) /\ Current(k).key = k /\ Current(k) \in Row
BY FeedAssumption DEF FeedTypeOK, Stored, StoredRow, Current, Row

LEMMA PutStores ==
  ASSUME FeedTypeOK, NEW k \in Keys, Put(k)
  PROVE  /\ Stored' = Stored \cup {k}
         /\ \A row \in Row : StoredRow(row) => StoredRow(row)'
         /\ \A row : row = [key |-> k, version |-> store[k] + 1] => StoredRow(row)'
<1>1. store' = [store EXCEPT ![k] = @ + 1] /\ store \in [Keys -> Nat]
  BY PutDoes DEF FeedTypeOK
<1>2. \A j \in Keys : store'[j] # 0 <=> store[j] # 0 \/ j = k
  BY <1>1
<1>3. Stored' = Stored \cup {k}
  BY <1>2 DEF Stored
<1>4. store[k] + 1 # 0
  BY <1>1
<1>5. QED BY <1>3, <1>4 DEF StoredRow

LEMMA RequestsStay ==
  ASSUME RowsStored, NEW x \in Conns, Others(x), UNCHANGED store, RequestStored(x)'
  PROVE  \A y \in Conns : RequestStored(y)'
<1> SUFFICES ASSUME NEW y \in Conns, y # x PROVE RequestStored(y)'
  OBVIOUS
<1>1. conn'[y] = conn[y] /\ RequestStored(y)
  BY DEF Others, RowsStored
<1>2. QED BY <1>1, StoredStays DEF RequestStored

LEMMA NoConnStored ==
  ASSUME NEW x \in Conns, conn'[x] = NoConn
  PROVE  RequestStored(x)'
<1>1. /\ conn'[x].todo = {} /\ conn'[x].told = {}
      /\ conn'[x].buf = <<>> /\ conn'[x].wire = <<>>
  BY DEF NoConn
<1>2. Len(conn'[x].buf) = 0 /\ DOMAIN conn'[x].buf = {} /\ DOMAIN conn'[x].wire = {}
  BY <1>1
<1>3. 0 <= Buffer
  BY FeedAssumption
<1>4. QED BY <1>1, <1>2, <1>3 DEF RequestStored

LEMMA QueuesStored ==
  ASSUME RowsStored, NEW x \in Conns, UNCHANGED store, KeepsQueues(x),
         conn'[x].todo \cup conn'[x].told \subseteq Stored
  PROVE  RequestStored(x)'
BY StoredStays DEF RequestStored, RowsStored, KeepsQueues

LEMMA ServerStored ==
  ASSUME FeedTypeOK, RowsStored, NEW x \in Conns, ServerStep(x)
  PROVE  /\ \A y \in Conns : RequestStored(y)'
         /\ UNCHANGED <<store, putting, pull>>
<1> DEFINE Goal == (\A y \in Conns : RequestStored(y)') /\ UNCHANGED <<store, putting, pull>>
<1>0. /\ conn[x] \in Request /\ RequestStored(x)
      /\ conn[x].todo \subseteq Stored /\ conn[x].told \subseteq Stored
  BY DEF FeedTypeOK, RowsStored, RequestStored
<1>1. CASE Accept(x)
  BY <1>0, <1>1, AcceptDoes, QueuesStored, RequestsStay DEF KeepsBacklog, KeepsTold
<1>2. CASE Reject(x)
  BY <1>2, RejectDoes, NoConnStored, RequestsStay
<1>3. CASE Subscribe(x)
  BY <1>0, <1>3, SubscribeDoes, QueuesStored, RequestsStay DEF server, KeepsBacklog, KeepsTold
<1>4. CASE ListBacklog(x)
  <2>1. conn'[x].todo \subseteq Stored
    BY <1>0, <1>4, ListBacklogDoes, RequestFields, PageOfKeys
  <2>2. UNCHANGED <<store, putting, pull>>
    BY <1>4, ListBacklogDoes DEF server
  <2>3. RequestStored(x)'
    BY <1>0, <1>4, <2>1, <2>2, ListBacklogDoes, QueuesStored DEF KeepsTold
  <2>4. QED BY <1>4, <2>2, <2>3, ListBacklogDoes, RequestsStay
<1>5. ASSUME NEW k \in conn[x].todo, BacklogRow(x, k) PROVE Goal
  <2>1. UNCHANGED <<store, putting, pull>>
    BY <1>5, BacklogRowDoes DEF server
  <2>2. conn'[x].todo \cup conn'[x].told \subseteq Stored
    BY <1>0, <1>5, BacklogRowDoes
  <2>3. k \in Stored /\ StoredRow(Current(k)) /\ Current(k) \in Row
    BY <1>0, StoredStates
  <2>4. conn[x].wire \in Seq(Row) /\ conn'[x].wire = Append(conn[x].wire, Current(k)) /\ conn'[x].buf = conn[x].buf
    BY <1>0, <1>5, RequestFields, BacklogRowDoes
  <2>5. \A i \in DOMAIN conn'[x].wire : StoredRow(conn'[x].wire[i])
    BY <1>0, <2>3, <2>4, AppendRow DEF RequestStored
  <2>6. RequestStored(x)'
    BY <1>0, <2>1, <2>2, <2>4, <2>5, StoredStays DEF RequestStored
  <2>7. QED BY <1>5, <2>1, <2>6, BacklogRowDoes, RequestsStay
<1>6. CASE BacklogPage(x)
  BY <1>0, <1>6, BacklogPageDoes, QueuesStored, RequestsStay DEF server, KeepsBacklog, KeepsTold
<1>7. CASE LiveRow(x)
  <2> DEFINE row == Head(conn[x].buf)
  <2>1. UNCHANGED <<store, putting, pull>>
    BY <1>7, LiveRowDoes DEF server
  <2>2. /\ conn[x].buf \in Seq(Row) /\ conn[x].wire \in Seq(Row) /\ conn[x].buf # <<>>
        /\ conn'[x].buf = Tail(conn[x].buf) /\ conn'[x].wire = Append(conn[x].wire, row)
        /\ conn'[x].told \in {conn[x].told, conn[x].told \cup {row.key}} /\ conn'[x].todo = conn[x].todo
    BY <1>0, <1>7, RequestFields, LiveRowDoes DEF KeepsBacklog
  <2>3. row \in Row /\ row = conn[x].buf[1] /\ 1 \in DOMAIN conn[x].buf
    BY <2>2, HeadRow
  <2>4. StoredRow(row) /\ row.key \in Stored
    BY <1>0, <2>3 DEF RequestStored, StoredRow
  <2> HIDE DEF row
  <2>5. \A i \in DOMAIN conn'[x].wire : StoredRow(conn'[x].wire[i])
    BY <1>0, <2>2, <2>3, <2>4, AppendRow DEF RequestStored
  <2>6. \A i \in DOMAIN conn'[x].buf : StoredRow(conn'[x].buf[i])
    BY <1>0, <2>2, HeadRow DEF RequestStored
  <2>7. Len(conn'[x].buf) <= Buffer
    <3>1. Len(conn'[x].buf) = Len(conn[x].buf) - 1 /\ Len(conn[x].buf) \in Nat
      BY <2>2, HeadRow
    <3>2. QED BY <1>0, <3>1, FeedAssumption DEF RequestStored
  <2>8. conn'[x].todo \cup conn'[x].told \subseteq Stored
    BY <1>0, <2>2, <2>4
  <2>9. RequestStored(x)'
    BY <2>1, <2>5, <2>6, <2>7, <2>8, StoredStays DEF RequestStored
  <2>10. QED BY <1>7, <2>1, <2>9, LiveRowDoes, RequestsStay
<1>8. CASE Hangup(x)
  BY <1>8, HangupDoes, NoConnStored, RequestsStay
<1>9. QED BY <1>1, <1>2, <1>3, <1>4, <1>5, <1>6, <1>7, <1>8 DEF ServerStep

LEMMA StoredStep == FeedTypeOK /\ RowsStored /\ [FeedNext]_feedVars => RowsStored'
<1> SUFFICES ASSUME FeedTypeOK, RowsStored, [FeedNext]_feedVars PROVE RowsStored'
  OBVIOUS
<1>0. ASSUME UNCHANGED <<store, putting>>, \A row \in pull'.page : StoredRow(row),
             \A y \in Conns : RequestStored(y)'
      PROVE  RowsStored'
  BY <1>0, StoredStays DEF RowsStored
<1>00. ASSUME UNCHANGED <<store, conn>>
       PROVE  \A y \in Conns : RequestStored(y)'
  BY <1>00, StoredStays DEF RowsStored, RequestStored
<1>000. \A row \in pull.page : StoredRow(row)
  BY DEF RowsStored
<1>1. ASSUME NEW k \in Keys, Put(k) PROVE RowsStored'
  <2> DEFINE new == [key |-> k, version |-> store[k] + 1]
  <2>1. IsFiniteSet(Stored')
    <3>1. Stored' = Stored \cup {k} /\ IsFiniteSet(Stored)
      BY <1>1, PutStores DEF RowsStored
    <3>2. QED BY <3>1, FS_AddElement
  <2>2. putting' = putting \cup {new} /\ pull' = pull /\ \A row : row = new => StoredRow(row)'
    BY <1>1, PutDoes, PutStores
  <2>3. \A row \in Row : StoredRow(row) => StoredRow(row)'
    BY <1>1, PutStores
  <2>4. putting \subseteq Row /\ pull.page \subseteq Row
    BY DEF FeedTypeOK, PullRun
  <2>5. \A row \in putting' : StoredRow(row)'
    <3>1. \A row \in putting : StoredRow(row)'
      BY <2>3, <2>4 DEF RowsStored
    <3>2. QED BY <2>2, <3>1
  <2>6. \A row \in pull'.page : StoredRow(row)'
    BY <2>2, <2>3, <2>4 DEF RowsStored
  <2>7. ASSUME NEW x \in Conns PROVE RequestStored(x)'
    <3>1. conn[x].buf \in Seq(Row) /\ conn[x].wire \in Seq(Row) /\ RequestStored(x)
      BY RequestFields DEF FeedTypeOK, RowsStored
    <3>2. /\ conn'[x].todo = conn[x].todo /\ conn'[x].told \subseteq conn[x].told
          /\ conn'[x].buf = conn[x].buf /\ conn'[x].wire = conn[x].wire
      BY <1>1, PutDoes DEF KeepsBacklog, KeepsQueues
    <3>3. Stored \subseteq Stored'
      BY <1>1, PutStores
    <3>4. conn'[x].todo \cup conn'[x].told \subseteq Stored'
      BY <3>1, <3>2, <3>3 DEF RequestStored
    <3>5. ASSUME NEW q \in {conn[x].buf, conn[x].wire}, NEW i \in DOMAIN q
          PROVE  q[i].key \in Stored' /\ q[i].version # 0
      BY <3>1, <3>3 DEF RequestStored, StoredRow
    <3>6. QED BY <3>1, <3>2, <3>4, <3>5 DEF RequestStored, StoredRow
  <2>8. QED BY <2>1, <2>5, <2>6, <2>7 DEF RowsStored
<1>2. ASSUME NEW row \in putting, Publish(row) PROVE RowsStored'
  <2>1. row \in Row /\ putting' = putting \ {row} /\ UNCHANGED <<store, pull>>
    BY <1>2, PublishDoes
  <2>2. StoredRow(row) /\ row.key \in Stored
    BY DEF RowsStored, StoredRow
  <2>3. ASSUME NEW x \in Conns PROVE RequestStored(x)'
    <3>1. conn[x].buf \in Seq(Row) /\ RequestStored(x)
      BY RequestFields DEF FeedTypeOK, RowsStored
    <3>2. conn'[x].todo = conn[x].todo /\ conn'[x].wire = conn[x].wire
      BY <1>2, PublishedTo
    <3>3. conn'[x].told \in {conn[x].told, conn[x].told \cup {row.key}}
      BY <1>2, PublishedTo
    <3>4. \/ conn'[x].buf = conn[x].buf
          \/ conn'[x].buf = Append(conn[x].buf, row) /\ Len(conn[x].buf) < Buffer
      BY <1>2, PublishedTo
    <3>5. conn'[x].todo \cup conn'[x].told \subseteq Stored
      BY <2>2, <3>1, <3>2, <3>3 DEF RequestStored
    <3>6. Len(conn'[x].buf) <= Buffer /\ \A i \in DOMAIN conn'[x].buf : StoredRow(conn'[x].buf[i])
      <4>1. CASE conn'[x].buf = conn[x].buf
        BY <3>1, <4>1 DEF RequestStored
      <4>2. CASE conn'[x].buf = Append(conn[x].buf, row) /\ Len(conn[x].buf) < Buffer
        <5>1. Len(conn'[x].buf) <= Buffer
          BY <2>1, <3>1, <4>2, AppendRow, FeedAssumption
        <5>2. QED BY <2>1, <2>2, <3>1, <4>2, <5>1, AppendRow DEF RequestStored
      <4>3. QED BY <3>4, <4>1, <4>2
    <3>7. QED BY <2>1, <3>1, <3>2, <3>5, <3>6, StoredStays DEF RequestStored
  <2>4. QED BY <2>1, <2>3, StoredStays DEF RowsStored
<1>3. ASSUME NEW x \in Conns, ServerStep(x) PROVE RowsStored'
  BY <1>0, <1>000, <1>3, ServerStored
<1>4. ASSUME NEW x \in Conns, Dial(x) PROVE RowsStored'
  <2>1. Len(conn'[x].buf) = 0 /\ DOMAIN conn'[x].buf = {} /\ DOMAIN conn'[x].wire = {}
    BY <1>4, DialDoes
  <2>2. RequestStored(x)'
    BY <1>4, <2>1, DialDoes, FeedAssumption DEF RequestStored
  <2>3. \A y \in Conns : RequestStored(y)'
    BY <1>4, <2>2, DialDoes, RequestsStay
  <2>4. QED BY <1>0, <1>000, <1>4, <2>3, DialDoes
<1>5. ASSUME NEW x \in Conns, StreamRow(x) PROVE RowsStored'
  <2>1. conn[x].wire \in Seq(Row) /\ RequestStored(x)
    BY RequestFields DEF FeedTypeOK, RowsStored
  <2>2. /\ conn'[x].todo = conn[x].todo /\ conn'[x].told = conn[x].told /\ conn'[x].buf = conn[x].buf
        /\ conn'[x].wire = Tail(conn[x].wire) /\ conn[x].wire # <<>>
        /\ UNCHANGED <<store, putting, pull>> /\ Others(x)
    BY <1>5, StreamRowDoes DEF KeepsBacklog, KeepsTold
  <2>3. \A i \in DOMAIN conn'[x].wire : StoredRow(conn'[x].wire[i])
    BY <2>1, <2>2, HeadRow DEF RequestStored
  <2>4. RequestStored(x)'
    BY <2>1, <2>2, <2>3, StoredStays DEF RequestStored
  <2>5. QED BY <1>0, <1>000, <2>2, <2>4, RequestsStay
<1>6. CASE StreamCursor
  BY <1>0, <1>00, <1>000, <1>6 DEF StreamCursor
<1>7. CASE PullStart
  BY <1>0, <1>00, <1>000, <1>7, PullStarts
<1>8. CASE PullList
  <2>1. \A row \in pull'.page : StoredRow(row)
    <3>1. pull.cursor \in Nat
      BY DEF FeedTypeOK, PullRun
    <3>2. Page(pull.cursor) \subseteq Stored
      BY <3>1, PageOfKeys
    <3>3. CASE pull' = NoPull
      BY <3>3, PullStops
    <3>4. CASE pull'.page = {Current(k) : k \in Page(pull.cursor)}
      BY <3>2, <3>4, StoredStates
    <3>5. QED BY <1>8, <3>3, <3>4, PullListDoes
  <2>2. QED BY <1>0, <1>00, <1>8, <2>1, PullListDoes
<1>9. ASSUME NEW row \in pull.page, PullRow(row) PROVE RowsStored'
  BY <1>0, <1>00, <1>000, <1>9, PullRowDoes
<1>10. CASE PullCursor
  BY <1>0, <1>00, <1>10, PullCursorDoes
<1>11. CASE Break
  BY <1>0, <1>00, <1>000, <1>11 DEF Break
<1>12. CASE PullFails
  BY <1>0, <1>00, <1>12, PullStops DEF PullFails
<1>13. CASE RestartDaemon
  BY <1>0, <1>00, <1>13, PullStops DEF RestartDaemon
<1>14. CASE RestartServer
  <2>1. \A x \in Conns : RequestStored(x)'
    BY <1>14, NoConnStored DEF RestartServer
  <2>2. UNCHANGED <<store, pull>> /\ putting' = {}
    BY <1>14 DEF RestartServer
  <2>3. QED BY <1>000, <2>1, <2>2, StoredStays DEF RowsStored
<1>15. CASE UNCHANGED feedVars
  BY <1>0, <1>00, <1>000, <1>15 DEF feedVars
<1>16. QED
  BY <1>1, <1>2, <1>3, <1>4, <1>5, <1>6, <1>7, <1>8, <1>9, <1>10, <1>11, <1>12, <1>13, <1>14, <1>15
  DEF FeedNext, ClientStep, PullStep

LEMMA StoredInit == FeedInit => RowsStored
<1> SUFFICES ASSUME FeedInit PROVE RowsStored
  OBVIOUS
<1>1. Stored = {}
  BY DEF FeedInit, Stored
<1>2. /\ putting = {} /\ pull.page = {}
      /\ \A x \in Conns : /\ conn[x].todo = {} /\ conn[x].told = {}
                          /\ conn[x].buf = <<>> /\ conn[x].wire = <<>>
  BY DEF FeedInit, NoPull, NoConn
<1>3. \A x \in Conns : /\ Len(conn[x].buf) = 0 /\ DOMAIN conn[x].buf = {}
                       /\ DOMAIN conn[x].wire = {}
  BY <1>2
<1>4. QED BY <1>1, <1>2, <1>3, FS_EmptySet, FeedAssumption DEF RowsStored, RequestStored

-------------------------------------------------------------------------------
(* A page is the first rows of what is after the cursor: those it leaves out *)
(* come later, and it leaves none out unless it has Limit rows.              *)
Under(S, k) == {j \in S : j < k}
Firsts(S, n) == {k \in S : Cardinality(Under(S, k)) < n}

LEMMA LeastOf ==
  ASSUME NEW T \in SUBSET Nat, T # {}
  PROVE  \E m \in T : \A t \in T : m <= t
<1> DEFINE LT == OpToRel(<, Nat)
<1>1. \E m \in T : \A t \in Nat : <<t, m>> \in LT => t \notin T
  <2> HIDE DEF LT
  <2>1. IsWellFoundedOn(LT, Nat)
    BY NatLessThanWellFounded DEF LT
  <2>2. QED BY <2>1, WFMin
<1>2. PICK m \in T : \A t \in Nat : <<t, m>> \in LT => t \notin T
  BY <1>1
<1>3. ASSUME NEW t \in T PROVE m <= t
  <2>1. CASE t < m
    BY <1>2, <2>1 DEF OpToRel
  <2>2. QED BY <2>1
<1>4. QED BY <1>3

LEMMA UnderGrows ==
  ASSUME NEW S \in SUBSET Nat, IsFiniteSet(S), NEW j \in Nat, NEW k \in Nat, j <= k
  PROVE  /\ IsFiniteSet(Under(S, j)) /\ Cardinality(Under(S, j)) \in Nat
         /\ Cardinality(Under(S, j)) <= Cardinality(Under(S, k))
<1>1. Under(S, j) \subseteq Under(S, k) /\ Under(S, k) \subseteq S
  <2>1. \A i \in S : i \in Nat /\ (i < j => i < k)
    OBVIOUS
  <2>2. QED BY <2>1 DEF Under
<1>2. IsFiniteSet(Under(S, k))
  BY <1>1, FS_Subset
<1>3. IsFiniteSet(Under(S, j)) /\ Cardinality(Under(S, j)) <= Cardinality(Under(S, k))
  BY <1>1, <1>2, FS_Subset
<1>4. QED BY <1>3, FS_CardinalityType

LEMMA FirstsAreFull ==
  ASSUME NEW S \in SUBSET Nat, IsFiniteSet(S), NEW n \in Nat \ {0}, NEW k \in S, k \notin Firsts(S, n)
  PROVE  Cardinality(Firsts(S, n)) = n /\ \A j \in Firsts(S, n) : j < k
<1> DEFINE P == Firsts(S, n)
           Card(x) == Cardinality(Under(S, x))
<1>1. /\ P \subseteq S /\ S \subseteq Nat
      /\ \A x \in S : Card(x) \in Nat /\ (x \in P <=> Card(x) < n)
  BY UnderGrows DEF Firsts
<1>2. \A x, y \in S : x <= y => Card(x) <= Card(y)
  BY UnderGrows
<1> HIDE DEF P, Card
<1>3. \A x \in S \ P : \A j \in P : j < x
  BY <1>1, <1>2
<1>4. PICK m \in S \ P : \A x \in S \ P : m <= x
  <2>1. S \ P # {} /\ S \ P \in SUBSET Nat
    BY <1>1 DEF P
  <2>2. QED BY <2>1, LeastOf
<1>5. P = Under(S, m)
  <2>1. \A j \in P : j < m
    BY <1>3
  <2>2. ASSUME NEW j \in S, j < m PROVE j \in P
    BY <1>1, <1>4, <2>2
  <2>3. QED BY <1>1, <2>1, <2>2 DEF Under
<1>6. Cardinality(P) \in Nat /\ ~(Cardinality(P) < n) /\ IsFiniteSet(P)
  <2>1. IsFiniteSet(P)
    BY <1>1, FS_Subset
  <2>2. Card(m) = Cardinality(P)
    BY <1>5 DEF Card
  <2>3. QED BY <1>1, <1>4, <2>1, <2>2
<1>7. P # {}
  BY <1>6, FS_EmptySet
<1>8. PICK p \in P : \A j \in P : j <= p
  <2> DEFINE T == {m - j : j \in P}
  <2>1. m \in Nat /\ \A j \in P : j \in Nat /\ m - j \in Nat
    BY <1>1, <1>3, <1>4
  <2>2. T \in SUBSET Nat /\ T # {}
    BY <1>7, <2>1
  <2>3. PICK t \in T : \A u \in T : t <= u
    <3> HIDE DEF T
    <3>1. QED BY <2>2, LeastOf
  <2>4. PICK p \in P : t = m - p
    BY <2>3
  <2>5. ASSUME NEW j \in P PROVE j <= p
    <3>1. m - j \in T
      OBVIOUS
    <3>2. m - p <= m - j
      BY <2>3, <2>4, <3>1
    <3>3. QED BY <2>1, <3>2
  <2>6. QED BY <2>5
<1>9. Under(S, p) = P \ {p}
  <2>1. ASSUME NEW j \in S, j < p PROVE j \in P \ {p}
    <3>1. p < m /\ j \in Nat /\ p \in Nat /\ m \in Nat
      BY <1>1, <1>3
    <3>2. j < m /\ j # p
      BY <2>1, <3>1
    <3>3. QED BY <1>5, <3>2 DEF Under
  <2>2. ASSUME NEW j \in P, j # p PROVE j < p
    BY <1>1, <1>8, <2>2
  <2>3. QED BY <1>1, <2>1, <2>2 DEF Under
<1>10. Cardinality(P \ {p}) = Cardinality(P) - 1
  BY <1>6, <1>8, FS_RemoveElement
<1>11. Card(p) = Cardinality(P) - 1 /\ Card(p) < n
  BY <1>1, <1>8, <1>9, <1>10 DEF Card
<1>12. Cardinality(P) = n
  BY <1>6, <1>11
<1>13. QED BY <1>3, <1>12 DEF P

LEMMA PageIsFirst ==
  ASSUME FeedTypeOK, RowsStored, NEW c \in Nat, NEW k \in After(c), k \notin Page(c)
  PROVE  Cardinality(Page(c)) = Limit /\ \A j \in Page(c) : j < k
<1>1. After(c) \subseteq Stored /\ Stored \subseteq Nat /\ IsFiniteSet(Stored)
  BY PageOfKeys, StoredStates DEF RowsStored
<1>2. IsFiniteSet(After(c)) /\ After(c) \in SUBSET Nat
  BY <1>1, FS_Subset
<1>3. Page(c) = Firsts(After(c), Limit)
  BY DEF Page, Firsts, Under
<1>4. QED BY <1>2, <1>3, FirstsAreFull, FeedAssumption

-------------------------------------------------------------------------------
(* No subscriber misses a row between its backlog and its live loop. *)
LEMMA HandedStays ==
  ASSUME HandedOver, NEW x \in Conns, Others(x), UNCHANGED <<store, putting>>, Handed(x)'
  PROVE  HandedOver'
<1> SUFFICES ASSUME NEW y \in Conns, y # x PROVE Handed(y)'
  BY DEF HandedOver
<1>1. conn'[y] = conn[y] /\ Handed(y)
  BY DEF Others, HandedOver
<1>2. QED BY <1>1, StoredStays DEF Handed, Served, Pending, Subscribed

(* A step that keeps what a request has got and is in line for. *)
LEMMA HandedKept ==
  ASSUME NEW x \in Conns, Handed(x), UNCHANGED <<store, putting>>,
         conn'[x].state = conn[x].state, KeepsRange(x), conn'[x].todo = conn[x].todo, conn'[x].full <=> conn[x].full,
         KeepsTold(x), conn'[x].buf = conn[x].buf
  PROVE  Handed(x)'
BY StoredStays DEF Handed, Served, Pending, Subscribed, KeepsRange, KeepsTold

LEMMA IdleHanded ==
  ASSUME NEW x \in Conns, conn'[x].state = "free"
  PROVE  Handed(x)'
BY DEF Handed, Subscribed

LEMMA AllServed ==
  ASSUME NEW x \in Conns, Handed(x), Subscribed(x), conn[x].state = "live" \/ (conn[x].todo = {} /\ ~conn[x].full)
  PROVE  \A k \in After(conn[x].start) : Served(x, k) \/ conn[x].state = "sub"
BY DEF Handed, Pending

LEMMA ServerHanded ==
  ASSUME FeedTypeOK, RowsStored, HandedOver, NEW x \in Conns, ServerStep(x)
  PROVE  HandedOver'
<1>0. conn[x] \in Request /\ conn[x].start \in Nat /\ conn[x].since \in Nat /\ Handed(x)
  BY RequestFields DEF FeedTypeOK, HandedOver
<1>1. CASE Accept(x)
  <2>1. Handed(x)'
    BY <1>0, <1>1, AcceptDoes DEF Handed, Subscribed, KeepsRange
  <2>2. QED BY <1>1, <2>1, AcceptDoes, HandedStays
<1>2. CASE Reject(x)
  <2>1. Handed(x)'
    BY <1>2, RejectDoes, IdleHanded DEF NoConn
  <2>2. QED BY <1>2, <2>1, RejectDoes, HandedStays
<1>3. CASE Subscribe(x)
  <2>1. /\ conn[x].state = "open" /\ conn'[x].state = "sub" /\ UNCHANGED <<store, putting>>
        /\ conn'[x].start = conn[x].start /\ conn'[x].since = conn[x].start
    BY <1>0, <1>3, SubscribeDoes DEF Handed, KeepsRange, server
  <2>2. \A k \in After(conn[x].start) : Pending(x, k)'
    BY <1>0, <2>1, PageOfKeys DEF Pending
  <2>3. Handed(x)'
    BY <2>1, <2>2, StoredStays DEF Handed
  <2>4. QED BY <1>3, <2>1, <2>3, SubscribeDoes, HandedStays
<1>4. CASE ListBacklog(x)
  <2>1. /\ conn[x].state = "sub" /\ conn'[x].state = "backlog" /\ UNCHANGED <<store, putting>>
        /\ conn'[x].start = conn[x].start /\ conn'[x].since = conn[x].since
        /\ conn'[x].todo = Page(conn[x].since)
        /\ conn'[x].buf = conn[x].buf /\ conn'[x].told = conn[x].told
    BY <1>4, ListBacklogDoes DEF KeepsRange, KeepsQueues, KeepsTold, server
  <2>2. conn'[x].full <=> Cardinality(Page(conn[x].since)) = Limit
    BY <1>4, ListBacklogDoes
  <2>3. ASSUME NEW k \in After(conn[x].start) PROVE Served(x, k)' \/ Pending(x, k)'
    <3>1. CASE Served(x, k)
      BY <2>1, <3>1, StoredStays DEF Served
    <3>2. CASE k > conn[x].since
      <4>1. k \in After(conn[x].since)
        BY <3>2 DEF After
      <4>2. k \in Page(conn[x].since) \/ (conn'[x].full /\ \A j \in Page(conn[x].since) : j < k)
        BY <1>0, <2>2, <4>1, PageIsFirst
      <4>3. QED BY <2>1, <3>2, <4>2 DEF Pending
    <3>3. QED BY <1>0, <2>1, <3>1, <3>2 DEF Handed, Pending, Subscribed
  <2>4. \A k \in conn'[x].todo : k > conn'[x].since
    BY <1>0, <2>1, PageOfKeys
  <2>5. Handed(x)'
    BY <2>1, <2>3, <2>4, StoredStays DEF Handed
  <2>6. QED BY <1>4, <2>1, <2>5, ListBacklogDoes, HandedStays
<1>5. ASSUME NEW k \in conn[x].todo, BacklogRow(x, k) PROVE HandedOver'
  <2>1. /\ conn[x].state = "backlog" /\ conn'[x].state = "backlog" /\ UNCHANGED <<store, putting>>
        /\ conn'[x].start = conn[x].start /\ conn'[x].since = k
        /\ conn'[x].todo = conn[x].todo \ {k}
        /\ conn'[x].buf = conn[x].buf /\ conn'[x].told = conn[x].told \cup {k}
    BY <1>5, BacklogRowDoes DEF server
  <2>2. conn'[x].full <=> conn[x].full
    BY <1>5, BacklogRowDoes
  <2>3. conn[x].todo \subseteq Nat /\ k \in Nat /\ \A j \in conn[x].todo : k <= j
    BY <1>0, <1>5, BacklogRowDoes, RequestFields, FeedAssumption DEF First
  <2>4. ASSUME NEW j \in After(conn[x].start) PROVE Served(x, j)' \/ Pending(x, j)'
    <3>0. j \in Nat
      BY FeedAssumption DEF After
    <3>1. CASE Served(x, j)
      BY <2>1, <3>1, StoredStays DEF Served
    <3>2. CASE j = k
      BY <2>1, <3>2 DEF Served
    <3>3. CASE j # k /\ Pending(x, j)
      <4>1. j \in conn[x].todo \/ (conn[x].full /\ \A i \in conn[x].todo : i < j)
        BY <2>1, <3>3 DEF Pending
      <4>2. j > k
        BY <2>3, <3>0, <3>3, <4>1
      <4>3. j \in conn'[x].todo \/ (conn'[x].full /\ \A i \in conn'[x].todo : i < j)
        BY <2>1, <2>2, <3>3, <4>1
      <4>4. QED BY <2>1, <4>2, <4>3 DEF Pending
    <3>4. QED BY <1>0, <2>1, <3>1, <3>2, <3>3 DEF Handed, Subscribed
  <2>5. \A j \in conn'[x].todo : j > conn'[x].since
    BY <2>1, <2>3
  <2>6. Handed(x)'
    BY <2>1, <2>4, <2>5, StoredStays DEF Handed
  <2>7. QED BY <1>5, <2>1, <2>6, BacklogRowDoes, HandedStays
<1>6. CASE BacklogPage(x)
  <2>1. /\ conn[x].state = "backlog" /\ conn[x].todo = {} /\ UNCHANGED <<store, putting>>
        /\ conn'[x].start = conn[x].start
        /\ conn'[x].buf = conn[x].buf /\ conn'[x].told = conn[x].told
    BY <1>6, BacklogPageDoes DEF KeepsQueues, KeepsTold, server
  <2>2. \/ conn[x].full /\ conn'[x].state = "sub" /\ conn'[x].since = conn[x].since
        \/ ~conn[x].full /\ conn'[x].state = "live"
    BY <1>6, BacklogPageDoes
  <2>3. ASSUME NEW k \in After(conn[x].start) PROVE Served(x, k)' \/ Pending(x, k)'
    <3>1. Served(x, k) \/ Pending(x, k)
      BY <1>0, <2>1 DEF Handed, Subscribed
    <3>2. CASE Served(x, k)
      BY <2>1, <3>2, StoredStays DEF Served
    <3>3. CASE Pending(x, k)
      BY <2>1, <2>2, <3>3 DEF Pending
    <3>4. QED BY <3>1, <3>2, <3>3
  <2>4. Handed(x)'
    BY <2>1, <2>2, <2>3, StoredStays DEF Handed
  <2>5. QED BY <1>6, <2>1, <2>4, BacklogPageDoes, HandedStays
<1>7. CASE LiveRow(x)
  <2> DEFINE row == Head(conn[x].buf)
  <2>1. /\ conn[x].state = "live" /\ conn'[x].state = "live" /\ UNCHANGED <<store, putting>>
        /\ conn'[x].start = conn[x].start
        /\ conn[x].buf \in Seq(Row) /\ conn[x].buf # <<>> /\ conn'[x].buf = Tail(conn[x].buf)
    BY <1>0, <1>7, LiveRowDoes, RequestFields DEF KeepsRange, server
  <2>2. conn'[x].told = IF row = Current(row.key) THEN conn[x].told \cup {row.key} ELSE conn[x].told
    BY <1>7, LiveRowDoes
  <2>3. /\ row = conn[x].buf[1] /\ \A i \in DOMAIN conn[x].buf : i \in Nat /\ i >= 1
        /\ \A i \in DOMAIN conn[x].buf : i > 1 => i - 1 \in DOMAIN conn'[x].buf /\ conn'[x].buf[i - 1] = conn[x].buf[i]
    <3>1. \A i \in DOMAIN conn[x].buf : i \in Nat /\ i >= 1
      BY <2>1
    <3>2. /\ row = conn[x].buf[1]
          /\ \A i \in DOMAIN conn[x].buf : i > 1 => i - 1 \in DOMAIN Tail(conn[x].buf) /\ Tail(conn[x].buf)[i - 1] = conn[x].buf[i]
      BY <2>1, HeadRow
    <3>3. QED BY <2>1, <3>1, <3>2
  <2> HIDE DEF row
  <2>4. ASSUME NEW k \in After(conn[x].start) PROVE Served(x, k)'
    <3>1. Served(x, k)
      BY <1>0, <2>1 DEF Handed, Subscribed, Pending
    <3>2. CASE k \in conn[x].told
      BY <2>2, <3>2 DEF Served
    <3>3. CASE Current(k) \in putting
      BY <2>1, <3>3, StoredStays DEF Served
    <3>4. ASSUME NEW i \in DOMAIN conn[x].buf, conn[x].buf[i] = Current(k) PROVE Served(x, k)'
      <4>1. CASE i = 1
        <5>1. row = Current(k) /\ row.key = k
          BY <2>3, <3>4, <4>1 DEF Current
        <5>2. QED BY <2>2, <5>1 DEF Served
      <4>2. CASE i > 1
        <5>1. i - 1 \in DOMAIN conn'[x].buf /\ conn'[x].buf[i - 1] = Current(k)'
          BY <2>1, <2>3, <3>4, <4>2, StoredStays
        <5>2. QED BY <5>1 DEF Served
      <4>3. QED BY <2>3, <4>1, <4>2
    <3>5. QED BY <3>1, <3>2, <3>3, <3>4 DEF Served
  <2>5. Handed(x)'
    BY <2>1, <2>4, StoredStays DEF Handed
  <2>6. QED BY <1>7, <2>1, <2>5, LiveRowDoes, HandedStays
<1>8. CASE Hangup(x)
  <2>1. Handed(x)'
    BY <1>8, HangupDoes, IdleHanded DEF NoConn
  <2>2. QED BY <1>8, <2>1, HangupDoes, HandedStays
<1>9. QED BY <1>1, <1>2, <1>3, <1>4, <1>5, <1>6, <1>7, <1>8 DEF ServerStep

LEMMA HandOverStep == FeedTypeOK /\ RowsStored /\ HandedOver /\ [FeedNext]_feedVars => HandedOver'
<1> SUFFICES ASSUME FeedTypeOK, RowsStored, HandedOver, [FeedNext]_feedVars PROVE HandedOver'
  OBVIOUS
<1>0. ASSUME UNCHANGED <<store, putting, conn>> PROVE HandedOver'
  BY <1>0, StoredStays DEF HandedOver, Handed, Served, Pending, Subscribed
<1>1. ASSUME NEW k \in Keys, Put(k) PROVE HandedOver'
  <2> SUFFICES ASSUME NEW x \in Conns PROVE Handed(x)'
    BY DEF HandedOver
  <2>1. /\ conn'[x].state = conn[x].state /\ conn'[x].start = conn[x].start /\ conn'[x].since = conn[x].since
        /\ conn'[x].todo = conn[x].todo /\ conn'[x].buf = conn[x].buf /\ conn'[x].told = conn[x].told \ {k}
    BY <1>1, PutDoes DEF KeepsRange, KeepsBacklog, KeepsQueues
  <2>2. conn'[x].full <=> conn[x].full
    BY <1>1, PutDoes DEF KeepsBacklog
  <2>3. /\ store' = [store EXCEPT ![k] = @ + 1] /\ store \in [Keys -> Nat]
        /\ putting' = putting \cup {[key |-> k, version |-> store[k] + 1]}
    BY <1>1, PutDoes DEF FeedTypeOK
  <2>4. ASSUME Subscribed(x), NEW j \in After(conn[x].start)' PROVE Served(x, j)' \/ Pending(x, j)'
    <3>1. CASE j = k
      <4>1. Current(j)' = [key |-> k, version |-> store[k] + 1]
        BY <2>3, <3>1 DEF Current
      <4>2. QED BY <2>3, <4>1 DEF Served
    <3>2. CASE j # k
      <4>1. j \in After(conn[x].start) /\ Current(j)' = Current(j)
        BY <2>1, <2>3, <2>4, <3>2 DEF After, Current
      <4>2. Served(x, j) \/ Pending(x, j)
        BY <2>4, <4>1 DEF HandedOver, Handed
      <4>3. CASE Served(x, j)
        BY <2>1, <2>3, <3>2, <4>1, <4>3 DEF Served
      <4>4. CASE Pending(x, j)
        BY <2>1, <2>2, <4>4 DEF Pending
      <4>5. QED BY <4>2, <4>3, <4>4
    <3>3. QED BY <3>1, <3>2
  <2>5. QED BY <2>1, <2>4 DEF HandedOver, Handed, Subscribed
<1>2. ASSUME NEW row \in putting, Publish(row) PROVE HandedOver'
  <2> SUFFICES ASSUME NEW x \in Conns PROVE Handed(x)'
    BY DEF HandedOver
  <2>1. /\ conn'[x].state = conn[x].state /\ conn'[x].start = conn[x].start /\ conn'[x].since = conn[x].since
        /\ conn'[x].todo = conn[x].todo
    BY <1>2, PublishedTo
  <2>2. conn'[x].full <=> conn[x].full
    BY <1>2, PublishedTo
  <2>3. row \in Row /\ putting' = putting \ {row} /\ UNCHANGED store
    BY <1>2, PublishDoes
  <2>4. conn[x].buf \in Seq(Row)
    BY RequestFields DEF FeedTypeOK
  <2>5. ASSUME Subscribed(x), NEW j \in After(conn[x].start) PROVE Served(x, j)' \/ Pending(x, j)'
    <3>1. Served(x, j) \/ Pending(x, j)
      BY <2>5 DEF HandedOver, Handed
    <3>2. CASE Pending(x, j)
      BY <2>1, <2>2, <3>2 DEF Pending
    <3>3. CASE j \in conn[x].told
      <4>1. j \in conn'[x].told
        BY <1>2, <2>5, <3>3, PublishedTo
      <4>2. QED BY <4>1 DEF Served
    <3>4. CASE Current(j) \in putting /\ Current(j) # row
      BY <2>3, <3>4, StoredStays DEF Served
    <3>5. CASE Current(j) = row
      <4>1. row.key = j /\ Current(j)' = row
        BY <2>3, <3>5, StoredStays DEF Current
      <4>2. CASE Len(conn[x].buf) < Buffer
        <5>1. conn'[x].buf = Append(conn[x].buf, row)
          BY <1>2, <2>5, <4>2, PublishedTo
        <5>2. Len(conn[x].buf) + 1 \in DOMAIN conn'[x].buf /\ conn'[x].buf[Len(conn[x].buf) + 1] = row
          BY <2>3, <2>4, <5>1, AppendRow
        <5>3. QED BY <4>1, <5>2 DEF Served
      <4>3. CASE ~(Len(conn[x].buf) < Buffer)
        <5>1. j \in conn'[x].told
          BY <1>2, <2>5, <3>5, <4>1, <4>3, PublishedTo
        <5>2. QED BY <5>1 DEF Served
      <4>4. QED BY <4>2, <4>3
    <3>6. ASSUME NEW i \in DOMAIN conn[x].buf, conn[x].buf[i] = Current(j) PROVE Served(x, j)'
      <4>1. i \in DOMAIN conn'[x].buf /\ conn'[x].buf[i] = conn[x].buf[i]
        <5>1. CASE conn'[x].buf = conn[x].buf
          BY <5>1
        <5>2. CASE conn'[x].buf = Append(conn[x].buf, row)
          BY <2>3, <2>4, <5>2, AppendRow
        <5>3. QED BY <1>2, <5>1, <5>2, PublishedTo
      <4>2. QED BY <2>3, <3>6, <4>1, StoredStays DEF Served
    <3>7. QED BY <3>1, <3>2, <3>3, <3>4, <3>5, <3>6 DEF Served
  <2>6. QED BY <2>1, <2>3, <2>5, StoredStays DEF HandedOver, Handed, Subscribed
<1>3. ASSUME NEW x \in Conns, ServerStep(x) PROVE HandedOver'
  BY <1>3, ServerHanded
<1>4. ASSUME NEW x \in Conns, Dial(x) PROVE HandedOver'
  <2>1. Handed(x)'
    BY <1>4, DialDoes DEF Handed, Subscribed
  <2>2. QED BY <1>4, <2>1, DialDoes, HandedStays
<1>5. ASSUME NEW x \in Conns, StreamRow(x) PROVE HandedOver'
  <2>1. UNCHANGED <<store, putting>> /\ Others(x)
    BY <1>5, StreamRowDoes
  <2>2. /\ conn'[x].state = conn[x].state /\ KeepsRange(x) /\ KeepsTold(x)
        /\ conn'[x].todo = conn[x].todo /\ conn'[x].buf = conn[x].buf
    BY <1>5, StreamRowDoes DEF KeepsBacklog
  <2>3. conn'[x].full <=> conn[x].full
    BY <1>5, StreamRowDoes DEF KeepsBacklog
  <2>4. Handed(x)'
    BY <2>1, <2>2, <2>3, HandedKept DEF HandedOver
  <2>5. QED BY <2>1, <2>4, HandedStays
<1>6. CASE StreamCursor
  BY <1>0, <1>6 DEF StreamCursor
<1>7. CASE PullStart
  BY <1>0, <1>7, PullStarts
<1>8. CASE PullList
  BY <1>0, <1>8, PullListDoes
<1>9. ASSUME NEW row \in pull.page, PullRow(row) PROVE HandedOver'
  BY <1>0, <1>9, PullRowDoes
<1>10. CASE PullCursor
  BY <1>0, <1>10, PullCursorDoes
<1>11. CASE Break
  BY <1>0, <1>11 DEF Break
<1>12. CASE PullFails
  BY <1>0, <1>12 DEF PullFails
<1>13. CASE RestartDaemon
  BY <1>0, <1>13 DEF RestartDaemon
<1>14. CASE RestartServer
  BY <1>14, IdleHanded DEF RestartServer, HandedOver, NoConn
<1>15. CASE UNCHANGED feedVars
  BY <1>0, <1>15 DEF feedVars
<1>16. QED
  BY <1>1, <1>2, <1>3, <1>4, <1>5, <1>6, <1>7, <1>8, <1>9, <1>10, <1>11, <1>12, <1>13, <1>14, <1>15
  DEF FeedNext, ClientStep, PullStep

LEMMA HandOverInit == FeedInit => HandedOver
BY DEF FeedInit, HandedOver, Handed, Subscribed, NoConn

LEMMA HandedNoGap == HandedOver => NoGap
BY DEF HandedOver, Handed, Subscribed, Served, Pending, NoGap

-------------------------------------------------------------------------------
(* While the rows are put one at a time and in order. *)
Grows ==
  /\ dropped \cup missed \subseteq dropped' \cup missed'
  /\ \A k \in Keys : local[k] # 0 => local'[k] # 0

LEMMA HaveStays ==
  ASSUME Grows
  PROVE  \A k \in Keys : Have(k) => Have(k)'
BY DEF Grows, Have, Lost

LEMMA GrowsNot ==
  ASSUME dropped' = dropped, missed' = missed, local' = local
  PROVE  Grows
BY DEF Grows

LEMMA MarkZero ==
  ASSUME FeedTypeOK, UNCHANGED store
  PROVE  Mark(0) /\ Mark(0)'
<1>1. Stored' = Stored /\ \A k \in Stored : ~(k <= 0)
  BY StoredStates, StoredStays
<1>2. QED BY <1>1 DEF Mark

LEMMA MarksStay ==
  ASSUME FeedTypeOK, Marks, Grows, UNCHANGED store, NEW r, Mark(r)', Cursors' \subseteq Cursors \cup {r}
  PROVE  Marks'
<1>1. Stored' = Stored /\ Stored \subseteq Keys
  BY StoredStates, StoredStays
<1>2. \A c : Mark(c) => Mark(c)'
  BY <1>1, HaveStays DEF Mark
<1>3. QED BY <1>2 DEF Marks

LEMMA LineStays ==
  ASSUME FeedTypeOK, InLine, UNCHANGED store, putting' \subseteq putting
  PROVE  InLine'
<1>1. Stored' = Stored
  BY StoredStays
<1>2. QED BY <1>1 DEF InLine

LEMMA PageStays ==
  ASSUME FeedTypeOK, PageInLine, Grows, UNCHANGED store, pull'.page \in {pull.page, {}}
  PROVE  PageInLine'
<1>1. Stored' = Stored /\ Stored \subseteq Keys
  BY StoredStates, StoredStays
<1>2. QED BY <1>1, HaveStays DEF PageInLine

LEMMA WireStays ==
  ASSUME FeedTypeOK, NEW y \in Conns, WireInLine(y), UNCHANGED store, Grows,
         conn'[y].wire = conn[y].wire, conn'[y].told \subseteq conn[y].told
  PROVE  WireInLine(y)'
<1>1. Stored' = Stored /\ Stored \subseteq Keys /\ conn[y].told \subseteq Keys
  BY StoredStates, StoredStays, RequestFields DEF FeedTypeOK
<1>2. \A k : OnWire(y, k)' <=> OnWire(y, k)
  BY DEF OnWire
<1>3. QED BY <1>1, <1>2, HaveStays DEF WireInLine

LEMMA BufStays ==
  ASSUME NEW y \in Conns, BufInLine(y), conn'[y].buf = conn[y].buf, putting' \subseteq putting
  PROVE  BufInLine(y)'
BY DEF BufInLine

LEMMA BacklogStays ==
  ASSUME NEW y \in Conns, BacklogInLine(y), UNCHANGED store, conn'[y].state = conn[y].state,
         conn'[y].start = conn[y].start, conn'[y].since = conn[y].since,
         conn'[y].todo = conn[y].todo, conn[y].told \subseteq conn'[y].told
  PROVE  BacklogInLine(y)'
<1>1. Stored' = Stored
  BY StoredStays
<1>2. QED BY <1>1 DEF BacklogInLine

LEMMA RequestStays ==
  ASSUME FeedTypeOK, NEW y \in Conns, RequestInLine(y), UNCHANGED store, conn'[y] = conn[y],
         putting' \subseteq putting, Grows, y \in reading' => y \in reading
  PROVE  RequestInLine(y)'
<1>1. BacklogInLine(y)'
  BY BacklogStays DEF RequestInLine
<1>2. BufInLine(y)'
  BY BufStays DEF RequestInLine
<1>3. y \in reading' => WireInLine(y)'
  BY WireStays DEF RequestInLine
<1>4. QED BY <1>1, <1>2, <1>3 DEF RequestInLine

(* A step that puts no row and takes no cursor further. *)
LEMMA OrderedStays ==
  ASSUME FeedTypeOK, Ordered, UNCHANGED store, inOrder' = inOrder, putting' \subseteq putting, Grows,
         Cursors' \subseteq Cursors \cup {0}, pull'.page \in {pull.page, {}},
         inOrder => \A x \in Conns : RequestInLine(x)'
  PROVE  Ordered'
<1> SUFFICES ASSUME inOrder PROVE InLine' /\ Marks' /\ PageInLine' /\ \A x \in Conns : RequestInLine(x)'
  BY DEF Ordered
<1>1. InLine /\ Marks /\ PageInLine
  BY DEF Ordered
<1>2. Marks'
  BY <1>1, MarkZero, MarksStay
<1>3. QED BY <1>1, <1>2, LineStays, PageStays

(* The same, of a step that changes no request. *)
LEMMA OrderedSame ==
  ASSUME FeedTypeOK, Ordered, UNCHANGED <<store, putting, conn, inOrder>>, Grows,
         {cursor', moved', pull'.cursor} \subseteq {cursor, moved, pull.cursor, 0},
         pull'.page \in {pull.page, {}}, reading' \subseteq reading
  PROVE  Ordered'
<1>1. Cursors' \subseteq Cursors \cup {0}
  BY DEF Cursors
<1>2. inOrder => \A x \in Conns : RequestInLine(x)'
  BY RequestStays DEF Ordered
<1>3. QED BY <1>1, <1>2, OrderedStays

(* And of a step of the server about one request. *)
LEMMA OrderedServer ==
  ASSUME FeedTypeOK, Ordered, NEW x \in Conns, Others(x),
         UNCHANGED <<store, putting, moved, cursor, local, pull, dropped, missed, inOrder>>,
         conn'[x].start \in {conn[x].start, cursor, 0}, reading' \subseteq reading \cup {x},
         inOrder => RequestInLine(x)'
  PROVE  Ordered'
<1>1. Cursors' \subseteq Cursors \cup {0}
  <2>1. \A y \in Conns : conn'[y].start \in Cursors \cup {0}
    BY DEF Cursors, Others
  <2>2. QED BY <2>1 DEF Cursors
<1>2. Grows
  BY GrowsNot
<1>3. ASSUME inOrder, NEW y \in Conns PROVE RequestInLine(y)'
  <2>1. CASE y # x
    <3>1. conn'[y] = conn[y] /\ RequestInLine(y) /\ (y \in reading' => y \in reading)
      BY <1>3, <2>1 DEF Others, Ordered
    <3>2. QED BY <1>2, <3>1, RequestStays
  <2>2. QED BY <1>3, <2>1
<1>4. QED BY <1>1, <1>2, <1>3, OrderedStays

LEMMA NewRequestInLine ==
  ASSUME NEW x \in Conns, conn'[x].since \in Stored' \cup {0}, conn'[x].state \in {"free", "dial"},
         conn'[x].buf = <<>>, conn'[x].wire = <<>>, conn'[x].told = {}
  PROVE  RequestInLine(x)'
<1>1. DOMAIN conn'[x].buf = {} /\ DOMAIN conn'[x].wire = {}
  OBVIOUS
<1>2. BacklogInLine(x)'
  BY DEF BacklogInLine
<1>3. BufInLine(x)'
  BY <1>1 DEF BufInLine
<1>4. WireInLine(x)'
  BY <1>1 DEF WireInLine
<1>5. QED BY <1>2, <1>3, <1>4 DEF RequestInLine

LEMMA NoConnInLine ==
  ASSUME NEW x \in Conns, conn'[x] = NoConn
  PROVE  RequestInLine(x)' /\ conn'[x].start = 0
<1>1. /\ conn'[x].since = 0 /\ conn'[x].state = "free" /\ conn'[x].start = 0
      /\ conn'[x].buf = <<>> /\ conn'[x].wire = <<>> /\ conn'[x].told = {}
  BY DEF NoConn
<1>2. QED BY <1>1, NewRequestInLine

(* A row is written to the connection: what comes before it is ahead of it. *)
LEMMA WireGrows ==
  ASSUME FeedTypeOK, NEW x \in Conns, WireInLine(x), NEW row \in Row, UNCHANGED <<store, local, dropped, missed>>,
         conn'[x].wire = Append(conn[x].wire, row), conn'[x].told \subseteq conn[x].told \cup {row.key},
         \A k \in Stored : k < row.key => Have(k) \/ OnWire(x, k)
  PROVE  WireInLine(x)'
<1>1. conn[x].wire \in Seq(Row)
  BY RequestFields DEF FeedTypeOK
<1> DEFINE n == Len(conn[x].wire)
<1>2. /\ n \in Nat /\ DOMAIN conn[x].wire = 1..n /\ DOMAIN conn'[x].wire = 1..(n + 1)
      /\ \A i \in 1..n : conn'[x].wire[i] = conn[x].wire[i]
      /\ conn'[x].wire[n + 1] = row
  BY <1>1, AppendRow
<1>3. Stored' = Stored /\ \A k : Have(k)' <=> Have(k)
  BY StoredStays DEF Have, Lost
<1>4. ASSUME NEW k, OnWire(x, k) PROVE OnWire(x, k)' /\ \E j \in 1..n : conn'[x].wire[j].key = k
  <2>1. PICK j \in 1..n : conn[x].wire[j].key = k
    BY <1>2, <1>4 DEF OnWire
  <2>2. j \in DOMAIN conn'[x].wire /\ conn'[x].wire[j].key = k
    BY <1>2, <2>1
  <2>3. QED BY <2>2 DEF OnWire
<1>5. OnWire(x, row.key)'
  BY <1>2 DEF OnWire
<1>6. \A k \in conn'[x].told : Have(k)' \/ OnWire(x, k)'
  BY <1>3, <1>4, <1>5 DEF WireInLine
<1>7. ASSUME NEW i \in 1..(n + 1), NEW k \in Stored, k < conn'[x].wire[i].key
      PROVE  Have(k) \/ \E j \in 1..(i - 1) : conn'[x].wire[j].key = k
  <2>1. CASE i = n + 1
    <3>1. Have(k) \/ OnWire(x, k)
      BY <1>2, <1>7, <2>1
    <3>2. i - 1 = n
      BY <1>2, <2>1
    <3>3. QED BY <1>4, <3>1, <3>2
  <2>2. CASE i # n + 1
    <3>1. i \in 1..n /\ k < conn[x].wire[i].key
      BY <1>2, <1>7, <2>2
    <3>2. CASE Have(k)
      BY <3>2
    <3>3. ASSUME NEW j \in 1..(i - 1), conn[x].wire[j].key = k PROVE \E m \in 1..(i - 1) : conn'[x].wire[m].key = k
      <4>1. j \in 1..n
        BY <1>2, <3>1
      <4>2. QED BY <1>2, <3>3, <4>1
    <3>4. QED BY <1>2, <3>1, <3>2, <3>3 DEF WireInLine
  <2>3. QED BY <2>1, <2>2
<1>8. QED BY <1>2, <1>3, <1>6, <1>7 DEF WireInLine

LEMMA ServerInLine ==
  ASSUME FeedTypeOK, RowsStored, HandedOver, Ordered, NEW x \in Conns, ServerStep(x)
  PROVE  Ordered'
<1>0. /\ conn[x] \in Request /\ conn[x].start \in Nat /\ conn[x].since \in Nat /\ Handed(x)
      /\ conn[x].wire \in Seq(Row) /\ conn[x].buf \in Seq(Row) /\ conn[x].todo \subseteq Stored
  BY RequestFields DEF FeedTypeOK, HandedOver, RowsStored, RequestStored
<1>00. Stored \subseteq Keys /\ Stored \subseteq Nat
  BY StoredStates
<1>000. inOrder => /\ RequestInLine(x) /\ BacklogInLine(x) /\ BufInLine(x)
                   /\ x \in reading => WireInLine(x)
                   /\ \A k \in Stored : k <= conn[x].start => Have(k)
  BY DEF Ordered, RequestInLine, Marks, Mark, Cursors
<1>1. CASE Accept(x)
  <2>1. /\ conn'[x].state = "open" /\ Others(x) /\ UNCHANGED <<store, putting, client, pull, dropped, missed, inOrder>>
        /\ conn'[x].start = conn[x].start /\ conn'[x].since = conn[x].since
        /\ conn'[x].buf = conn[x].buf /\ conn'[x].wire = conn[x].wire /\ conn'[x].told = conn[x].told
    BY <1>1, AcceptDoes DEF KeepsRange, KeepsQueues, KeepsTold
  <2>2. UNCHANGED <<reading, moved, cursor, local>> /\ Grows
    BY <2>1, GrowsNot DEF client
  <2>3. ASSUME inOrder PROVE RequestInLine(x)'
    <3>1. BacklogInLine(x)'
      BY <1>000, <2>1, <2>3, StoredStays DEF BacklogInLine
    <3>2. QED BY <1>000, <2>1, <2>2, <2>3, <3>1, BufStays, WireStays DEF RequestInLine
  <2>4. QED BY <2>1, <2>2, <2>3, OrderedServer
<1>2. CASE Reject(x)
  BY <1>2, RejectDoes, NoConnInLine, OrderedServer
<1>3. CASE Subscribe(x)
  <2>0. conn[x].start \in Nat /\ conn[x].since = conn[x].start
    BY <1>0, <1>3, SubscribeDoes DEF Handed
  <2>1. /\ conn'[x].state = "sub" /\ Others(x) /\ UNCHANGED server
        /\ conn'[x].start = conn[x].start /\ conn'[x].since = conn[x].since /\ conn[x].since = conn[x].start
        /\ conn'[x].buf = conn[x].buf /\ conn'[x].wire = conn[x].wire /\ conn'[x].told = conn[x].told
    BY <1>0, <1>3, SubscribeDoes DEF KeepsRange, KeepsQueues, KeepsTold, Handed
  <2>2. UNCHANGED <<store, putting, reading, moved, cursor, local, pull, dropped, missed, inOrder>> /\ Grows
    BY <2>1, GrowsNot DEF client, server
  <2>3. ASSUME inOrder PROVE RequestInLine(x)'
    <3>1. \A k \in Stored : ~(conn[x].start < k /\ k <= conn[x].since)
      BY <1>00, <2>0
    <3>2. BacklogInLine(x)'
      BY <1>000, <2>1, <2>2, <2>3, <3>1, StoredStays DEF BacklogInLine
    <3>3. QED BY <1>000, <2>1, <2>2, <2>3, <3>2, BufStays, WireStays DEF RequestInLine
  <2>4. QED BY <2>1, <2>2, <2>3, OrderedServer
<1>4. CASE ListBacklog(x)
  <2>1. /\ conn[x].state = "sub" /\ conn'[x].state = "backlog" /\ Others(x) /\ UNCHANGED server
        /\ conn'[x].start = conn[x].start /\ conn'[x].since = conn[x].since
        /\ conn'[x].todo = Page(conn[x].since)
        /\ conn'[x].buf = conn[x].buf /\ conn'[x].wire = conn[x].wire /\ conn'[x].told = conn[x].told
    BY <1>4, ListBacklogDoes DEF KeepsRange, KeepsQueues, KeepsTold
  <2>2. UNCHANGED <<store, putting, reading, moved, cursor, local, pull, dropped, missed, inOrder>> /\ Grows
    BY <2>1, GrowsNot DEF client, server
  <2>3. ASSUME NEW k \in Stored, conn[x].since < k
        PROVE  k \in Page(conn[x].since) \/ \A j \in Page(conn[x].since) : j < k
    <3>1. k \in After(conn[x].since)
      BY <1>0, <1>00, <2>3 DEF After, Stored
    <3>2. QED BY <1>0, <3>1, PageIsFirst
  <2>4. ASSUME inOrder PROVE RequestInLine(x)'
    <3>1. BacklogInLine(x)'
      BY <1>000, <2>1, <2>2, <2>3, <2>4, StoredStays DEF BacklogInLine
    <3>2. QED BY <1>000, <2>1, <2>2, <2>4, <3>1, BufStays, WireStays DEF RequestInLine
  <2>5. QED BY <2>1, <2>2, <2>4, OrderedServer
<1>5. ASSUME NEW k \in conn[x].todo, BacklogRow(x, k) PROVE Ordered'
  <2>1. /\ conn[x].state = "backlog" /\ conn'[x].state = "backlog" /\ Others(x) /\ UNCHANGED server
        /\ conn'[x].start = conn[x].start /\ conn'[x].since = k
        /\ conn'[x].todo = conn[x].todo \ {k}
        /\ conn'[x].buf = conn[x].buf /\ conn'[x].wire = Append(conn[x].wire, Current(k))
        /\ conn'[x].told = conn[x].told \cup {k}
    BY <1>5, BacklogRowDoes
  <2>2. UNCHANGED <<store, putting, reading, moved, cursor, local, pull, dropped, missed, inOrder>>
    BY <2>1 DEF client, server
  <2>3. /\ k \in Stored /\ k \in Nat /\ \A j \in conn[x].todo : k <= j
        /\ conn[x].since < k
    BY <1>0, <1>00, <1>5, <2>1, BacklogRowDoes DEF First, Handed
  <2>4. ASSUME inOrder, NEW j \in Stored, conn[x].start < j, j < k PROVE j \in conn[x].told
    <3>1. CASE j <= conn[x].since
      BY <1>000, <2>1, <2>4, <3>1 DEF BacklogInLine
    <3>2. CASE conn[x].since < j
      BY <1>00, <1>000, <2>1, <2>3, <2>4, <3>2 DEF BacklogInLine
    <3>3. QED BY <1>0, <1>00, <3>1, <3>2
  <2>5. ASSUME inOrder PROVE RequestInLine(x)'
    <3>1. \A j \in Stored : conn[x].start < j /\ j <= k => j \in conn'[x].told
      BY <1>00, <2>1, <2>3, <2>4, <2>5
    <3>2. ASSUME NEW j \in Stored, k < j PROVE j \in conn'[x].todo \/ \A i \in conn'[x].todo : i < j
      <4>1. conn[x].since < j /\ j # k
        BY <1>0, <1>00, <2>3, <3>2
      <4>2. QED BY <1>000, <2>1, <2>5, <4>1 DEF BacklogInLine
    <3>3. BacklogInLine(x)'
      BY <2>1, <2>2, <2>3, <3>1, <3>2, StoredStays DEF BacklogInLine
    <3>4. BufInLine(x)'
      BY <1>000, <2>1, <2>2, <2>5, BufStays
    <3>5. ASSUME x \in reading PROVE WireInLine(x)'
      <4>1. WireInLine(x) /\ Current(k) \in Row /\ Current(k).key = k
        BY <1>000, <2>3, <2>5, <3>5, StoredStates
      <4>2. ASSUME NEW j \in Stored, j < k PROVE Have(j) \/ OnWire(x, j)
        <5>1. CASE j <= conn[x].start
          BY <1>000, <2>5, <5>1
        <5>2. CASE conn[x].start < j
          BY <2>4, <2>5, <4>1, <4>2, <5>2 DEF WireInLine
        <5>3. QED BY <1>0, <1>00, <5>1, <5>2
      <4>3. QED BY <2>1, <2>2, <4>1, <4>2, WireGrows
    <3>6. QED BY <2>2, <3>3, <3>4, <3>5 DEF RequestInLine
  <2>6. QED BY <2>1, <2>2, <2>5, OrderedServer
<1>6. CASE BacklogPage(x)
  <2>1. /\ conn[x].state = "backlog" /\ Others(x) /\ UNCHANGED server
        /\ conn'[x].start = conn[x].start
        /\ conn'[x].buf = conn[x].buf /\ conn'[x].wire = conn[x].wire /\ conn'[x].told = conn[x].told
    BY <1>6, BacklogPageDoes DEF KeepsQueues, KeepsTold
  <2>2. \/ conn'[x].state = "sub" /\ conn'[x].since = conn[x].since
        \/ conn'[x].state = "live" /\ conn'[x].since = 0
    BY <1>6, BacklogPageDoes
  <2>3. UNCHANGED <<store, putting, reading, moved, cursor, local, pull, dropped, missed, inOrder>> /\ Grows
    BY <2>1, GrowsNot DEF client, server
  <2>4. ASSUME inOrder PROVE RequestInLine(x)'
    <3>1. BacklogInLine(x)'
      BY <1>000, <2>1, <2>2, <2>3, <2>4, StoredStays DEF BacklogInLine
    <3>2. QED BY <1>000, <2>1, <2>3, <2>4, <3>1, BufStays, WireStays DEF RequestInLine
  <2>5. QED BY <2>1, <2>3, <2>4, OrderedServer
<1>7. CASE LiveRow(x)
  <2> DEFINE row == Head(conn[x].buf)
  <2>1. /\ conn[x].state = "live" /\ conn'[x].state = "live" /\ conn[x].buf # <<>> /\ Others(x) /\ UNCHANGED server
        /\ conn'[x].start = conn[x].start /\ conn'[x].since = conn[x].since
        /\ conn'[x].buf = Tail(conn[x].buf) /\ conn'[x].wire = Append(conn[x].wire, row)
        /\ conn'[x].told \subseteq conn[x].told \cup {row.key}
    BY <1>7, LiveRowDoes DEF KeepsRange
  <2>2. UNCHANGED <<store, putting, reading, moved, cursor, local, pull, dropped, missed, inOrder>>
    BY <2>1 DEF client, server
  <2>3. /\ row \in Row /\ row = conn[x].buf[1] /\ 1 \in DOMAIN conn[x].buf
        /\ \A i \in DOMAIN conn'[x].buf : i + 1 \in DOMAIN conn[x].buf /\ conn'[x].buf[i] = conn[x].buf[i + 1]
    BY <1>0, <2>1, HeadRow
  <2>4. /\ row.key \in Nat /\ DOMAIN conn'[x].buf \subseteq Nat
        /\ \A i \in DOMAIN conn[x].buf : i \in Nat /\ i >= 1
    <3>1. row.key \in Nat
      BY <1>0, <2>1, HeadRow, FeedAssumption
    <3>2. Tail(conn[x].buf) \in Seq(Row)
      BY <1>0, <2>1, HeadRow
    <3>3. QED BY <1>0, <2>1, <3>1, <3>2
  <2> HIDE DEF row
  <2>5. ASSUME inOrder PROVE RequestInLine(x)'
    <3>1. BacklogInLine(x)'
      BY <1>000, <2>1, <2>2, <2>5, StoredStays DEF BacklogInLine
    <3>2. BufInLine(x)'
      <4>1. ASSUME NEW i \in DOMAIN conn'[x].buf, NEW j \in DOMAIN conn'[x].buf, i < j
            PROVE  conn'[x].buf[i].key < conn'[x].buf[j].key
        <5>1. i + 1 < j + 1
          BY <2>4, <4>1
        <5>2. QED BY <1>000, <2>3, <2>5, <5>1 DEF BufInLine
      <4>2. ASSUME NEW i \in DOMAIN conn'[x].buf, NEW r \in putting PROVE conn'[x].buf[i].key < r.key
        BY <1>000, <2>3, <2>5 DEF BufInLine
      <4>3. QED BY <2>2, <4>1, <4>2 DEF BufInLine
    <3>3. ASSUME x \in reading PROVE WireInLine(x)'
      <4>1. WireInLine(x)
        BY <1>000, <2>5, <3>3
      <4>2. ASSUME NEW j \in Stored, j < row.key PROVE Have(j) \/ OnWire(x, j)
        <5>0. j \in Nat /\ Current(j).key = j
          BY <1>00, StoredStates
        <5>1. CASE j <= conn[x].start
          BY <1>000, <2>5, <5>1
        <5>2. CASE conn[x].start < j
          <6>1. j \in After(conn[x].start)
            BY <1>0, <1>00, <5>0, <5>2 DEF After, Stored
          <6>2. Served(x, j)
            BY <1>0, <2>1, <6>1 DEF Handed, Subscribed, Pending
          <6>3. CASE j \in conn[x].told
            BY <4>1, <6>3 DEF WireInLine
          <6>4. ~(Current(j) \in putting)
            BY <1>000, <2>3, <2>4, <2>5, <4>2, <5>0 DEF BufInLine
          <6>5. ASSUME NEW i \in DOMAIN conn[x].buf PROVE conn[x].buf[i] # Current(j)
            <7>1. CASE i = 1
              BY <2>3, <2>4, <4>2, <5>0, <7>1
            <7>2. CASE 1 < i
              <8>1. row.key < conn[x].buf[i].key
                BY <1>000, <2>3, <2>5, <7>2 DEF BufInLine
              <8>2. QED BY <2>3, <2>4, <4>2, <5>0, <8>1
            <7>3. QED BY <2>4, <7>1, <7>2
          <6>6. QED BY <6>2, <6>3, <6>4, <6>5 DEF Served
        <5>3. QED BY <1>0, <5>0, <5>1, <5>2
      <4>3. QED BY <2>1, <2>2, <2>3, <4>1, <4>2, WireGrows
    <3>4. QED BY <2>2, <3>1, <3>2, <3>3 DEF RequestInLine
  <2>6. QED BY <2>1, <2>2, <2>5, OrderedServer
<1>8. CASE Hangup(x)
  <2>1. UNCHANGED <<store, putting, reading, moved, cursor, local, pull, dropped, missed, inOrder>>
    BY <1>8, HangupDoes DEF client
  <2>2. QED BY <1>8, <2>1, HangupDoes, NoConnInLine, OrderedServer
<1>9. QED BY <1>1, <1>2, <1>3, <1>4, <1>5, <1>6, <1>7, <1>8 DEF ServerStep

(* A row that is ingested is in the tables, one that cannot be is there       *)
(* already or was lost with its scope, and one that fails is lost.            *)
LEMMA IngestHas ==
  ASSUME FeedTypeOK, InLine, NEW row \in Row, StoredRow(row), UNCHANGED <<store, dropped>>,
         missed \subseteq missed',
         \A k \in Stored : k < row.key => Have(k),
         \/ /\ Ingestible(row.key) /\ local'[row.key] = row.version
            /\ \A k \in Keys : k # row.key => local'[k] = local[k]
         \/ local' = local /\ (~Ingestible(row.key) \/ row.key \in missed')
  PROVE  Grows /\ Have(row.key)' /\ Mark(row.key)'
<1> DEFINE r == row.key
<1>0. /\ r \in Keys /\ r \in Nat /\ r \in Stored /\ row.version # 0
      /\ Stored \subseteq Keys /\ Stored \subseteq Nat /\ Stored' = Stored
  BY FeedAssumption, StoredStates, StoredStays DEF Row, StoredRow
<1>1. Grows
  BY <1>0 DEF Grows
<1>2. Have(r)'
  <2>1. CASE local'[r] = row.version
    BY <1>0, <2>1 DEF Have
  <2>0. CASE r \in missed'
    BY <2>0 DEF Have, Lost
  <2>2. CASE ~Ingestible(r) /\ local' = local
    <3>1. CASE r \in Learnings /\ local[r] # 0
      BY <2>2, <3>1 DEF Have
    <3>2. CASE r \notin Scopes /\ local[ScopeOf[r]] = 0
      <4> DEFINE s == ScopeOf[r]
      <4>1. s \in Scopes /\ ScopeOf[s] = s /\ s <= r /\ s \in Stored
        BY <1>0, FeedAssumption DEF InLine
      <4>2. s \in Nat /\ s < r
        <5>1. s # r /\ s \in Nat
          BY <1>0, <3>2, <4>1
        <5> HIDE DEF s
        <5>2. QED BY <1>0, <4>1, <5>1
      <4>3. Have(s)
        BY <4>1, <4>2
      <4>4. s \in dropped \cup missed
        BY <3>2, <4>1, <4>3 DEF Have, Lost
      <4>5. QED BY <4>4 DEF Have, Lost
    <3>3. QED BY <2>2, <3>1, <3>2 DEF Ingestible
  <2>3. QED BY <2>0, <2>1, <2>2
<1>3. \A k \in Stored : k <= r => Have(k)'
  BY <1>0, <1>1, <1>2, HaveStays
<1>4. Mark(r)'
  BY <1>0, <1>3 DEF Mark
<1>5. QED BY <1>1, <1>2, <1>4

(* The reader takes the first row off the connection. *)
LEMMA WireShrinks ==
  ASSUME FeedTypeOK, NEW x \in Conns, WireInLine(x), conn[x].wire # <<>>, UNCHANGED store, Grows,
         conn'[x].wire = Tail(conn[x].wire), conn'[x].told = conn[x].told,
         NEW row, row = Head(conn[x].wire), Have(row.key)'
  PROVE  WireInLine(x)'
<1> DEFINE w == conn[x].wire
<1>0. /\ w \in Seq(Row) /\ conn[x].told \subseteq Keys /\ Stored \subseteq Keys /\ Stored' = Stored
  BY RequestFields, StoredStates, StoredStays DEF FeedTypeOK
<1>1. /\ row = w[1]
      /\ \A i \in DOMAIN conn'[x].wire : i + 1 \in DOMAIN w /\ conn'[x].wire[i] = w[i + 1]
      /\ \A i \in DOMAIN w : i > 1 => i - 1 \in DOMAIN conn'[x].wire /\ conn'[x].wire[i - 1] = w[i]
  BY <1>0, HeadRow
<1>2. /\ \A i \in DOMAIN w : i \in Nat /\ i >= 1
      /\ \A i \in DOMAIN w : \A j \in 1..(i - 1) : j \in DOMAIN w
      /\ DOMAIN conn'[x].wire \subseteq Nat
  <2>1. Tail(w) \in Seq(Row)
    BY <1>0, HeadRow
  <2>2. QED BY <1>0, <2>1
<1>3. ASSUME NEW k \in conn[x].told PROVE Have(k)' \/ OnWire(x, k)'
  <2>1. CASE Have(k)
    BY <1>0, <2>1, HaveStays
  <2>2. ASSUME NEW i \in DOMAIN w, w[i].key = k PROVE Have(k)' \/ OnWire(x, k)'
    <3>1. CASE i = 1
      BY <1>1, <2>2, <3>1
    <3>2. CASE i > 1
      BY <1>1, <2>2, <3>2 DEF OnWire
    <3>3. QED BY <1>2, <3>1, <3>2
  <2>3. QED BY <2>1, <2>2 DEF WireInLine, OnWire
<1>4. ASSUME NEW i \in DOMAIN conn'[x].wire, NEW k \in Stored, k < conn'[x].wire[i].key
      PROVE  Have(k)' \/ \E j \in 1..(i - 1) : conn'[x].wire[j].key = k
  <2>1. i + 1 \in DOMAIN w /\ k < w[i + 1].key /\ i \in Nat
    BY <1>1, <1>2, <1>4
  <2>2. CASE Have(k)
    BY <1>0, <2>2, HaveStays
  <2>3. ASSUME NEW j \in 1..((i + 1) - 1), w[j].key = k
        PROVE  Have(k)' \/ \E m \in 1..(i - 1) : conn'[x].wire[m].key = k
    <3>1. j \in DOMAIN w
      BY <1>2, <2>1
    <3>2. CASE j = 1
      BY <1>1, <2>3, <3>2
    <3>3. CASE j > 1
      <4>1. j - 1 \in 1..(i - 1)
        BY <2>1, <3>3
      <4>2. QED BY <1>1, <2>3, <3>1, <3>3, <4>1
    <3>4. QED BY <2>1, <3>2, <3>3
  <2>4. QED BY <2>1, <2>2, <2>3 DEF WireInLine
<1>5. QED BY <1>0, <1>3, <1>4 DEF WireInLine

LEMMA StreamInLine ==
  ASSUME FeedTypeOK, RowsStored, Ordered, NEW x \in Conns, StreamRow(x)
  PROVE  Ordered'
<1>0. inOrder' = inOrder
  BY StreamRowDoes
<1> SUFFICES ASSUME inOrder PROVE InLine' /\ Marks' /\ PageInLine' /\ \A y \in Conns : RequestInLine(y)'
  BY <1>0 DEF Ordered
<1>1. InLine /\ Marks /\ PageInLine /\ \A y \in Conns : RequestInLine(y)
  BY DEF Ordered
<1>2. PICK row : row = Head(conn[x].wire)
  OBVIOUS
<1>3. /\ reading = {x} /\ conn[x].wire # <<>> /\ Others(x)
      /\ conn'[x].state = conn[x].state /\ conn'[x].start = conn[x].start /\ conn'[x].since = conn[x].since
      /\ conn'[x].todo = conn[x].todo /\ conn'[x].told = conn[x].told /\ conn'[x].buf = conn[x].buf
      /\ conn'[x].wire = Tail(conn[x].wire)
      /\ UNCHANGED <<store, putting, reading, cursor, pull, dropped>> /\ missed \subseteq missed'
  BY StreamRowDoes DEF KeepsRange, KeepsBacklog, KeepsTold
<1>4. conn[x].wire \in Seq(Row) /\ row \in Row /\ row = conn[x].wire[1] /\ 1 \in DOMAIN conn[x].wire
  BY <1>2, <1>3, RequestFields, HeadRow DEF FeedTypeOK
<1>5. StoredRow(row) /\ WireInLine(x)
  BY <1>1, <1>3, <1>4 DEF RowsStored, RequestStored, RequestInLine
<1>6. \A k \in Stored : k < row.key => Have(k)
  BY <1>4, <1>5 DEF WireInLine
<1>7. \/ /\ Ingestible(row.key) /\ moved' = row.key /\ local'[row.key] = row.version
         /\ \A k \in Keys : k # row.key => local'[k] = local[k]
      \/ moved' = moved /\ local' = local /\ (~Ingestible(row.key) \/ row.key \in missed')
  BY <1>2, StreamRowTables
<1>8. Grows /\ Have(row.key)' /\ Mark(row.key)'
  BY <1>1, <1>3, <1>4, <1>5, <1>6, <1>7, IngestHas
<1>9. Marks'
  <2>1. \A y \in Conns : conn'[y].start = conn[y].start
    BY <1>3 DEF Others
  <2>2. Cursors' \subseteq Cursors \cup {row.key}
    BY <1>3, <1>7, <2>1 DEF Cursors
  <2>3. QED BY <1>1, <1>3, <1>8, <2>2, MarksStay
<1>10. RequestInLine(x)'
  <2>1. WireInLine(x)'
    BY <1>2, <1>3, <1>5, <1>8, WireShrinks
  <2>2. BacklogInLine(x)'
    BY <1>1, <1>3, BacklogStays DEF RequestInLine
  <2>3. BufInLine(x)'
    BY <1>1, <1>3, BufStays DEF RequestInLine
  <2>4. QED BY <2>1, <2>2, <2>3 DEF RequestInLine
<1>11. ASSUME NEW y \in Conns, y # x PROVE RequestInLine(y)'
  BY <1>1, <1>3, <1>8, <1>11, RequestStays DEF Others
<1>12. InLine' /\ PageInLine'
  BY <1>1, <1>3, <1>8, LineStays, PageStays
<1>13. QED BY <1>9, <1>10, <1>11, <1>12

LEMMA PullRowInLine ==
  ASSUME FeedTypeOK, RowsStored, Ordered, NEW row \in pull.page, PullRow(row)
  PROVE  Ordered'
<1>0. inOrder' = inOrder
  BY PullRowDoes
<1> SUFFICES ASSUME inOrder PROVE InLine' /\ Marks' /\ PageInLine' /\ \A y \in Conns : RequestInLine(y)'
  BY <1>0 DEF Ordered
<1>1. InLine /\ Marks /\ PageInLine /\ \A y \in Conns : RequestInLine(y)
  BY DEF Ordered
<1>2. /\ row \in Row /\ row.key \in Nat /\ \A r \in pull.page : row.key <= r.key
      /\ pull'.page = pull.page \ {row}
      /\ UNCHANGED <<store, putting, conn, reading, moved, cursor, dropped>> /\ missed \subseteq missed'
  BY PullRowDoes
<1>3. \/ /\ Ingestible(row.key) /\ pull'.cursor = row.key /\ local'[row.key] = row.version
         /\ \A k \in Keys : k # row.key => local'[k] = local[k]
      \/ /\ pull'.cursor = pull.cursor /\ local' = local
         /\ ~Ingestible(row.key) \/ row.key \in missed'
  BY PullRowDoes
<1>4. StoredRow(row) /\ Stored \subseteq Nat /\ Stored \subseteq Keys /\ Stored' = Stored
  BY <1>2, StoredStates, StoredStays DEF RowsStored
<1>5. ASSUME NEW k \in Stored, k < row.key PROVE Have(k)
  <2>1. ASSUME NEW r \in pull.page, r.key = k PROVE FALSE
    <3>1. k \in Nat /\ row.key <= k
      BY <1>2, <1>4, <2>1
    <3>2. QED BY <1>2, <1>5, <3>1
  <2>2. QED BY <1>1, <1>5, <2>1 DEF PageInLine
<1>6. Grows /\ Have(row.key)' /\ Mark(row.key)'
  BY <1>1, <1>2, <1>3, <1>4, <1>5, IngestHas
<1>7. Marks'
  <2>1. Cursors' \subseteq Cursors \cup {row.key}
    BY <1>2, <1>3 DEF Cursors
  <2>2. QED BY <1>1, <1>2, <1>6, <2>1, MarksStay
<1>8. PageInLine'
  <2> SUFFICES ASSUME NEW p \in pull'.page, NEW k \in Stored, k < p.key
               PROVE  Have(k)' \/ \E r \in pull'.page : r.key = k
    BY <1>4 DEF PageInLine
  <2>1. CASE Have(k)
    BY <1>4, <1>6, <2>1, HaveStays
  <2>2. ASSUME NEW r \in pull.page, r.key = k PROVE Have(k)' \/ \E q \in pull'.page : q.key = k
    BY <1>2, <1>6, <2>2
  <2>3. QED BY <1>1, <1>2, <2>1, <2>2 DEF PageInLine
<1>9. \A y \in Conns : RequestInLine(y)'
  BY <1>1, <1>2, <1>6, RequestStays
<1>10. InLine'
  BY <1>1, <1>2, LineStays
<1>11. QED BY <1>7, <1>8, <1>9, <1>10

LEMMA PullListInLine ==
  ASSUME FeedTypeOK, RowsStored, Ordered, PullList
  PROVE  Ordered'
<1>0. /\ UNCHANGED <<store, putting, conn, dropped, missed, inOrder, reading, moved, cursor, local>>
      /\ Grows
  BY PullListDoes, GrowsNot DEF client
<1>1. CASE pull' = NoPull
  BY <1>0, <1>1, PullStops, OrderedSame
<1>2. CASE pull'.cursor = pull.cursor /\ pull'.page = {Current(k) : k \in Page(pull.cursor)}
  <2> SUFFICES ASSUME inOrder PROVE InLine' /\ Marks' /\ PageInLine' /\ \A y \in Conns : RequestInLine(y)'
    BY <1>0 DEF Ordered
  <2>1. InLine /\ Marks /\ \A y \in Conns : RequestInLine(y)
    BY DEF Ordered
  <2>2. Marks'
    <3>1. Cursors' \subseteq Cursors \cup {0}
      BY <1>0, <1>2 DEF Cursors
    <3>2. QED BY <1>0, <2>1, <3>1, MarkZero, MarksStay
  <2>3. InLine' /\ \A y \in Conns : RequestInLine(y)'
    BY <1>0, <2>1, LineStays, RequestStays
  <2>4. pull.cursor \in Nat /\ Stored \subseteq Keys /\ Stored \subseteq Nat /\ Stored' = Stored
    BY <1>0, StoredStates, StoredStays DEF FeedTypeOK, PullRun
  <2>5. PageInLine'
    <3> SUFFICES ASSUME NEW p \in Page(pull.cursor), NEW k \in Stored, k < p
                 PROVE  Have(k)' \/ k \in Page(pull.cursor)
      <4>1. \A c : Current(c).key = c
        BY DEF Current
      <4> HIDE DEF Current
      <4>2. \A row \in pull'.page : row.key \in Page(pull.cursor)
        BY <1>2, <4>1
      <4>3. \A c \in Page(pull.cursor) : \E r \in pull'.page : r.key = c
        BY <1>2, <4>1
      <4>4. QED BY <2>4, <4>2, <4>3 DEF PageInLine
    <3>1. CASE k <= pull.cursor
      <4>1. Have(k)
        BY <2>1, <3>1 DEF Marks, Mark, Cursors
      <4>2. QED BY <1>0, <2>4, <4>1, HaveStays
    <3>2. CASE pull.cursor < k
      <4>1. k \in After(pull.cursor) /\ p \in Nat
        BY <2>4, <3>2, PageOfKeys DEF After, Stored
      <4>2. k \notin Page(pull.cursor) => p < k
        BY <2>4, <4>1, PageIsFirst
      <4>3. QED BY <2>4, <4>1, <4>2
    <3>3. QED BY <2>4, <3>1, <3>2
  <2>6. QED BY <2>2, <2>3, <2>5
<1>3. QED BY <1>1, <1>2, PullListDoes

LEMMA PutInLine ==
  ASSUME FeedTypeOK, RowsStored, Ordered, NEW k \in Keys, Put(k)
  PROVE  Ordered'
<1> SUFFICES ASSUME inOrder' PROVE InLine' /\ Marks' /\ PageInLine' /\ \A y \in Conns : RequestInLine(y)'
  BY DEF Ordered
<1>1. inOrder /\ putting = {} /\ After(k - 1) = {} /\ (k \in Scopes \/ store[ScopeOf[k]] # 0)
  BY PutDoes
<1>2. InLine /\ Marks /\ \A y \in Conns : RequestInLine(y)
  BY <1>1 DEF Ordered
<1>3. /\ Stored' = Stored \cup {k} /\ Stored \subseteq Nat /\ Stored \subseteq Keys /\ k \in Nat /\ k # 0
      /\ putting' = {[key |-> k, version |-> store[k] + 1]}
      /\ UNCHANGED <<client, pull, dropped, missed>>
  BY <1>1, PutStores, StoredStates, PutDoes, FeedAssumption
<1>4. ASSUME NEW j \in Stored PROVE j < k
  <2>1. ~(j > k - 1)
    BY <1>1 DEF After, Stored
  <2>2. QED BY <1>3, <2>1
<1>5. UNCHANGED <<reading, moved, cursor, local>> /\ \A j : Have(j)' <=> Have(j)
  BY <1>3 DEF client, Have, Lost
<1>6. InLine'
  <2>1. ScopeOf[k] \in Stored'
    <3>1. CASE k \in Scopes
      BY <1>3, <3>1, FeedAssumption
    <3>2. CASE store[ScopeOf[k]] # 0
      BY <1>3, <3>2, FeedAssumption DEF Stored, Keys
    <3>3. QED BY <1>1, <3>1, <3>2
  <2>2. \A j \in Stored' : j <= k
    BY <1>3, <1>4
  <2>3. QED BY <1>2, <1>3, <2>1, <2>2 DEF InLine
<1>7. Marks'
  <2>1. \A x \in Conns : conn'[x].start = conn[x].start
    BY PutDoes DEF KeepsRange
  <2>2. Cursors' = Cursors
    BY <1>3, <1>5, <2>1 DEF Cursors
  <2>3. \A c : Mark(c) => Mark(c)'
    <3> SUFFICES ASSUME NEW c, Mark(c) PROVE Mark(c)'
      OBVIOUS
    <3>1. c < k
      BY <1>3, <1>4 DEF Mark
    <3>2. c \in Nat
      BY <1>3 DEF Mark
    <3>3. ~(k <= c)
      BY <1>3, <3>1, <3>2
    <3>4. QED BY <1>3, <1>5, <3>3 DEF Mark
  <2>4. QED BY <1>2, <2>2, <2>3 DEF Marks
<1>8. PageInLine'
  <2> SUFFICES ASSUME NEW p \in pull.page, NEW j \in Stored', j < p.key
               PROVE  Have(j) \/ \E r \in pull.page : r.key = j
    BY <1>3, <1>5 DEF PageInLine
  <2>1. p.key \in Stored /\ p.key < k /\ p.key \in Nat
    BY <1>3, <1>4 DEF RowsStored, StoredRow
  <2>2. j \in Stored
    BY <1>3, <2>1
  <2>3. QED BY <1>1, <2>2 DEF Ordered, PageInLine
<1>9. ASSUME NEW x \in Conns PROVE RequestInLine(x)'
  <2>1. /\ conn'[x].state = conn[x].state /\ conn'[x].start = conn[x].start /\ conn'[x].since = conn[x].since
        /\ conn'[x].todo = conn[x].todo /\ conn'[x].buf = conn[x].buf /\ conn'[x].wire = conn[x].wire
        /\ conn'[x].told = conn[x].told \ {k}
    BY PutDoes DEF KeepsRange, KeepsBacklog, KeepsQueues
  <2>2. RequestStored(x) /\ BacklogInLine(x) /\ BufInLine(x) /\ (x \in reading => WireInLine(x))
    BY <1>2 DEF RequestInLine, RowsStored
  <2>3. BacklogInLine(x)'
    <3>1. conn[x].since \in Nat /\ ~(k <= conn[x].since)
      <4>1. CASE conn[x].since = 0
        BY <1>3, <4>1
      <4>2. CASE conn[x].since \in Stored
        <5>1. conn[x].since < k /\ conn[x].since \in Nat
          BY <1>3, <1>4, <4>2
        <5>2. QED BY <1>3, <5>1
      <4>3. QED BY <2>2, <4>1, <4>2 DEF BacklogInLine
    <3>2. ASSUME conn[x].state \in {"sub", "backlog"}, NEW j \in Stored', conn[x].start < j, j <= conn[x].since
          PROVE  j \in conn'[x].told
      BY <1>3, <1>4, <2>1, <2>2, <3>1, <3>2 DEF BacklogInLine
    <3>3. ASSUME conn[x].state = "backlog", NEW j \in Stored', conn[x].since < j
          PROVE  j \in conn[x].todo \/ \A i \in conn[x].todo : i < j
      <4>1. CASE j = k
        BY <1>4, <2>2, <4>1 DEF RequestStored
      <4>2. CASE j # k
        BY <1>3, <2>2, <3>3, <4>2 DEF BacklogInLine
      <4>3. QED BY <4>1, <4>2
    <3>4. conn'[x].since \in Stored' \cup {0}
      BY <1>3, <2>1, <2>2 DEF BacklogInLine
    <3>5. QED BY <2>1, <3>2, <3>3, <3>4 DEF BacklogInLine
  <2>4. BufInLine(x)'
    <3>1. \A i \in DOMAIN conn[x].buf : conn[x].buf[i].key < k
      BY <1>4, <2>2 DEF RequestStored, StoredRow
    <3>2. QED BY <1>3, <2>1, <2>2, <3>1 DEF BufInLine
  <2>5. ASSUME x \in reading PROVE WireInLine(x)'
    <3>1. \A j : OnWire(x, j)' <=> OnWire(x, j)
      BY <2>1 DEF OnWire
    <3>2. ASSUME NEW i \in DOMAIN conn[x].wire, NEW j \in Stored', j < conn[x].wire[i].key PROVE j \in Stored
      <4>1. conn[x].wire[i].key \in Stored
        BY <2>2 DEF RequestStored, StoredRow
      <4>2. conn[x].wire[i].key < k /\ conn[x].wire[i].key \in Nat
        BY <1>3, <1>4, <4>1
      <4>3. j # k
        BY <1>3, <3>2, <4>2
      <4>4. QED BY <1>3, <4>3
    <3>3. QED BY <1>5, <2>1, <2>2, <2>5, <3>1, <3>2 DEF WireInLine
  <2>6. QED BY <1>5, <2>3, <2>4, <2>5 DEF RequestInLine
<1>10. QED BY <1>6, <1>7, <1>8, <1>9

LEMMA PublishInLine ==
  ASSUME FeedTypeOK, RowsStored, Ordered, NEW row \in putting, Publish(row)
  PROVE  Ordered'
<1>1. /\ row \in Row /\ putting' = putting \ {row} /\ UNCHANGED <<store, client, pull, missed, inOrder>>
      /\ dropped' \in {dropped, dropped \cup {row.key}}
  BY PublishDoes
<1>2. UNCHANGED <<reading, moved, cursor, local>> /\ Grows
  BY <1>1 DEF client, Grows
<1>3. Cursors' \subseteq Cursors \cup {0}
  <2>1. \A x \in Conns : conn'[x].start = conn[x].start
    BY PublishedTo
  <2>2. QED BY <1>1, <1>2, <2>1 DEF Cursors
<1>4. ASSUME inOrder, NEW x \in Conns PROVE RequestInLine(x)'
  <2>1. /\ conn'[x].state = conn[x].state /\ conn'[x].start = conn[x].start /\ conn'[x].since = conn[x].since
        /\ conn'[x].todo = conn[x].todo /\ conn'[x].wire = conn[x].wire
    BY PublishedTo
  <2>2. /\ RequestStored(x) /\ BacklogInLine(x) /\ BufInLine(x) /\ (x \in reading => WireInLine(x))
        /\ putting' = {} /\ conn[x].buf \in Seq(Row) /\ Stored \subseteq Keys /\ Stored' = Stored
        /\ conn[x].told \subseteq Keys
    BY <1>1, <1>4, StoredStates, StoredStays, RequestFields
       DEF Ordered, RequestInLine, InLine, RowsStored, FeedTypeOK
  <2>3. BacklogInLine(x)'
    <3>1. conn[x].told \subseteq conn'[x].told
      BY PublishedTo
    <3>2. QED BY <1>1, <2>1, <2>2, <3>1, BacklogStays
  <2>4. BufInLine(x)'
    <3>1. CASE conn'[x].buf = conn[x].buf
      BY <1>1, <2>2, <3>1, BufStays
    <3>2. CASE conn'[x].buf = Append(conn[x].buf, row)
      <4> DEFINE n == Len(conn[x].buf)
      <4>1. /\ n \in Nat /\ DOMAIN conn[x].buf = 1..n /\ DOMAIN conn'[x].buf = (1..n) \cup {n + 1}
            /\ \A i \in 1..n : conn'[x].buf[i] = conn[x].buf[i]
            /\ conn'[x].buf[n + 1] = row
        BY <1>1, <2>2, <3>2, AppendRow
      <4>2. ASSUME NEW i \in DOMAIN conn'[x].buf, NEW j \in DOMAIN conn'[x].buf, i < j
            PROVE  conn'[x].buf[i].key < conn'[x].buf[j].key
        <5>1. CASE j = n + 1
          <6>1. i \in 1..n
            BY <4>1, <4>2, <5>1
          <6>2. QED BY <2>2, <4>1, <5>1, <6>1 DEF BufInLine
        <5>2. CASE j \in 1..n
          <6>1. i \in 1..n
            BY <4>1, <4>2, <5>2
          <6>2. QED BY <2>2, <4>1, <4>2, <5>2, <6>1 DEF BufInLine
        <5>3. QED BY <4>1, <5>1, <5>2
      <4>3. QED BY <2>2, <4>2 DEF BufInLine
    <3>3. QED BY <3>1, <3>2, PublishedTo
  <2>5. ASSUME x \in reading PROVE WireInLine(x)'
    <3>1. CASE conn'[x].told = conn[x].told
      BY <1>1, <1>2, <2>1, <2>2, <2>5, <3>1, WireStays
    <3>2. CASE Subscribed(x) /\ ~(Len(conn[x].buf) < Buffer) /\ conn'[x].told = conn[x].told \cup {row.key}
      <4>1. Len(conn[x].buf) = Buffer
        BY <2>2, <3>2, FeedAssumption DEF RequestStored
      <4>2. row.key \in dropped'
        BY <3>2, <4>1, PublishDoes
      <4>3. Have(row.key)'
        BY <4>2 DEF Have, Lost
      <4>4. \A k : OnWire(x, k)' <=> OnWire(x, k)
        BY <2>1 DEF OnWire
      <4>5. \A k \in conn'[x].told : Have(k)' \/ OnWire(x, k)'
        BY <1>2, <2>2, <2>5, <3>2, <4>3, <4>4, HaveStays DEF WireInLine
      <4>6. QED BY <1>2, <2>1, <2>2, <2>5, <4>5, HaveStays DEF WireInLine
    <3>3. QED BY <3>1, <3>2, PublishedTo
  <2>6. QED BY <1>2, <2>3, <2>4, <2>5 DEF RequestInLine
<1>5. QED BY <1>1, <1>2, <1>3, <1>4, OrderedStays

LEMMA OrderedStep == FeedTypeOK /\ RowsStored /\ HandedOver /\ Ordered /\ [FeedNext]_feedVars => Ordered'
<1> SUFFICES ASSUME FeedTypeOK, RowsStored, HandedOver, Ordered, [FeedNext]_feedVars PROVE Ordered'
  OBVIOUS
<1>1. ASSUME NEW k \in Keys, Put(k) PROVE Ordered'
  BY <1>1, PutInLine
<1>2. ASSUME NEW row \in putting, Publish(row) PROVE Ordered'
  BY <1>2, PublishInLine
<1>3. ASSUME NEW x \in Conns, ServerStep(x) PROVE Ordered'
  BY <1>3, ServerInLine
<1>4. ASSUME NEW x \in Conns, Dial(x) PROVE Ordered'
  <2>1. ASSUME inOrder PROVE RequestInLine(x)'
    <3>1. cursor \in Stored' \cup {0}
      BY <1>4, <2>1, DialDoes, StoredStays DEF Ordered, Marks, Mark, Cursors
    <3>2. QED BY <1>4, <3>1, DialDoes, NewRequestInLine
  <2>2. QED BY <1>4, <2>1, DialDoes, OrderedServer
<1>5. ASSUME NEW x \in Conns, StreamRow(x) PROVE Ordered'
  BY <1>5, StreamInLine
<1>6. CASE StreamCursor
  <2>1. Grows
    BY <1>6, GrowsNot DEF StreamCursor
  <2>2. QED BY <1>6, <2>1, OrderedSame DEF StreamCursor
<1>7. CASE PullStart
  <2>1. UNCHANGED <<reading, moved, cursor, local>> /\ Grows
    BY <1>7, PullStarts, GrowsNot DEF client
  <2>2. QED BY <1>7, <2>1, PullStarts, OrderedSame
<1>8. CASE PullList
  BY <1>8, PullListInLine
<1>9. ASSUME NEW row \in pull.page, PullRow(row) PROVE Ordered'
  BY <1>9, PullRowInLine
<1>10. CASE PullCursor
  <2>1. Grows
    BY <1>10, PullCursorDoes, GrowsNot
  <2>2. QED BY <1>10, <2>1, PullCursorDoes, OrderedSame
<1>11. CASE Break
  <2>1. Grows
    BY <1>11, GrowsNot DEF Break
  <2>2. QED BY <1>11, <2>1, OrderedSame DEF Break
<1>12. CASE PullFails
  <2>1. UNCHANGED <<reading, moved, cursor, local>> /\ Grows
    BY <1>12, GrowsNot DEF PullFails, client
  <2>2. QED BY <1>12, <2>1, PullStops, OrderedSame DEF PullFails
<1>13. CASE RestartDaemon
  <2>1. Grows
    BY <1>13, GrowsNot DEF RestartDaemon
  <2>2. QED BY <1>13, <2>1, PullStops, OrderedSame DEF RestartDaemon
<1>14. CASE RestartServer
  <2>1. Grows /\ UNCHANGED <<store, moved, cursor, pull, inOrder>> /\ putting' = {}
    BY <1>14, GrowsNot DEF RestartServer
  <2>2. \A x \in Conns : conn'[x] = NoConn
    BY <1>14 DEF RestartServer
  <2>3. \A x \in Conns : RequestInLine(x)' /\ conn'[x].start = 0
    BY <2>2, NoConnInLine
  <2>4. Cursors' \subseteq Cursors \cup {0}
    BY <2>1, <2>3 DEF Cursors
  <2>5. QED BY <2>1, <2>3, <2>4, OrderedStays
<1>15. CASE UNCHANGED feedVars
  <2>1. Grows
    BY <1>15, GrowsNot DEF feedVars, client
  <2>2. QED BY <1>15, <2>1, OrderedSame DEF feedVars, client
<1>16. QED
  BY <1>1, <1>2, <1>3, <1>4, <1>5, <1>6, <1>7, <1>8, <1>9, <1>10, <1>11, <1>12, <1>13, <1>14, <1>15
  DEF FeedNext, ClientStep, PullStep

LEMMA OrderedInit == FeedInit => Ordered
<1> SUFFICES ASSUME FeedInit PROVE Ordered
  OBVIOUS
<1>1. /\ Stored = {} /\ putting = {} /\ pull.page = {} /\ pull.cursor = 0 /\ cursor = 0 /\ moved = 0
      /\ reading = {}
      /\ \A x \in Conns : /\ conn[x].start = 0 /\ conn[x].since = 0 /\ conn[x].state = "free"
                          /\ conn[x].buf = <<>>
  BY DEF FeedInit, Stored, NoPull, NoConn
<1>2. InLine /\ PageInLine
  BY <1>1 DEF InLine, PageInLine
<1>3. Marks
  BY <1>1 DEF Marks, Mark, Cursors
<1>4. ASSUME NEW x \in Conns PROVE RequestInLine(x)
  <2>1. DOMAIN conn[x].buf = {}
    BY <1>1
  <2>2. QED BY <1>1, <2>1 DEF RequestInLine, BacklogInLine, BufInLine
<1>5. QED BY <1>2, <1>3, <1>4 DEF Ordered

LEMMA OrderedSafe == FeedTypeOK /\ Ordered => CursorSafe
<1> SUFFICES ASSUME FeedTypeOK, Ordered, inOrder, NEW k \in Keys,
                    store[k] # 0, k <= cursor, ~Lost(k)
             PROVE  local[k] # 0
  BY DEF CursorSafe
<1>1. Mark(cursor) /\ k \in Stored
  BY DEF Ordered, Marks, Cursors, Stored
<1>2. QED BY <1>1 DEF Mark, Have

-------------------------------------------------------------------------------
FeedInvariant == FeedTypeOK /\ SlotsCounted /\ RowsStored /\ HandedOver /\ Ordered

LEMMA FeedInvariantHolds == FeedSpec => []FeedInvariant
<1>1. FeedInit => FeedInvariant
  BY FeedTypeInit, StoredInit, HandOverInit, OrderedInit DEF FeedInvariant
<1>2. FeedInvariant /\ [FeedNext]_feedVars => FeedInvariant'
  BY FeedTypeStep, StoredStep, HandOverStep, OrderedStep DEF FeedInvariant
<1>3. QED BY <1>1, <1>2, PTL DEF FeedSpec

(* The hub, the requests, the pull and the tables hold only what their types  *)
(* allow: in particular no user ever has more than maxSSEPerUser streams.     *)
THEOREM FeedTypeCorrect == FeedSpec => []FeedTypeOK
<1>1. FeedInvariant => FeedTypeOK
  BY DEF FeedInvariant
<1>2. QED BY <1>1, FeedInvariantHolds, PTL

(* acquireSSESlot and its release keep the count of a user's streams equal to *)
(* the number of requests that hold a slot, whatever breaks or restarts.      *)
THEOREM SlotsAreCounted == FeedSpec => []SlotsCounted
<1>1. FeedInvariant => SlotsCounted
  BY DEF FeedInvariant
<1>2. QED BY <1>1, FeedInvariantHolds, PTL

(* handleSSE subscribes before it reads the backlog, so no row falls between  *)
(* the two: a live stream has sent, buffered or dropped every row after its   *)
(* since=, or the row is still to be published to it.                         *)
THEOREM HandOverHasNoGap == FeedSpec => []NoGap
<1>1. FeedInvariant => NoGap
  BY HandedNoGap DEF FeedInvariant
<1>2. QED BY <1>1, FeedInvariantHolds, PTL

(* The stream and the pull write one memory cursor without a lock; as long as *)
(* rows are put in order, it never passes a row that is not in the tables,    *)
(* unless a full buffer dropped it or its scope, or a statement failed then.  *)
THEOREM FeedCursorIsSafe == FeedSpec => []CursorSafe
<1>1. FeedInvariant => CursorSafe
  BY OrderedSafe DEF FeedInvariant
<1>2. QED BY <1>1, FeedInvariantHolds, PTL

-------------------------------------------------------------------------------
(* The scope tree, learnings and plans, and the context document. *)

(* The scope tree.  Of the ancestors of one path, the length tells which is  *)
(* above which.                                                              *)

Upto(s, p) == s = p \/ Above(s, p)

LEMMA AboveIsShorter ==
  ASSUME NEW s \in Seq(Nat), NEW p \in Seq(Nat), Above(s, p)
  PROVE  /\ Len(s) < Len(p)
         /\ s = SubSeq(p, 1, Len(s))
<1>1. Len(s) \in Nat /\ Len(p) \in Nat /\ Len(s) <= Len(p)
  BY LenProperties DEF Above, IsStrictPrefix, IsPrefix
<1>2. SubSeq(s, 1, Len(s)) = s
  BY SubSeqFull
<1>3. SubSeq(p, 1, Len(p)) = p
  BY SubSeqFull
<1>4. s = SubSeq(p, 1, Len(s)) /\ s # p
  BY <1>2 DEF Above, IsStrictPrefix, IsPrefix
<1> QED
  BY <1>1, <1>3, <1>4

LEMMA AncestorIs ==
  ASSUME NEW p \in Seq(Nat), NEW s \in Seq(Nat), Upto(s, p)
  PROVE  /\ Len(s) \in Nat /\ Len(s) <= Len(p)
         /\ s = SubSeq(p, 1, Len(s))
<1>1. Len(s) \in Nat /\ Len(p) \in Nat
  BY LenProperties
<1>2. CASE s = p
  BY <1>1, <1>2, SubSeqFull
<1>3. CASE Above(s, p)
  BY <1>1, <1>3, AboveIsShorter
<1> QED
  BY <1>2, <1>3 DEF Upto

LEMMA AncestorAbove ==
  ASSUME NEW p \in Seq(Nat), NEW k \in 1..Len(p), NEW n \in 1..Len(p), k < n
  PROVE  Above(SubSeq(p, 1, k), SubSeq(p, 1, n))
<1> DEFINE s == SubSeq(p, 1, k)
           t == SubSeq(p, 1, n)
<1>1. Len(p) \in Nat
  BY LenProperties
<1>2. s \in Seq(Nat) /\ Len(s) = k /\ \A i \in 1..k : s[i] = p[i]
  BY <1>1, SubSeqProperties
<1>3. t \in Seq(Nat) /\ Len(t) = n /\ \A i \in 1..n : t[i] = p[i]
  BY <1>1, SubSeqProperties
<1>4. SubSeq(s, 1, Len(s)) = s
  BY <1>2, SubSeqFull
<1>5. /\ SubSeq(t, 1, k) \in Seq(Nat) /\ Len(SubSeq(t, 1, k)) = k
      /\ \A i \in 1..k : SubSeq(t, 1, k)[i] = t[i]
  BY <1>1, <1>3, SubSeqProperties
<1>6. \A i \in 1..k : SubSeq(t, 1, k)[i] = s[i]
  BY <1>1, <1>2, <1>3, <1>5
<1>7. SubSeq(t, 1, k) = s
  BY <1>2, <1>5, <1>6, SeqEqual
<1> QED
  BY <1>1, <1>2, <1>3, <1>4, <1>7 DEF Above, IsStrictPrefix, IsPrefix

-------------------------------------------------------------------------------
(* The tables of one machine.  What the statements need is that the foreign  *)
(* keys hold (Whole); every statement keeps that.                            *)

Whole(d, mk) ==
  /\ d \in Tables
  /\ \A p \in d.plan : HasScope(d, p)
  /\ \A l \in d.learning :
       /\ mk[l].path \in Paths
       /\ HasScope(d, mk[l].path)
       /\ mk[l].fixes \in d.learning \cup {0}

(* A row that speaks of a learning speaks of one that was made. *)
Named(key, mk) ==
  key[1] = "learning" => key[2] \in LearningIds /\ mk[key[2]].path \in Paths

LEMMA EmptyIsWhole ==
  ASSUME NEW mk
  PROVE  Whole(Empty, mk)
BY DEF Whole, Empty, Tables, HasScope

LEMMA UpdateKeeps ==
  ASSUME NEW mk, NEW d, Whole(d, mk), NEW p \in Paths, NEW kind \in {"open", "boundary"}
  PROVE  Whole(UpdateScope(d, p, kind), mk)
<1> DEFINE e == UpdateScope(d, p, kind)
<1>1. e \in Tables /\ e.plan = d.plan /\ e.learning = d.learning
  BY DEF Whole, UpdateScope, Tables
<1>2. \A q \in Paths : HasScope(d, q) => HasScope(e, q)
  BY DEF Whole, UpdateScope, Tables, HasScope
<1>3. d.plan \subseteq Paths
  BY DEF Whole, Tables
<1> QED
  BY <1>1, <1>2, <1>3 DEF Whole

LEMMA PlanKeeps ==
  ASSUME NEW mk, NEW d, Whole(d, mk), NEW p \in Paths, HasScope(d, p)
  PROVE  Whole([d EXCEPT !.plan = @ \cup {p}], mk)
<1> DEFINE e == [d EXCEPT !.plan = @ \cup {p}]
<1>1. /\ e \in Tables /\ e.plan = d.plan \cup {p}
      /\ e.learning = d.learning /\ e.scope = d.scope
  BY DEF Whole, Tables
<1> QED
  BY <1>1 DEF Whole, HasScope

LEMMA LearningKeeps ==
  ASSUME NEW mk, NEW d, Whole(d, mk), NEW l \in LearningIds,
         mk[l].path \in Paths, CanAppend(d, mk[l].path, mk[l].fixes)
  PROVE  Whole([d EXCEPT !.learning = @ \cup {l}], mk)
<1> DEFINE e == [d EXCEPT !.learning = @ \cup {l}]
<1>1. /\ e \in Tables /\ e.plan = d.plan
      /\ e.learning = d.learning \cup {l} /\ e.scope = d.scope
  BY DEF Whole, Tables
<1> QED
  BY <1>1 DEF Whole, HasScope, CanAppend

LEMMA DeleteKeeps ==
  ASSUME NEW d, Whole(d, made), NEW p \in Paths
  PROVE  Whole(DeleteRow(d, p), made)
<1>1. CASE DeleteFails(d, p)
  BY <1>1 DEF DeleteRow
<1>2. CASE ~DeleteFails(d, p)
  <2> DEFINE e == DeleteRow(d, p)
  <2>1. /\ e \in Tables
        /\ e.plan = d.plan \ {p}
        /\ e.learning = d.learning \ LearningsOf(d, p)
        /\ e.scope = [d.scope EXCEPT ![p] = "none"]
    BY <1>2 DEF DeleteRow, Whole, Tables
  <2>2. \A q \in Paths \ {p} : HasScope(d, q) => HasScope(e, q)
    BY <2>1 DEF Whole, Tables, HasScope
  <2>3. \A l \in e.learning :
          /\ l \in d.learning
          /\ made[l].path # p
          /\ made[l].fixes \notin LearningsOf(d, p)
    BY <1>2, <2>1 DEF DeleteFails, LearningsOf
  <2>4. e.plan \subseteq Paths \ {p}
    BY <2>1 DEF Whole, Tables
  <2> HIDE DEF e
  <2> QED
    BY <2>1, <2>2, <2>3, <2>4 DEF Whole, e
<1> QED
  BY <1>1, <1>2

(* The rows. *)
LEMMA RowIs ==
  ASSUME NEW row \in MemoryRows
  PROVE  \/ \E p \in Paths : row.key = ScopeKey(p) /\ row.kind \in {"open", "boundary"}
         \/ \E p \in Paths : row.key = PlanKey(p)
         \/ \E l \in LearningIds : row.key = LearningKey(l)
BY DEF MemoryRows, Items

LEMMA IngestKeeps ==
  ASSUME NEW d, Whole(d, made), NEW row \in MemoryRows, Named(row.key, made)
  PROVE  Whole(IngestRow(d, row), made)
<1>1. CASE \E p \in Paths : row.key = ScopeKey(p) /\ row.kind \in {"open", "boundary"}
  <2>1. PICK p \in Paths : row.key = ScopeKey(p) /\ row.kind \in {"open", "boundary"}
    BY <1>1
  <2>2. row.key[1] = "scope" /\ row.key[2] = p
    BY <2>1 DEF ScopeKey
  <2>3. IngestRow(d, row) = UpdateScope(d, p, row.kind)
    BY <2>2 DEF IngestRow
  <2> QED
    BY <2>1, <2>3, UpdateKeeps
<1>2. CASE \E p \in Paths : row.key = PlanKey(p)
  <2>1. PICK p \in Paths : row.key = PlanKey(p)
    BY <1>2
  <2>2. row.key[1] = "plan" /\ row.key[2] = p
    BY <2>1 DEF PlanKey
  <2>3. IngestRow(d, row) = IF HasScope(d, p) THEN [d EXCEPT !.plan = @ \cup {p}] ELSE d
    BY <2>2 DEF IngestRow
  <2> QED
    BY <2>3, PlanKeeps
<1>3. CASE \E l \in LearningIds : row.key = LearningKey(l)
  <2>1. PICK l \in LearningIds : row.key = LearningKey(l)
    BY <1>3
  <2>2. row.key[1] = "learning" /\ row.key[2] = l
    BY <2>1 DEF LearningKey
  <2>3. IngestRow(d, row) = IF CanAppend(d, made[l].path, made[l].fixes)
                            THEN [d EXCEPT !.learning = @ \cup {l}] ELSE d
    BY <2>2 DEF IngestRow
  <2>4. made[l].path \in Paths
    BY <2>2 DEF Named
  <2> QED
    BY <2>3, <2>4, LearningKeeps
<1> QED
  BY <1>1, <1>2, <1>3, RowIs

(* Another learning that is made changes nothing about those a table has. *)
LEMMA MadeKeeps ==
  ASSUME NEW d, NEW mk, Whole(d, mk), NEW mk2, \A l \in d.learning : mk2[l] = mk[l]
  PROVE  Whole(d, mk2)
BY DEF Whole

-------------------------------------------------------------------------------
(* The invariant of the tables, the rows and the requests. *)

TablesHold ==
  /\ db \in [Machines -> Tables]
  /\ made \in [LearningIds -> [path : Paths \cup {<<>>}, fixes : LearningIds \cup {0},
                              by : Machines \cup {0}]]
  /\ \A m \in Machines : Whole(db[m], made)

RowsHold ==
  /\ outbox \in [Machines -> SUBSET MemoryRows] /\ up \subseteq MemoryRows
  /\ \A m \in Machines : \A a, b \in outbox[m] : a.key = b.key => a = b
  /\ \A m \in Machines : \A row \in outbox[m] : Named(row.key, made)
  /\ \A row \in up : Named(row.key, made)

Placed(c) ==
  /\ req[c].at # "idle" => req[c].m \in Machines /\ req[c].path \in Paths
  /\ req[c].at \in {"read", "enqueue"} => req[c].row \in MemoryRows /\ Named(req[c].row.key, made)
  /\ \A item \in req[c].doc : Named(item, made)

CallsHold ==
  /\ req \in [Callers -> Requests]
  /\ \A c \in Callers : Placed(c)

Filed == TablesHold /\ RowsHold /\ CallsHold

LEMMA FiledIsTyped ==
  ASSUME Filed
  PROVE  ScopesTypeOK
BY DEF Filed, TablesHold, RowsHold, CallsHold, Whole, ScopesTypeOK

LEMMA FiledInit ==
  ASSUME ScopesAssumption, ScopesInit
  PROVE  Filed
<1>1. TablesHold
  <2>1. db \in [Machines -> Tables] /\ \A m \in Machines : Whole(db[m], made)
    BY EmptyIsWhole DEF ScopesInit, Whole
  <2> QED
    BY <2>1 DEF ScopesInit, NoLearning, TablesHold
<1>2. RowsHold
  BY DEF ScopesInit, RowsHold
<1>3. CallsHold
  <2>1. <<>> \in Seq([path : Paths, kind : {"open", "boundary"}])
    BY EmptySeq
  <2>2. Idle \in Requests
    BY <2>1 DEF Idle, Requests
  <2>3. \A c \in Callers : req[c] = Idle
    BY DEF ScopesInit
  <2>4. req \in [Callers -> Requests]
    BY <2>2 DEF ScopesInit
  <2> QED
    BY <2>3, <2>4 DEF CallsHold, Placed, Idle
<1> QED
  BY <1>1, <1>2, <1>3 DEF Filed

(* What an action leaves alone stays right; learnings only come to be made. *)
MadeStays == \A l \in LearningIds : made[l].path \in Paths => made'[l] = made[l]

LEMMA NamedStays ==
  ASSUME MadeStays, NEW key, Named(key, made)
  PROVE  Named(key, made')
BY DEF MadeStays, Named

LEMMA WholeStays ==
  ASSUME MadeStays, NEW d, Whole(d, made)
  PROVE  Whole(d, made')
BY DEF MadeStays, Whole, Tables

LEMMA TablesStay ==
  ASSUME TablesHold, db' = db, made' = made
  PROVE  TablesHold'
BY DEF TablesHold

LEMMA RowsStay ==
  ASSUME RowsHold, MadeStays, outbox' = outbox, up' = up
  PROVE  RowsHold'
<1>1. \A m \in Machines : \A row \in outbox[m] : Named(row.key, made')
  BY NamedStays DEF RowsHold
<1>2. \A row \in up : Named(row.key, made')
  BY NamedStays DEF RowsHold
<1> QED
  BY <1>1, <1>2 DEF RowsHold

LEMMA PlacedStays ==
  ASSUME MadeStays, NEW c \in Callers, Placed(c), req'[c] = req[c]
  PROVE  Placed(c)'
<1>1. \A item \in req[c].doc : Named(item, made')
  BY NamedStays DEF Placed
<1>2. req[c].at \in {"read", "enqueue"} => Named(req[c].row.key, made')
  BY NamedStays DEF Placed
<1> QED
  BY <1>1, <1>2 DEF Placed

LEMMA SameGrows ==
  ASSUME made' = made
  PROVE  MadeStays
BY DEF MadeStays

LEMMA OneMachine ==
  ASSUME TablesHold, made' = made, NEW m \in Machines, NEW e, Whole(e, made),
         db' = [db EXCEPT ![m] = e]
  PROVE  TablesHold'
<1>1. e \in Tables
  BY DEF Whole
<1>2. db' \in [Machines -> Tables]
  BY <1>1 DEF TablesHold
<1>3. \A n \in Machines : db'[n] = IF n = m THEN e ELSE db[n]
  BY DEF TablesHold
<1>4. \A n \in Machines : Whole(db'[n], made)
  BY <1>3 DEF TablesHold
<1>5. \A n \in Machines : Whole(db'[n], made')
  BY <1>4
<1> QED
  BY <1>2, <1>5 DEF TablesHold

(* One request goes on; the others stay where they are. *)
LEMMA Moves ==
  ASSUME CallsHold, MadeStays, NEW c \in Callers, NEW rec \in Requests,
         req' = [req EXCEPT ![c] = rec],
         rec.at # "idle" => rec.m \in Machines /\ rec.path \in Paths,
         rec.at \in {"read", "enqueue"} => rec.row \in MemoryRows /\ Named(rec.row.key, made'),
         \A item \in rec.doc : Named(item, made')
  PROVE  CallsHold' /\ req'[c] = rec /\ \A x \in Callers \ {c} : req'[x] = req[x]
<1>1. req'[c] = rec /\ \A x \in Callers \ {c} : req'[x] = req[x]
  BY DEF CallsHold
<1>2. req' \in [Callers -> Requests]
  BY DEF CallsHold
<1>3. Placed(c)'
  BY <1>1 DEF Placed
<1>4. \A x \in Callers \ {c} : Placed(x)'
  BY <1>1, PlacedStays DEF CallsHold
<1> QED
  BY <1>1, <1>2, <1>3, <1>4 DEF CallsHold

LEMMA Begins ==
  ASSUME CallsHold, MadeStays, NEW c \in Callers, NEW m \in Machines, NEW p \in Paths,
         NEW at \in {"read", "enqueue", "delete", "walk"}, NEW row \in MemoryRows \cup {NoRow},
         Begin(c, m, at, p, row),
         at \in {"read", "enqueue"} => row \in MemoryRows /\ Named(row.key, made')
  PROVE  /\ CallsHold'
         /\ req'[c].at = at /\ req'[c].m = m /\ req'[c].path = p
         /\ req'[c].chain = <<>> /\ req'[c].i = 1 /\ req'[c].doc = {}
         /\ \A x \in Callers \ {c} : req'[x] = req[x]
<1> DEFINE rec == [Idle EXCEPT !.at = at, !.m = m, !.path = p, !.row = row, !.i = 1]
<1>1. <<>> \in Seq([path : Paths, kind : {"open", "boundary"}])
  BY EmptySeq
<1>2. rec \in Requests
  BY <1>1 DEF Requests, Idle
<1>3. req' = [req EXCEPT ![c] = rec]
  BY DEF Begin
<1>4. /\ rec.at = at /\ rec.m = m /\ rec.path = p /\ rec.row = row
      /\ rec.chain = <<>> /\ rec.i = 1 /\ rec.doc = {}
  BY DEF Idle
<1> HIDE DEF rec
<1>5. CallsHold' /\ req'[c] = rec /\ \A x \in Callers \ {c} : req'[x] = req[x]
  BY <1>2, <1>3, <1>4, Moves
<1> QED
  BY <1>4, <1>5

LEMMA Ends ==
  ASSUME CallsHold, MadeStays, NEW c \in Callers, Goto(c, Idle)
  PROVE  CallsHold' /\ req'[c] = Idle /\ \A x \in Callers \ {c} : req'[x] = req[x]
<1>1. <<>> \in Seq([path : Paths, kind : {"open", "boundary"}])
  BY EmptySeq
<1>2. Idle \in Requests /\ Idle.at = "idle" /\ Idle.doc = {}
  BY <1>1 DEF Requests, Idle
<1>3. req' = [req EXCEPT ![c] = Idle]
  BY DEF Goto
<1> QED
  BY <1>2, <1>3, Moves

-------------------------------------------------------------------------------
(* One lemma for each action of a request, and for the rows that travel. *)

LEMMA SetScopeDoes ==
  ASSUME Filed, NEW c \in Callers, NEW m \in Machines, NEW p \in Paths,
         NEW kind \in {"open", "boundary"}, SetScope(c, m, p, kind)
  PROVE  /\ Filed' /\ MadeStays /\ ~Building(req'[c])
         /\ \A x \in Callers \ {c} : req'[x] = req[x]
<1> DEFINE row == [key |-> ScopeKey(p), kind |-> kind]
<1>1. MadeStays
  BY SameGrows DEF SetScope
<1>2. TablesHold'
  <2>1. db' = [db EXCEPT ![m] = UpdateScope(db[m], p, kind)] /\ made' = made
    BY DEF SetScope
  <2>2. Whole(UpdateScope(db[m], p, kind), made)
    BY UpdateKeeps DEF Filed, TablesHold
  <2> QED
    BY <2>1, <2>2, OneMachine DEF Filed
<1>3. RowsHold'
  BY <1>1, RowsStay DEF Filed, SetScope
<1>4. row \in MemoryRows /\ row.key[1] = "scope"
  BY DEF MemoryRows, ScopeKey
<1>5. /\ CallsHold' /\ req'[c].at = "read"
      /\ \A x \in Callers \ {c} : req'[x] = req[x]
  <2>1. Begin(c, m, "read", p, row)
    BY DEF SetScope
  <2>2. Named(row.key, made')
    BY <1>4 DEF Named
  <2> QED
    BY <1>1, <1>4, <2>1, <2>2, Begins DEF Filed
<1> QED
  BY <1>1, <1>2, <1>3, <1>5 DEF Filed, Building

LEMMA AppendLearningDoes ==
  ASSUME ScopesAssumption, Filed, NEW c \in Callers, NEW m \in Machines, NEW p \in Paths,
         NEW l \in LearningIds, NEW fixes \in LearningIds \cup {0},
         AppendLearning(c, m, p, l, fixes)
  PROVE  /\ Filed' /\ MadeStays /\ ~Building(req'[c])
         /\ \A x \in Callers \ {c} : req'[x] = req[x]
<1> DEFINE row == [key |-> LearningKey(l), kind |-> "item"]
           new == [path |-> p, fixes |-> fixes, by |-> m]
<1>1. made[l].path \notin Paths
  BY DEF AppendLearning, NoLearning, ScopesAssumption
<1>2. made' = [made EXCEPT ![l] = new]
  BY DEF AppendLearning
<1>3. made'[l] = new /\ \A k \in LearningIds \ {l} : made'[k] = made[k]
  BY <1>2 DEF Filed, TablesHold
<1>4. MadeStays
  BY <1>1, <1>3 DEF MadeStays
<1>5. TablesHold'
  <2> DEFINE e == [db[m] EXCEPT !.learning = @ \cup {l}]
  <2>1. db' = [db EXCEPT ![m].learning = db[m].learning \cup {l}]
    BY DEF AppendLearning
  <2>2. \A n \in Machines : db'[n] = IF n = m THEN e ELSE db[n]
    BY <2>1 DEF Filed, TablesHold
  <2>3. \A n \in Machines : Whole(db[n], made')
    BY <1>4, WholeStays DEF Filed, TablesHold
  <2>4. CanAppend(db[m], made'[l].path, made'[l].fixes) /\ made'[l].path \in Paths
    BY <1>3 DEF AppendLearning
  <2>5. Whole(e, made')
    BY <2>3, <2>4, LearningKeeps
  <2> HIDE DEF e
  <2>6. \A n \in Machines : Whole(db'[n], made')
    BY <2>2, <2>3, <2>5
  <2>7. db' \in [Machines -> Tables]
    <3>1. e \in Tables
      BY <2>5 DEF Whole
    <3>2. db' = [db EXCEPT ![m] = e]
      BY <2>1 DEF e, Filed, TablesHold
    <3> QED
      BY <3>1, <3>2 DEF Filed, TablesHold
  <2>8. made' \in [LearningIds -> [path : Paths \cup {<<>>}, fixes : LearningIds \cup {0},
                                   by : Machines \cup {0}]]
    BY <1>2 DEF Filed, TablesHold
  <2> QED
    BY <2>6, <2>7, <2>8 DEF TablesHold
<1>6. RowsHold'
  BY <1>4, RowsStay DEF Filed, AppendLearning
<1>7. row \in MemoryRows /\ row.key[2] = l
  BY DEF MemoryRows, Items, LearningKey
<1>8. /\ CallsHold' /\ req'[c].at = "read"
      /\ \A x \in Callers \ {c} : req'[x] = req[x]
  <2>1. Begin(c, m, "read", p, row)
    BY DEF AppendLearning
  <2>2. Named(row.key, made')
    BY <1>3, <1>7 DEF Named
  <2> QED
    BY <1>4, <1>7, <2>1, <2>2, Begins DEF Filed
<1> QED
  BY <1>4, <1>5, <1>6, <1>8 DEF Filed, Building

LEMMA PutPlanDoes ==
  ASSUME Filed, NEW c \in Callers, NEW m \in Machines, NEW p \in Paths, PutPlan(c, m, p)
  PROVE  /\ Filed' /\ MadeStays /\ ~Building(req'[c])
         /\ \A x \in Callers \ {c} : req'[x] = req[x]
<1> DEFINE row == [key |-> PlanKey(p), kind |-> "item"]
           e == [db[m] EXCEPT !.plan = @ \cup {p}]
<1>1. MadeStays
  BY SameGrows DEF PutPlan
<1>2. TablesHold'
  <2>1. db' = [db EXCEPT ![m].plan = db[m].plan \cup {p}] /\ made' = made
    BY DEF PutPlan
  <2>2. db' = [db EXCEPT ![m] = e]
    BY <2>1 DEF Filed, TablesHold
  <2>3. Whole(e, made)
    BY PlanKeeps DEF PutPlan, Filed, TablesHold
  <2> QED
    BY <2>1, <2>2, <2>3, OneMachine DEF Filed
<1>3. RowsHold'
  BY <1>1, RowsStay DEF Filed, PutPlan
<1>4. row \in MemoryRows /\ row.key[1] = "plan"
  BY DEF MemoryRows, Items, PlanKey
<1>5. /\ CallsHold' /\ req'[c].at = "enqueue"
      /\ \A x \in Callers \ {c} : req'[x] = req[x]
  <2>1. Begin(c, m, "enqueue", p, row)
    BY DEF PutPlan
  <2>2. Named(row.key, made')
    BY <1>4 DEF Named
  <2> QED
    BY <1>1, <1>4, <2>1, <2>2, Begins DEF Filed
<1> QED
  BY <1>1, <1>2, <1>3, <1>5 DEF Filed, Building

LEMMA CountChildrenDoes ==
  ASSUME Filed, NEW c \in Callers, NEW m \in Machines, NEW p \in Paths, CountChildren(c, m, p)
  PROVE  /\ Filed' /\ MadeStays /\ ~Building(req'[c])
         /\ \A x \in Callers \ {c} : req'[x] = req[x]
<1>1. MadeStays
  BY SameGrows DEF CountChildren, tables
<1>2. TablesHold' /\ RowsHold'
  BY <1>1, TablesStay, RowsStay DEF Filed, CountChildren, tables
<1>3. /\ CallsHold' /\ req'[c].at = "delete"
      /\ \A x \in Callers \ {c} : req'[x] = req[x]
  BY <1>1, Begins DEF Filed, CountChildren
<1> QED
  BY <1>1, <1>2, <1>3 DEF Filed, Building

LEMMA BuildContextDoes ==
  ASSUME Filed, NEW c \in Callers, NEW m \in Machines, NEW p \in Paths, BuildContext(c, m, p)
  PROVE  /\ Filed' /\ MadeStays
         /\ req'[c].at = "walk" /\ req'[c].m = m /\ req'[c].path = p
         /\ req'[c].chain = <<>> /\ req'[c].i = 1 /\ req'[c].doc = {}
         /\ \A x \in Callers \ {c} : req'[x] = req[x]
<1>1. MadeStays
  BY SameGrows DEF BuildContext, tables
<1>2. TablesHold' /\ RowsHold'
  BY <1>1, TablesStay, RowsStay DEF Filed, BuildContext, tables
<1>3. /\ CallsHold'
      /\ req'[c].at = "walk" /\ req'[c].m = m /\ req'[c].path = p
      /\ req'[c].chain = <<>> /\ req'[c].i = 1 /\ req'[c].doc = {}
      /\ \A x \in Callers \ {c} : req'[x] = req[x]
  BY <1>1, Begins DEF Filed, BuildContext
<1> QED
  BY <1>1, <1>2, <1>3 DEF Filed

LEMMA ReadAgain ==
  ASSUME NEW row \in MemoryRows, NEW d \in Tables, NEW kind, kind # "none",
         kind = IF row.key[1] = "scope" THEN d.scope[row.key[2]]
                ELSE IF row.key[2] \in d.learning THEN "item" ELSE "none"
  PROVE  [row EXCEPT !.kind = kind] \in MemoryRows /\ [row EXCEPT !.kind = kind].key = row.key
<1>1. CASE \E p \in Paths : row.key = ScopeKey(p)
  <2>1. PICK p \in Paths : row.key = ScopeKey(p)
    BY <1>1
  <2>2. row.key[1] = "scope" /\ row.key[2] = p
    BY <2>1 DEF ScopeKey
  <2>3. kind = d.scope[p]
    BY ONLY <2>2, kind = IF row.key[1] = "scope" THEN d.scope[row.key[2]]
                         ELSE IF row.key[2] \in d.learning THEN "item" ELSE "none"
  <2>4. d.scope[p] \in {"none", "open", "boundary"}
    BY DEF Tables
  <2>5. kind \in {"open", "boundary"}
    BY <2>3, <2>4
  <2>6. row.key \in {ScopeKey(q) : q \in Paths}
    BY <2>1
  <2> QED
    BY <2>5, <2>6 DEF MemoryRows
<1>2. CASE row.key \in Items
  <2>1. row.key[1] # "scope"
    BY <1>2 DEF Items, PlanKey, LearningKey
  <2>2. kind = "item"
    BY <2>1
  <2> QED
    BY <1>2, <2>2 DEF MemoryRows
<1> QED
  BY <1>1, <1>2 DEF MemoryRows

LEMMA ReadBackDoes ==
  ASSUME Filed, NEW c \in Callers, ReadBack(c)
  PROVE  /\ Filed' /\ MadeStays /\ ~Building(req'[c])
         /\ \A x \in Callers \ {c} : req'[x] = req[x]
<1> DEFINE d == db[req[c].m]
           key == req[c].row.key
           kind == IF key[1] = "scope" THEN d.scope[key[2]]
                   ELSE IF key[2] \in d.learning THEN "item" ELSE "none"
           rec == [req[c] EXCEPT !.at = "enqueue", !.row.kind = kind]
<1>1. MadeStays
  BY SameGrows DEF ReadBack, tables
<1>2. TablesHold' /\ RowsHold'
  BY <1>1, TablesStay, RowsStay DEF Filed, ReadBack, tables
<1>3. CASE kind = "none"
  <2>1. Goto(c, Idle)
    BY <1>3 DEF ReadBack
  <2>2. CallsHold' /\ req'[c] = Idle /\ \A x \in Callers \ {c} : req'[x] = req[x]
    BY <1>1, <2>1, Ends DEF Filed
  <2>3. ~Building(Idle)
    BY DEF Building, Idle
  <2> QED
    BY ONLY <1>1, <1>2, <2>2, <2>3 DEF Filed
<1>4. CASE kind # "none"
  <2>1. Goto(c, rec)
    BY <1>4 DEF ReadBack
  <2>2. /\ req[c] \in Requests /\ req[c].at = "read"
        /\ req[c].m \in Machines /\ req[c].path \in Paths
        /\ req[c].row \in MemoryRows /\ Named(key, made)
        /\ \A item \in req[c].doc : Named(item, made)
    BY DEF ReadBack, Filed, CallsHold, Placed
  <2>3. d \in Tables
    BY <2>2 DEF Filed, TablesHold
  <2>4. kind = IF req[c].row.key[1] = "scope" THEN d.scope[req[c].row.key[2]]
               ELSE IF req[c].row.key[2] \in d.learning THEN "item" ELSE "none"
    OBVIOUS
  <2>5. req' = [req EXCEPT ![c] = rec]
    BY <2>1 DEF Goto
  <2>6. rec = [req[c] EXCEPT !.at = "enqueue", !.row.kind = kind]
    OBVIOUS
  <2> HIDE DEF rec, kind, d
  <2>7. [req[c].row EXCEPT !.kind = kind] \in MemoryRows /\ [req[c].row EXCEPT !.kind = kind].key = key
    BY ONLY <1>4, <2>2, <2>3, <2>4, ReadAgain
  <2>8. /\ rec \in Requests
        /\ rec.at = "enqueue" /\ rec.m = req[c].m /\ rec.path = req[c].path
        /\ rec.doc = req[c].doc /\ rec.row = [req[c].row EXCEPT !.kind = kind]
    BY ONLY <2>2, <2>6, <2>7 DEF Requests
  <2>9. /\ \A item \in rec.doc : Named(item, made')
        /\ Named(rec.row.key, made')
    BY <1>1, <2>2, <2>7, <2>8, NamedStays
  <2> HIDE DEF key
  <2>10. CallsHold
    BY DEF Filed
  <2>11. CallsHold' /\ req'[c] = rec /\ \A x \in Callers \ {c} : req'[x] = req[x]
    BY ONLY <1>1, <2>2, <2>5, <2>7, <2>8, <2>9, <2>10, Moves, c \in Callers
  <2> QED
    BY ONLY <1>1, <1>2, <2>8, <2>11 DEF Filed, Building
<1> QED
  BY <1>3, <1>4

LEMMA EnqueueDoes ==
  ASSUME Filed, NEW c \in Callers, Enqueue(c)
  PROVE  /\ Filed' /\ MadeStays /\ ~Building(req'[c])
         /\ \A x \in Callers \ {c} : req'[x] = req[x]
<1> DEFINE m == req[c].m
           row == req[c].row
           Q == EnqueueOutbox(outbox[m], row)
<1>1. MadeStays
  BY SameGrows DEF Enqueue
<1>2. TablesHold'
  BY TablesStay DEF Filed, Enqueue
<1>3. m \in Machines /\ row \in MemoryRows /\ Named(row.key, made)
  BY DEF Enqueue, Filed, CallsHold, Placed
<1>4. RowsHold'
  <2>1. outbox' = [outbox EXCEPT ![m] = Q] /\ up' = up /\ made' = made
    BY DEF Enqueue
  <2>2. \A n \in Machines : outbox'[n] = IF n = m THEN Q ELSE outbox[n]
    BY <2>1 DEF Filed, RowsHold
  <2>3. /\ Q \subseteq MemoryRows
        /\ \A a, b \in Q : a.key = b.key => a = b
        /\ \A a \in Q : Named(a.key, made)
    BY <1>3 DEF EnqueueOutbox, Filed, RowsHold
  <2> HIDE DEF Q
  <2>4. outbox' \in [Machines -> SUBSET MemoryRows]
    BY <2>1, <2>3 DEF Filed, RowsHold
  <2>5. \A n \in Machines : \A a, b \in outbox'[n] : a.key = b.key => a = b
    BY <2>2, <2>3 DEF Filed, RowsHold
  <2>6. \A n \in Machines : \A a \in outbox'[n] : Named(a.key, made)
    BY <2>2, <2>3 DEF Filed, RowsHold
  <2>7. /\ \A n \in Machines : \A a \in outbox'[n] : Named(a.key, made')
        /\ \A a \in up' : Named(a.key, made') 
        /\ up' \subseteq MemoryRows
    BY <2>1, <2>6 DEF Filed, RowsHold
  <2> QED
    BY <2>4, <2>5, <2>7 DEF RowsHold
<1>5. /\ CallsHold' /\ req'[c] = Idle
      /\ \A x \in Callers \ {c} : req'[x] = req[x]
  BY <1>1, Ends DEF Filed, Enqueue
<1> QED
  BY <1>1, <1>2, <1>4, <1>5 DEF Filed, Building, Idle

LEMMA DeleteDoes ==
  ASSUME Filed, NEW c \in Callers, Delete(c)
  PROVE  /\ Filed' /\ MadeStays /\ ~Building(req'[c])
         /\ \A x \in Callers \ {c} : req'[x] = req[x]
<1> DEFINE m == req[c].m
           p == req[c].path
<1>1. MadeStays
  BY SameGrows DEF Delete
<1>2. m \in Machines /\ p \in Paths
  BY DEF Delete, Filed, CallsHold, Placed
<1>3. TablesHold'
  <2>1. db' = [db EXCEPT ![m] = DeleteRow(db[m], p)] /\ made' = made
    BY DEF Delete
  <2>2. Whole(DeleteRow(db[m], p), made)
    BY <1>2, DeleteKeeps DEF Filed, TablesHold
  <2> HIDE DEF m, p
  <2> QED
    BY <1>2, <2>1, <2>2, OneMachine DEF Filed
<1>4. RowsHold'
  BY <1>1, RowsStay DEF Filed, Delete
<1>5. /\ CallsHold' /\ req'[c] = Idle
      /\ \A x \in Callers \ {c} : req'[x] = req[x]
  BY <1>1, Ends DEF Filed, Delete
<1> QED
  BY <1>1, <1>3, <1>4, <1>5 DEF Filed, Building, Idle

LEMMA CallsStay ==
  ASSUME CallsHold, MadeStays, req' = req
  PROVE  CallsHold'
BY PlacedStays DEF CallsHold

LEMMA PushDoes ==
  ASSUME Filed, NEW m \in Machines, Push(m)
  PROVE  Filed' /\ MadeStays /\ req' = req
<1>1. MadeStays
  BY SameGrows DEF Push
<1>2. TablesHold' /\ CallsHold' /\ req' = req
  BY <1>1, TablesStay, CallsStay DEF Filed, Push
<1>3. RowsHold'
  <2>1. PICK row \in outbox[m] :
          /\ outbox' = [outbox EXCEPT ![m] = outbox[m] \ {row}]
          /\ up' = {r \in up : r.key # row.key} \cup {row}
    BY DEF Push
  <2>2. \A n \in Machines : outbox'[n] \subseteq outbox[n]
    BY <2>1 DEF Filed, RowsHold
  <2>3. outbox' \in [Machines -> SUBSET MemoryRows]
    BY <2>1 DEF Filed, RowsHold
  <2>4. up' \subseteq up \cup outbox[m]
    BY <2>1
  <2>5. \A n \in Machines : \A a \in outbox[n] \cup up : a \in MemoryRows /\ Named(a.key, made')
    BY <1>1, NamedStays DEF Filed, RowsHold
  <2>6. \A n \in Machines : \A a, b \in outbox'[n] : a.key = b.key => a = b
    BY <2>2 DEF Filed, RowsHold
  <2> QED
    BY <2>2, <2>3, <2>4, <2>5, <2>6 DEF RowsHold
<1> QED
  BY <1>1, <1>2, <1>3 DEF Filed

LEMMA ReceiveDoes ==
  ASSUME Filed, NEW m \in Machines, Receive(m)
  PROVE  Filed' /\ MadeStays /\ req' = req
<1>1. MadeStays
  BY SameGrows DEF Receive
<1>2. RowsHold' /\ CallsHold' /\ req' = req
  BY <1>1, RowsStay, CallsStay DEF Filed, Receive
<1>3. TablesHold'
  <2>1. PICK row \in up : db' = [db EXCEPT ![m] = IngestRow(db[m], row)]
    BY DEF Receive
  <2>2. Whole(IngestRow(db[m], row), made)
    BY IngestKeeps DEF Filed, TablesHold, RowsHold
  <2>3. made' = made
    BY DEF Receive
  <2> QED
    BY <2>1, <2>2, <2>3, OneMachine DEF Filed
<1> QED
  BY <1>1, <1>2, <1>3 DEF Filed

-------------------------------------------------------------------------------
(* The invariant of a context under way: of the request r, of what has been  *)
(* true all along, w, and of the learnings mk.                               *)

At(item, mk) == IF item[1] = "plan" THEN item[2] ELSE mk[item[2]].path

(* The chain goes down the path, and no boundary in it hides what was in     *)
(* view all along.                                                           *)
Chained(r, w, mk) ==
  /\ \A k \in 1..Len(r.chain) : Upto(r.chain[k].path, r.path)
  /\ \A j, k \in 1..Len(r.chain) : j < k => Len(r.chain[j].path) < Len(r.chain[k].path)
  /\ \A k \in 1..Len(r.chain) : r.chain[k].kind = "boundary" =>
       \A item \in w.steady : ~Above(At(item, mk), r.chain[k].path)

(* As far as the walk has come, it has the boundaries and the scopes. *)
Walked(r, w, mk) == r.at = "walk" =>
  /\ r.i \in 1..Len(r.path) /\ r.doc = {}
  /\ \A k \in 1..Len(r.chain) : Len(r.chain[k].path) < r.i
  /\ \A b \in w.bounded : Len(b) < r.i =>
       \E k \in 1..Len(r.chain) : r.chain[k].path = b /\ r.chain[k].kind = "boundary"
  /\ \A item \in w.steady : Len(At(item, mk)) < r.i =>
       \E k \in 1..Len(r.chain) : r.chain[k].path = At(item, mk)

(* After the walk nothing in the chain is above a boundary, and the document *)
(* is of the chain.                                                          *)
Limited(r, w, mk) == r.at # "walk" =>
  /\ \A k \in 1..Len(r.chain) : \A b \in w.bounded : ~Above(r.chain[k].path, b)
  /\ \A item \in w.steady : \E k \in 1..Len(r.chain) : r.chain[k].path = At(item, mk)
  /\ \A item \in r.doc :
       /\ \E k \in 1..Len(r.chain) : r.chain[k].path = At(item, mk)
       /\ item[1] = "learning" => item[2] \notin w.replaced

(* As far as a round has come, the document has what it was about. *)
Round(r, w, mk, sort) ==
  /\ r.i \in 1..Len(r.chain)
  /\ \A item \in w.steady : item[1] = sort =>
       \A k \in 1..Len(r.chain) : k < r.i /\ r.chain[k].path = At(item, mk) => item \in r.doc

Collected(r, w, mk) ==
  /\ r.at = "plans" => Round(r, w, mk, "plan")
  /\ r.at = "learnings" => /\ Round(r, w, mk, "learning")
                           /\ \A item \in w.steady : item[1] = "plan" => item \in r.doc
  /\ r.at = "done" => w.steady \subseteq r.doc

Along(r, w, mk) ==
  Chained(r, w, mk) /\ Walked(r, w, mk) /\ Limited(r, w, mk) /\ Collected(r, w, mk)

(* What has been true all along is true now. *)
Less(w, v) == w.bounded \subseteq v.bounded /\ w.replaced \subseteq v.replaced /\ w.steady \subseteq v.steady

Followed(c) == Building(req[c]) => Less(watch[c], Glance(c)) /\ Along(req[c], watch[c], made)

ContextInv == Filed /\ \A c \in Callers : Followed(c)

-------------------------------------------------------------------------------
(* What a context would show now, item by item. *)

LEMMA ShownIs ==
  ASSUME NEW d, Whole(d, made), NEW p, NEW item \in Shown(d, p)
  PROVE  /\ At(item, made) \in Paths
         /\ Upto(At(item, made), p)
         /\ HasScope(d, At(item, made))
         /\ \A b \in Bounded(d, p) : ~Above(At(item, made), b)
         /\ Named(item, made)
         /\ \/ /\ item[1] = "plan" /\ item = PlanKey(At(item, made))
               /\ At(item, made) \in d.plan
            \/ /\ item[1] = "learning" /\ item = LearningKey(item[2])
               /\ item[2] \in LearningsOf(d, At(item, made)) \ Superseded(d)
<1> DEFINE inView == {s \in Paths : /\ Above(s, p) \/ s = p
                                    /\ HasScope(d, s)
                                    /\ \A b \in Bounded(d, p) : ~Above(s, b)}
<1>1. CASE \E s \in d.plan \cap inView : item = PlanKey(s)
  <2>1. PICK s \in d.plan \cap inView : item = PlanKey(s)
    BY <1>1
  <2>2. item[1] = "plan" /\ item[2] = s
    BY <2>1 DEF PlanKey
  <2>3. At(item, made) = s
    BY <2>2 DEF At
  <2> QED
    BY <2>1, <2>2, <2>3 DEF Upto, Named
<1>2. CASE \E l \in {k \in d.learning \ Superseded(d) : made[k].path \in inView} :
             item = LearningKey(l)
  <2>1. PICK l \in d.learning \ Superseded(d) : made[l].path \in inView /\ item = LearningKey(l)
    BY <1>2
  <2>2. item[1] = "learning" /\ item[2] = l
    BY <2>1 DEF LearningKey
  <2>3. At(item, made) = made[l].path /\ l \in LearningIds
    BY <2>1, <2>2 DEF At, Whole, Tables
  <2> QED
    BY <2>1, <2>2, <2>3 DEF Upto, Named, LearningsOf
<1> QED
  BY <1>1, <1>2 DEF Shown

LEMMA BoundedIs ==
  ASSUME NEW d, NEW p, NEW b \in Bounded(d, p)
  PROVE  b \in Paths /\ Upto(b, p) /\ d.scope[b] = "boundary"
BY DEF Bounded, Upto

(* Less to show, and the same learnings: a context under way stays right. *)
LEMMA AlongLess ==
  ASSUME NEW r, NEW w, NEW mk, Along(r, w, mk), NEW v, Less(v, w), NEW mk2,
         \A item \in w.steady \cup r.doc : At(item, mk2) = At(item, mk)
  PROVE  Along(r, v, mk2)
<1>1. /\ \A item \in v.steady : item \in w.steady /\ At(item, mk2) = At(item, mk)
      /\ \A item \in r.doc : At(item, mk2) = At(item, mk)
      /\ v.bounded \subseteq w.bounded /\ v.replaced \subseteq w.replaced
      /\ v.steady \subseteq w.steady
  BY DEF Less
<1>2. Chained(r, v, mk2)
  BY <1>1 DEF Along, Chained
<1>3. Walked(r, v, mk2)
  BY <1>1 DEF Along, Walked
<1>4. Limited(r, v, mk2)
  BY <1>1 DEF Along, Limited
<1>5. Collected(r, v, mk2)
  <2>1. ASSUME NEW sort, Round(r, w, mk, sort)
        PROVE  Round(r, v, mk2, sort)
    BY <1>1, <2>1 DEF Round
  <2> QED
    BY <1>1, <2>1 DEF Along, Collected
<1> QED
  BY <1>2, <1>3, <1>4, <1>5 DEF Along

-------------------------------------------------------------------------------
(* ResolveChain reads one scope after another. *)

Nodes == [path : Paths, kind : {"open", "boundary"}]

TrueNow(d, p, w) ==
  w.bounded \subseteq Bounded(d, p) /\ w.replaced \subseteq Superseded(d) /\ w.steady \subseteq Shown(d, p)

(* The scopes of up to n segments are in the chain. *)
Passed(chain, p, n, w) ==
  /\ chain \in Seq(Nodes)
  /\ \A k \in 1..Len(chain) : Upto(chain[k].path, p) /\ Len(chain[k].path) <= n
  /\ \A j, k \in 1..Len(chain) : j < k => Len(chain[j].path) < Len(chain[k].path)
  /\ \A k \in 1..Len(chain) : chain[k].kind = "boundary" =>
       \A item \in w.steady : ~Above(At(item, made), chain[k].path)
  /\ \A b \in w.bounded : Len(b) <= n =>
       \E k \in 1..Len(chain) : chain[k].path = b /\ chain[k].kind = "boundary"
  /\ \A item \in w.steady : Len(At(item, made)) <= n =>
       \E k \in 1..Len(chain) : chain[k].path = At(item, made)

LEMMA LenOfPath ==
  ASSUME ScopesAssumption, NEW p \in Paths
  PROVE  p \in Seq(Nat) /\ Len(p) \in Nat \ {0} /\ p # <<>>
<1>1. p \in Seq(Nat) /\ p # <<>>
  BY DEF ScopesAssumption
<1> QED
  BY <1>1, EmptySeq

LEMMA TheScopeOf ==
  ASSUME ScopesAssumption, NEW p \in Paths, NEW s \in Paths, Upto(s, p), NEW i \in Nat, Len(s) = i
  PROVE  s = SubSeq(p, 1, i) /\ i \in 1..Len(p)
<1>1. p \in Seq(Nat) /\ s \in Seq(Nat) /\ Len(s) \in Nat \ {0} /\ Len(p) \in Nat
  BY LenOfPath
<1>2. Len(s) <= Len(p) /\ s = SubSeq(p, 1, Len(s))
  BY <1>1, AncestorIs
<1> QED
  BY <1>1, <1>2

LEMMA LongerIsBelow ==
  ASSUME ScopesAssumption, NEW p \in Paths, NEW s \in Paths, NEW t \in Paths,
         Upto(s, p), Upto(t, p), Len(s) < Len(t)
  PROVE  Above(s, t)
<1>1. /\ p \in Seq(Nat) /\ s \in Seq(Nat) /\ t \in Seq(Nat)
      /\ Len(s) \in Nat /\ Len(t) \in Nat
  BY LenOfPath
<1>2. s = SubSeq(p, 1, Len(s)) /\ Len(s) \in 1..Len(p)
  BY <1>1, TheScopeOf
<1>3. t = SubSeq(p, 1, Len(t)) /\ Len(t) \in 1..Len(p)
  BY <1>1, TheScopeOf
<1>4. Above(SubSeq(p, 1, Len(s)), SubSeq(p, 1, Len(t)))
  BY <1>1, <1>2, <1>3, AncestorAbove
<1> QED
  BY <1>2, <1>3, <1>4

LEMMA GapPasses ==
  ASSUME ScopesAssumption, NEW d, Whole(d, made), NEW p \in Paths, NEW w, TrueNow(d, p, w),
         NEW i \in 1..Len(p), NEW chain, Passed(chain, p, i - 1, w),
         SubSeq(p, 1, i) \in Paths => ~HasScope(d, SubSeq(p, 1, i))
  PROVE  Passed(chain, p, i, w)
<1> DEFINE s == SubSeq(p, 1, i)
<1>1. i \in Nat \ {0} /\ i - 1 \in Nat
  BY LenOfPath
<1>2. ASSUME NEW b \in w.bounded
      PROVE  Len(b) \in Nat /\ Len(b) # i
  <2>1. b \in Paths /\ Upto(b, p) /\ d.scope[b] = "boundary"
    BY <1>2, BoundedIs DEF TrueNow
  <2>2. HasScope(d, b)
    BY <2>1 DEF HasScope
  <2> QED
    BY <1>1, <2>1, <2>2, LenOfPath, TheScopeOf
<1>3. ASSUME NEW item \in w.steady
      PROVE  Len(At(item, made)) \in Nat /\ Len(At(item, made)) # i
  <2>1. /\ At(item, made) \in Paths /\ Upto(At(item, made), p)
        /\ HasScope(d, At(item, made))
    BY <1>3, ShownIs DEF TrueNow
  <2> QED
    BY <1>1, <2>1, LenOfPath, TheScopeOf
<1>4. \A k \in 1..Len(chain) : Len(chain[k].path) \in Nat
  <2>1. \A k \in 1..Len(chain) : chain[k] \in Nodes
    BY ElementOfSeq DEF Passed
  <2> QED
    BY <2>1, LenOfPath DEF Nodes
<1>5. \A n \in Nat : n <= i - 1 => n <= i
  BY <1>1
<1>6. \A n \in Nat : n <= i /\ n # i => n <= i - 1
  BY <1>1
<1>7. \A k \in 1..Len(chain) : Len(chain[k].path) <= i
  BY <1>4, <1>5 DEF Passed
<1>8. \A b \in w.bounded : Len(b) <= i => Len(b) <= i - 1
  BY <1>2, <1>6
<1>9. \A item \in w.steady : Len(At(item, made)) <= i => Len(At(item, made)) <= i - 1
  BY <1>3, <1>6
<1> QED
  BY <1>7, <1>8, <1>9 DEF Passed

LEMMA ScopePasses ==
  ASSUME ScopesAssumption, NEW d, Whole(d, made), NEW p \in Paths, NEW w, TrueNow(d, p, w),
         NEW i \in 1..Len(p), NEW chain, Passed(chain, p, i - 1, w),
         SubSeq(p, 1, i) \in Paths, HasScope(d, SubSeq(p, 1, i))
  PROVE  Passed(Append(chain, [path |-> SubSeq(p, 1, i), kind |-> d.scope[SubSeq(p, 1, i)]]), p, i, w)
<1> DEFINE s == SubSeq(p, 1, i)
           node == [path |-> s, kind |-> d.scope[s]]
           n == Len(chain)
           new == Append(chain, node)
<1>1. i \in Nat \ {0} /\ i - 1 \in Nat /\ p \in Seq(Nat) /\ Len(p) \in Nat
  BY LenOfPath
<1>2. d.scope[s] \in {"open", "boundary"}
  BY DEF Whole, Tables, HasScope
<1>3. node \in Nodes
  BY <1>2 DEF Nodes
<1>4. chain \in Seq(Nodes)
  BY DEF Passed
<1>5. n \in Nat
  BY <1>4, LenProperties
<1>6. /\ new \in Seq(Nodes) /\ Len(new) = n + 1
      /\ \A k \in 1..n : new[k] = chain[k]
      /\ new[n + 1] = node
  BY <1>3, <1>4, AppendProperties
<1>7. Len(s) = i /\ Upto(s, p)
  <2>1. Len(s) = i /\ s \in Seq(Nat)
    BY <1>1, SubSeqProperties, LenProperties
  <2>2. SubSeq(p, 1, Len(p)) = p
    BY <1>1, SubSeqFull
  <2>3. CASE i = Len(p)
    BY <2>1, <2>2, <2>3 DEF Upto
  <2>4. CASE i < Len(p)
    <3>1. Len(p) \in 1..Len(p)
      BY <1>1
    <3>2. Above(SubSeq(p, 1, i), SubSeq(p, 1, Len(p)))
      BY <1>1, <2>4, <3>1, AncestorAbove
    <3> QED
      BY <2>1, <2>2, <3>2 DEF Upto
  <2> QED
    BY <1>1, <2>3, <2>4
<1>8. \A k \in 1..n : /\ Upto(chain[k].path, p)
                      /\ Len(chain[k].path) \in Nat /\ Len(chain[k].path) < i
                      /\ Len(chain[k].path) <= i
  <2>1. \A k \in 1..n : chain[k] \in Nodes
    BY <1>4, ElementOfSeq
  <2>2. \A k \in 1..n : chain[k].path \in Paths
    BY <2>1 DEF Nodes
  <2>3. \A k \in 1..n : Len(chain[k].path) \in Nat
    BY <2>2, LenOfPath
  <2>4. \A m \in Nat : m <= i - 1 => m < i /\ m <= i
    BY <1>1
  <2> QED
    BY <2>3, <2>4 DEF Passed
<1>9. \A item \in w.steady :
        /\ At(item, made) \in Paths /\ Upto(At(item, made), p)
        /\ Len(At(item, made)) \in Nat
        /\ \A b \in Bounded(d, p) : ~Above(At(item, made), b)
  BY ShownIs, LenOfPath DEF TrueNow
<1> HIDE DEF new, n, node
<1>10. \A k \in 1..(n + 1) : k \in 1..n \/ k = n + 1
  BY ONLY <1>5
<1>11. 1..n \subseteq 1..(n + 1) /\ n + 1 \in 1..(n + 1)
  BY ONLY <1>5
<1>12. node.path = s /\ node.kind = d.scope[s]
  BY DEF node
<1>13. \A k \in 1..(n + 1) : Upto(new[k].path, p) /\ Len(new[k].path) <= i
  <2>1. \A k \in 1..n : Upto(new[k].path, p) /\ Len(new[k].path) <= i
    BY ONLY <1>6, <1>8
  <2>2. Upto(new[n + 1].path, p) /\ Len(new[n + 1].path) <= i
    BY ONLY <1>1, <1>6, <1>7, <1>12
  <2> QED
    BY ONLY <1>10, <2>1, <2>2
<1>14. \A j, k \in 1..(n + 1) : j < k => Len(new[j].path) < Len(new[k].path)
  <2>1. \A j, k \in 1..n : j < k => Len(chain[j].path) < Len(chain[k].path)
    BY DEF Passed, n
  <2>2. \A j \in 1..n, k \in {n + 1} : Len(new[j].path) < Len(new[k].path)
    BY <1>6, <1>7, <1>8, <1>12
  <2>3. \A j, k \in 1..(n + 1) : j < k => j \in 1..n
    BY <1>5
  <2> QED
    BY <1>6, <1>10, <2>1, <2>2, <2>3
<1>15. \A k \in 1..(n + 1) : new[k].kind = "boundary" =>
         \A item \in w.steady : ~Above(At(item, made), new[k].path)
  <2>1. \A k \in 1..n : chain[k].kind = "boundary" =>
          \A item \in w.steady : ~Above(At(item, made), chain[k].path)
    BY DEF Passed, n
  <2>2. d.scope[s] = "boundary" => s \in Bounded(d, p)
    BY <1>7 DEF Bounded, Upto
  <2> QED
    BY <1>6, <1>9, <1>10, <1>12, <2>1, <2>2
<1>16. \A b \in w.bounded : Len(b) <= i =>
         \E k \in 1..(n + 1) : new[k].path = b /\ new[k].kind = "boundary"
  <2>1. SUFFICES ASSUME NEW b \in w.bounded, Len(b) <= i
                 PROVE  \E k \in 1..(n + 1) : new[k].path = b /\ new[k].kind = "boundary"
    OBVIOUS
  <2>2. b \in Paths /\ Upto(b, p) /\ d.scope[b] = "boundary" /\ Len(b) \in Nat
    BY BoundedIs, LenOfPath DEF TrueNow
  <2>3. CASE Len(b) = i
    <3>1. b = s
      BY <1>1, <2>2, <2>3, TheScopeOf
    <3> QED
      BY <1>6, <1>11, <1>12, <2>2, <3>1
  <2>4. CASE Len(b) # i
    <3>1. Len(b) <= i - 1
      BY <1>1, <2>1, <2>2, <2>4
    <3>2. \E k \in 1..n : chain[k].path = b /\ chain[k].kind = "boundary"
      BY <3>1 DEF Passed, n
    <3> QED
      BY <1>6, <1>11, <3>2
  <2> QED
    BY <2>3, <2>4
<1>17. \A item \in w.steady : Len(At(item, made)) <= i =>
         \E k \in 1..(n + 1) : new[k].path = At(item, made)
  <2>1. SUFFICES ASSUME NEW item \in w.steady, Len(At(item, made)) <= i
                 PROVE  \E k \in 1..(n + 1) : new[k].path = At(item, made)
    OBVIOUS
  <2>2. CASE Len(At(item, made)) = i
    <3>1. At(item, made) = s
      BY <1>1, <1>9, <2>2, TheScopeOf
    <3> QED
      BY <1>6, <1>11, <1>12, <3>1
  <2>3. CASE Len(At(item, made)) # i
    <3>1. Len(At(item, made)) <= i - 1
      BY <1>1, <1>9, <2>1, <2>3
    <3>2. \E k \in 1..n : chain[k].path = At(item, made)
      BY <3>1 DEF Passed, n
    <3> QED
      BY <1>6, <1>11, <3>2
  <2> QED
    BY <2>2, <2>3
<1> HIDE DEF s
<1>18. Passed(new, p, i, w)
  BY ONLY <1>6, <1>13, <1>14, <1>15, <1>16, <1>17 DEF Passed
<1> QED
  BY <1>18 DEF new, node, s

(* ApplyBoundary *)

LEMMA LastOf ==
  ASSUME NEW n \in Nat, NEW S \in SUBSET (1..n), S # {}
  PROVE  \E i \in S : \A j \in S : j <= i
<1> DEFINE T == {n - i : i \in S}
<1>1. T \in SUBSET Nat /\ T # {}
  <2>1. \A i \in S : n - i \in Nat
    OBVIOUS
  <2>2. PICK i \in S : TRUE
    OBVIOUS
  <2>3. n - i \in T
    OBVIOUS
  <2> QED
    BY <2>1, <2>3
<1>2. PICK t \in T : \A u \in T : t <= u
  <2> HIDE DEF T
  <2> QED
    BY <1>1, LeastOf
<1>3. PICK i \in S : t = n - i
  OBVIOUS
<1>4. ASSUME NEW j \in S
      PROVE  j <= i
  <2>1. n - j \in T
    OBVIOUS
  <2>2. i \in Nat /\ j \in Nat
    OBVIOUS
  <2> HIDE DEF T
  <2>3. t <= n - j
    BY ONLY <1>2, <2>1
  <2> QED
    BY ONLY <1>3, <2>2, <2>3, n \in Nat
<1> QED
  BY <1>4

LEMMA NothingIsCut ==
  /\ ApplyBoundary(<<>>) = <<>>
  /\ ApplyBoundary(<<>>) \in Seq(Nodes)
<1>1. Len(<<>>) = 0 /\ <<>> \in Seq(Nodes)
  BY EmptySeq
<1>2. DOMAIN <<>> = {}
  OBVIOUS
<1>3. {i \in DOMAIN <<>> : <<>>[i].kind = "boundary"} = {}
  BY <1>2
<1>4. ApplyBoundary(<<>>) = SubSeq(<<>>, 1, 0)
  BY <1>1, <1>3 DEF ApplyBoundary
<1>5. SubSeq(<<>>, 1, 0) = <<>>
  BY SubSeqEmpty
<1> QED
  BY <1>1, <1>4, <1>5

LEMMA BoundaryIs ==
  ASSUME NEW chain \in Seq(Nodes), chain # <<>>
  PROVE  \E f \in 1..Len(chain) :
           /\ ApplyBoundary(chain) = SubSeq(chain, f, Len(chain))
           /\ f = 1 \/ chain[f].kind = "boundary"
           /\ \A j \in 1..Len(chain) : chain[j].kind = "boundary" => j <= f
<1> DEFINE marks == {i \in DOMAIN chain : chain[i].kind = "boundary"}
           n == Len(chain)
<1>1. n \in Nat \ {0} /\ DOMAIN chain = 1..n
  BY EmptySeq, LenProperties
<1>2. CASE marks = {}
  <2>1. ApplyBoundary(chain) = SubSeq(chain, 1, n)
    BY <1>2 DEF ApplyBoundary
  <2>2. \A j \in 1..n : chain[j].kind # "boundary"
    BY <1>1, <1>2
  <2> QED
    BY <1>1, <2>1, <2>2
<1>3. CASE marks # {}
  <2> DEFINE f == CHOOSE i \in marks : \A j \in marks : j <= i
  <2>1. marks \in SUBSET (1..n)
    BY <1>1
  <2>2. \E i \in marks : \A j \in marks : j <= i
    <3> HIDE DEF marks, n
    <3> QED
      BY <1>1, <1>3, <2>1, LastOf
  <2>3. f \in marks /\ \A j \in marks : j <= f
    BY <2>2
  <2>4. ApplyBoundary(chain) = SubSeq(chain, f, n)
    BY <1>3 DEF ApplyBoundary
  <2> HIDE DEF f
  <2> QED
    BY <1>1, <2>3, <2>4
<1> QED
  BY <1>2, <1>3

(* What is left of the chain: all that was in view all along, and nothing    *)
(* that was hidden all along.                                                *)
Cut(c, p, w) ==
  /\ c \in Seq(Nodes) /\ Len(c) \in Nat \ {0}
  /\ \A k \in 1..Len(c) : Upto(c[k].path, p)
  /\ \A j, k \in 1..Len(c) : j < k => Len(c[j].path) < Len(c[k].path)
  /\ \A k \in 1..Len(c) : c[k].kind = "boundary" =>
       \A item \in w.steady : ~Above(At(item, made), c[k].path)
  /\ \A k \in 1..Len(c) : \A b \in w.bounded : ~Above(c[k].path, b)
  /\ \A item \in w.steady : \E k \in 1..Len(c) : c[k].path = At(item, made)

LEMMA ChainIsCut ==
  ASSUME ScopesAssumption, NEW d, Whole(d, made), NEW p \in Paths, NEW w, TrueNow(d, p, w),
         NEW chain, chain # <<>>, Passed(chain, p, Len(p), w),
         NEW c, c = ApplyBoundary(chain)
  PROVE  Cut(c, p, w)
<1> DEFINE n == Len(chain)
<1>1. chain \in Seq(Nodes)
  BY DEF Passed
<1>2. PICK f \in 1..n :
        /\ c = SubSeq(chain, f, n)
        /\ f = 1 \/ chain[f].kind = "boundary"
        /\ \A j \in 1..n : chain[j].kind = "boundary" => j <= f
  BY <1>1, BoundaryIs
<1>3. n \in Nat \ {0} /\ f \in Nat
  BY <1>1, EmptySeq
<1>4. \A k \in 1..n : chain[k] \in Nodes
  BY <1>1, ElementOfSeq
<1>5. \A k \in 1..n : /\ chain[k].path \in Paths /\ chain[k].path \in Seq(Nat)
                      /\ Len(chain[k].path) \in Nat
                      /\ Upto(chain[k].path, p)
  <2>1. \A k \in 1..n : chain[k].path \in Paths
    BY <1>4 DEF Nodes
  <2> QED
    BY <2>1, LenOfPath DEF Passed
<1>6. /\ c \in Seq(Nodes) /\ Len(c) = n - f + 1
      /\ \A k \in 1..(n - f + 1) : c[k] = chain[f + k - 1]
  <2>1. \A k \in f..n : chain[k] \in Nodes
    BY <1>3, <1>4
  <2> HIDE DEF n
  <2> QED
    BY <1>2, <1>3, <2>1, SubSeqProperties
<1> DEFINE l == n - f + 1
<1>7. l \in Nat \ {0} /\ Len(c) = l
  BY <1>3, <1>6
<1>8. \A k \in 1..l : f + k - 1 \in 1..n /\ f + k - 1 >= f
  BY <1>3
<1>9. \A k \in 1..n : k >= f => k - f + 1 \in 1..l /\ f + (k - f + 1) - 1 = k
  BY <1>3
<1>10. \A j, k \in 1..n : j < k => Len(chain[j].path) < Len(chain[k].path)
  BY DEF Passed
<1>11. \A k \in 1..n : chain[k].kind = "boundary" =>
         \A item \in w.steady : ~Above(At(item, made), chain[k].path)
  BY DEF Passed
<1>12. \A item \in w.steady : /\ At(item, made) \in Paths /\ Upto(At(item, made), p)
                              /\ Len(At(item, made)) <= Len(p)
  BY ShownIs, LenOfPath, AncestorIs DEF TrueNow
<1>13. \A b \in w.bounded : b \in Paths /\ b \in Seq(Nat) /\ Upto(b, p) /\ Len(b) \in Nat /\ Len(b) <= Len(p)
  BY BoundedIs, LenOfPath, AncestorIs DEF TrueNow
<1>14. \A item \in w.steady : \E k \in 1..n : chain[k].path = At(item, made)
  BY <1>12 DEF Passed
<1>15. \A b \in w.bounded : \E k \in 1..n : chain[k].path = b /\ chain[k].kind = "boundary"
  BY <1>13 DEF Passed
<1>16. \A k \in 1..l : c[k] = chain[f + k - 1]
  BY <1>6
<1>17. \A k \in 1..n : k >= f => c[k - f + 1] = chain[k]
  BY <1>9, <1>16
<1> HIDE DEF n, l
<1>18. \A k \in 1..l : Upto(c[k].path, p)
  BY <1>5, <1>8, <1>16
<1>19. \A j, k \in 1..l : j < k => Len(c[j].path) < Len(c[k].path)
  <2>1. SUFFICES ASSUME NEW j \in 1..l, NEW k \in 1..l, j < k
                 PROVE  Len(c[j].path) < Len(c[k].path)
    OBVIOUS
  <2>2. f + j - 1 < f + k - 1 /\ f + j - 1 \in 1..n /\ f + k - 1 \in 1..n
    BY <1>3, <1>7, <1>8, <2>1
  <2>3. Len(chain[f + j - 1].path) < Len(chain[f + k - 1].path)
    BY ONLY <1>10, <2>2
  <2>4. c[j] = chain[f + j - 1] /\ c[k] = chain[f + k - 1]
    BY ONLY <1>16, j \in 1..l, k \in 1..l
  <2> QED
    BY <2>3, <2>4
<1>20. \A k \in 1..l : c[k].kind = "boundary" =>
         \A item \in w.steady : ~Above(At(item, made), c[k].path)
  BY <1>8, <1>11, <1>16
<1>21. \A k \in 1..l : \A b \in w.bounded : ~Above(c[k].path, b)
  <2>1. SUFFICES ASSUME NEW k \in 1..l, NEW b \in w.bounded, Above(c[k].path, b)
                 PROVE  FALSE
    OBVIOUS
  <2>2. PICK j \in 1..n : chain[j].path = b /\ chain[j].kind = "boundary"
    BY <1>15
  <2>3. j <= f
    BY ONLY <1>2, <2>2, j \in 1..n
  <2> DEFINE i == f + k - 1
  <2>4. i \in 1..n /\ i >= f /\ c[k] = chain[i]
    BY <1>8, <1>16
  <2> HIDE DEF i
  <2>5. j = i \/ j < i
    BY <1>3, <2>3, <2>4
  <2>6. Len(b) <= Len(chain[i].path)
    BY <1>5, <1>10, <2>2, <2>4, <2>5
  <2>7. Len(chain[i].path) < Len(b)
    <3>1. chain[i].path \in Seq(Nat) /\ b \in Seq(Nat) /\ Above(chain[i].path, b)
      BY <1>5, <1>13, <2>1, <2>4
    <3> QED
      BY <3>1, AboveIsShorter
  <2> QED
    BY <1>5, <1>13, <2>4, <2>6, <2>7
<1>22. \A item \in w.steady : \E k \in 1..l : c[k].path = At(item, made)
  <2>1. SUFFICES ASSUME NEW item \in w.steady
                 PROVE  \E k \in 1..l : c[k].path = At(item, made)
    OBVIOUS
  <2>2. PICK j \in 1..n : chain[j].path = At(item, made)
    BY <1>14
  <2>3. CASE j >= f
    <3>1. j - f + 1 \in 1..l /\ c[j - f + 1] = chain[j]
      BY <1>9, <1>17, <2>3
    <3> QED
      BY <2>2, <3>1
  <2>4. CASE j < f
    <3>1. chain[f].kind = "boundary"
      BY <1>2, <1>3, <2>4
    <3>2. ~Above(At(item, made), chain[f].path)
      BY <1>11, <3>1
    <3>3. Len(chain[j].path) < Len(chain[f].path)
      BY <1>10, <2>4
    <3>4. Above(chain[j].path, chain[f].path)
      BY <1>5, <3>3, LongerIsBelow
    <3> QED
      BY <2>2, <3>2, <3>4
  <2> QED
    BY <1>3, <2>3, <2>4
<1> QED
  BY <1>6, <1>7, <1>18, <1>19, <1>20, <1>21, <1>22 DEF Cut

(* The walk as a whole, between two scopes and at its end. *)

LEMMA WalkHasPassed ==
  ASSUME ScopesAssumption, NEW d, Whole(d, made), NEW r \in Requests, r.path \in Paths,
         r.at = "walk", NEW w, TrueNow(d, r.path, w), Along(r, w, made)
  PROVE  Passed(r.chain, r.path, r.i - 1, w) /\ r.i \in 1..Len(r.path) /\ r.doc = {}
<1>1. r.i \in 1..Len(r.path) /\ r.doc = {}
  BY DEF Along, Walked
<1>2. r.i \in Nat /\ r.chain \in Seq(Nodes)
  BY DEF Requests, Nodes
<1>3. \A n \in Nat : (n < r.i <=> n <= r.i - 1)
  BY <1>2
<1>4. \A k \in 1..Len(r.chain) : Len(r.chain[k].path) \in Nat
  <2>1. \A k \in 1..Len(r.chain) : r.chain[k] \in Nodes
    BY <1>2, ElementOfSeq
  <2>2. \A k \in 1..Len(r.chain) : r.chain[k].path \in Paths
    BY <2>1 DEF Nodes
  <2> QED
    BY <2>2, LenOfPath
<1>5. \A b \in w.bounded : Len(b) \in Nat
  BY BoundedIs, LenOfPath DEF TrueNow
<1>6. \A item \in w.steady : Len(At(item, made)) \in Nat
  BY ShownIs, LenOfPath DEF TrueNow
<1>7. \A k \in 1..Len(r.chain) : Upto(r.chain[k].path, r.path) /\ Len(r.chain[k].path) <= r.i - 1
  BY <1>3, <1>4 DEF Along, Chained, Walked
<1>8. \A b \in w.bounded : Len(b) <= r.i - 1 =>
        \E k \in 1..Len(r.chain) : r.chain[k].path = b /\ r.chain[k].kind = "boundary"
  BY <1>3, <1>5 DEF Along, Walked
<1>9. \A item \in w.steady : Len(At(item, made)) <= r.i - 1 =>
        \E k \in 1..Len(r.chain) : r.chain[k].path = At(item, made)
  BY <1>3, <1>6 DEF Along, Walked
<1> QED
  BY <1>1, <1>2, <1>7, <1>8, <1>9 DEF Passed, Along, Chained

LEMMA WalkGoesOn ==
  ASSUME ScopesAssumption, NEW d, Whole(d, made), NEW r, NEW p \in Paths, r.path = p,
         NEW n \in 1..Len(p), n < Len(p), r.at = "walk", r.i = n + 1, r.doc = {},
         NEW w, TrueNow(d, p, w), Passed(r.chain, p, n, w)
  PROVE  Along(r, w, made)
<1>1. Len(p) \in Nat /\ n \in Nat
  BY LenOfPath
<1>2. \A m \in Nat : (m <= n <=> m < n + 1)
  BY <1>1
<1>3. \A k \in 1..Len(r.chain) : Len(r.chain[k].path) \in Nat
  <2>1. \A k \in 1..Len(r.chain) : r.chain[k] \in Nodes
    BY ElementOfSeq DEF Passed
  <2>2. \A k \in 1..Len(r.chain) : r.chain[k].path \in Paths
    BY <2>1 DEF Nodes
  <2> QED
    BY <2>2, LenOfPath
<1>4. \A b \in w.bounded : Len(b) \in Nat
  BY BoundedIs, LenOfPath DEF TrueNow
<1>5. \A item \in w.steady : Len(At(item, made)) \in Nat
  BY ShownIs, LenOfPath DEF TrueNow
<1>6. Chained(r, w, made)
  BY DEF Passed, Chained
<1>7. Walked(r, w, made)
  <2>1. r.i \in 1..Len(r.path)
    BY <1>1
  <2>2. \A k \in 1..Len(r.chain) : Len(r.chain[k].path) < r.i
    BY <1>2, <1>3 DEF Passed
  <2>3. \A b \in w.bounded : Len(b) < r.i =>
          \E k \in 1..Len(r.chain) : r.chain[k].path = b /\ r.chain[k].kind = "boundary"
    BY <1>2, <1>4 DEF Passed
  <2>4. \A item \in w.steady : Len(At(item, made)) < r.i =>
          \E k \in 1..Len(r.chain) : r.chain[k].path = At(item, made)
    BY <1>2, <1>5 DEF Passed
  <2> QED
    BY <2>1, <2>2, <2>3, <2>4 DEF Walked
<1> QED
  BY <1>6, <1>7 DEF Along, Limited, Collected

LEMMA WalkFindsNothing ==
  ASSUME ScopesAssumption, NEW d, Whole(d, made), NEW r, NEW p \in Paths,
         r.at = "done", r.chain = <<>>, r.doc = {},
         NEW w, TrueNow(d, p, w), Passed(<<>>, p, Len(p), w)
  PROVE  Along(r, w, made)
<1>1. Len(<<>>) = 0
  BY EmptySeq
<1>2. \A k \in 1..Len(r.chain) : FALSE
  BY <1>1
<1>3. \A item \in w.steady : Len(At(item, made)) <= Len(p)
  BY ShownIs, LenOfPath, AncestorIs DEF TrueNow
<1>4. w.steady = {}
  BY <1>1, <1>3 DEF Passed
<1>5. Chained(r, w, made)
  BY <1>2 DEF Chained
<1>6. Limited(r, w, made)
  BY <1>2, <1>4 DEF Limited
<1>7. Collected(r, w, made)
  BY <1>4 DEF Collected
<1> QED
  BY <1>5, <1>6, <1>7 DEF Along, Walked

LEMMA WalkFinds ==
  ASSUME ScopesAssumption, NEW d, Whole(d, made), NEW r, NEW p \in Paths, r.path = p,
         NEW chain, chain # <<>>, r.at = "plans", r.chain = ApplyBoundary(chain), r.i = 1,
         r.doc = {}, NEW w, TrueNow(d, p, w), Passed(chain, p, Len(p), w)
  PROVE  Along(r, w, made)
<1>1. Cut(r.chain, p, w)
  BY ChainIsCut
<1>2. Chained(r, w, made)
  BY <1>1 DEF Cut, Chained
<1>3. Limited(r, w, made)
  BY <1>1 DEF Cut, Limited
<1>4. Collected(r, w, made)
  <2>1. \A k \in 1..Len(r.chain) : ~(k < 1)
    OBVIOUS
  <2> QED
    BY <1>1, <2>1 DEF Cut, Collected, Round
<1> QED
  BY <1>2, <1>3, <1>4 DEF Along, Walked

LEMMA GlanceIsSeen ==
  ASSUME NEW c, NEW w, Less(w, Glance(c))
  PROVE  TrueNow(db[req[c].m], req[c].path, w)
BY DEF Less, Glance, TrueNow

LEMMA WalkReads ==
  ASSUME ScopesAssumption, NEW d, Whole(d, made), NEW r \in Requests, r.path \in Paths,
         r.at = "walk", NEW w, TrueNow(d, r.path, w), Along(r, w, made),
         NEW s, s = SubSeq(r.path, 1, r.i),
         NEW kind, kind = IF s \in Paths THEN d.scope[s] ELSE "none",
         NEW chain, chain = IF kind = "none" THEN r.chain
                            ELSE Append(r.chain, [path |-> s, kind |-> kind])
  PROVE  Passed(chain, r.path, r.i, w) /\ chain \in Seq(Nodes)
<1>1. Passed(r.chain, r.path, r.i - 1, w) /\ r.i \in 1..Len(r.path)
  BY WalkHasPassed
<1>2. CASE kind = "none"
  <2>1. chain = r.chain /\ (s \in Paths => ~HasScope(d, s))
    BY <1>2 DEF HasScope
  <2>2. Passed(r.chain, r.path, r.i, w)
    BY <1>1, <2>1, GapPasses
  <2> QED
    BY <2>1, <2>2 DEF Passed
<1>3. CASE kind # "none"
  <2>1. s \in Paths /\ kind = d.scope[s]
    BY <1>3
  <2>2. HasScope(d, s)
    BY <1>3, <2>1 DEF HasScope
  <2>3. Passed(Append(r.chain, [path |-> s, kind |-> d.scope[s]]), r.path, r.i, w)
    BY <1>1, <2>1, <2>2, ScopePasses
  <2>4. chain = Append(r.chain, [path |-> s, kind |-> d.scope[s]])
    BY <1>3, <2>1
  <2> QED
    BY ONLY <2>3, <2>4 DEF Passed
<1> QED
  BY <1>2, <1>3

(* The request after a scope that is not the last, and after the last one. *)
OneMore(r, chain) == [r EXCEPT !.chain = chain, !.i = r.i + 1]
AllWalked(r, chain) == [r EXCEPT !.at = IF chain = <<>> THEN "done" ELSE "plans",
                                 !.chain = ApplyBoundary(chain), !.i = 1]

(* It is still the same context, and under way. *)
Onward(rec, r, w) ==
  /\ rec \in Requests /\ rec.m = r.m /\ rec.path = r.path /\ rec.doc = {}
  /\ rec.at \in {"walk", "plans", "done"} /\ Along(rec, w, made)

LEMMA WalkStep ==
  ASSUME ScopesAssumption, NEW d, Whole(d, made), NEW r \in Requests, r.path \in Paths,
         r.at = "walk", r.doc = {}, r.i \in 1..Len(r.path), NEW w, TrueNow(d, r.path, w),
         NEW chain \in Seq(Nodes), Passed(chain, r.path, r.i, w), r.i < Len(r.path),
         NEW rec, rec = OneMore(r, chain)
  PROVE  Onward(rec, r, w)
<1>1. r.i \in Nat /\ r.i + 1 \in Nat
  BY DEF Requests
<1>2. /\ rec.at = "walk" /\ rec.m = r.m /\ rec.path = r.path /\ rec.doc = {}
      /\ rec.chain = chain /\ rec.i = r.i + 1
  BY DEF Requests, OneMore
<1>3. rec \in Requests
  BY <1>1 DEF Requests, Nodes, OneMore
<1>4. Along(rec, w, made)
  BY <1>2, WalkGoesOn
<1> QED
  BY <1>2, <1>3, <1>4 DEF Onward

LEMMA WalkEnd ==
  ASSUME ScopesAssumption, NEW d, Whole(d, made), NEW r \in Requests, r.path \in Paths,
         r.at = "walk", r.doc = {}, NEW w, TrueNow(d, r.path, w),
         NEW chain \in Seq(Nodes), Passed(chain, r.path, Len(r.path), w),
         NEW rec, rec = AllWalked(r, chain)
  PROVE  Onward(rec, r, w)
<1>1. PICK at : at = IF chain = <<>> THEN "done" ELSE "plans"
  OBVIOUS
<1>2. PICK cut : cut = ApplyBoundary(chain)
  OBVIOUS
<1>3. cut \in Seq(Nodes)
  <2>1. CASE chain = <<>>
    BY <1>2, <2>1, NothingIsCut
  <2>2. CASE chain # <<>>
    BY <1>2, <2>2, ChainIsCut DEF Cut
  <2> QED
    BY <2>1, <2>2
<1>4. rec = [r EXCEPT !.at = at, !.chain = cut, !.i = 1] /\ at \in {"plans", "done"}
  BY <1>1, <1>2 DEF AllWalked
<1>5. /\ rec.at = at /\ rec.m = r.m /\ rec.path = r.path /\ rec.doc = {}
      /\ rec.chain = cut /\ rec.i = 1
  BY ONLY <1>4, r \in Requests, r.doc = {} DEF Requests
<1>6. rec \in Requests
  BY ONLY <1>3, <1>4, r \in Requests DEF Requests, Nodes
<1>7. Along(rec, w, made)
  <2>1. CASE chain = <<>>
    <3>1. rec.at = "done" /\ rec.chain = <<>>
      BY <1>1, <1>2, <1>5, <2>1, NothingIsCut
    <3> QED
      BY <1>5, <2>1, <3>1, WalkFindsNothing
  <2>2. CASE chain # <<>>
    <3>1. rec.at = "plans" /\ rec.chain = ApplyBoundary(chain)
      BY <1>1, <1>2, <1>5, <2>2
    <3> QED
      BY <1>5, <2>2, <3>1, WalkFinds
  <2> QED
    BY <2>1, <2>2
<1> QED
  BY <1>4, <1>5, <1>6, <1>7 DEF Onward

LEMMA ResolveChainDoes ==
  ASSUME ScopesAssumption, Filed, NEW c \in Callers, Followed(c), ResolveChain(c)
  PROVE  /\ Filed' /\ db' = db /\ made' = made
         /\ Building(req[c]) /\ Building(req'[c])
         /\ req'[c].m = req[c].m /\ req'[c].path = req[c].path
         /\ Along(req'[c], watch[c], made)
         /\ \A x \in Callers \ {c} : req'[x] = req[x]
<1>1. PICK r, d, w : r = req[c] /\ d = db[req[c].m] /\ w = watch[c]
  OBVIOUS
<1>2. /\ r \in Requests /\ r.at = "walk" /\ r.m \in Machines /\ r.path \in Paths
      /\ \A item \in r.doc : Named(item, made)
  BY <1>1 DEF ResolveChain, Filed, CallsHold, Placed
<1>3. Building(r) /\ Along(r, w, made) /\ TrueNow(d, r.path, w)
  BY <1>1, <1>2, GlanceIsSeen DEF Followed, Building
<1>4. Whole(d, made)
  BY <1>1, <1>2 DEF Filed, TablesHold
<1>5. r.i \in 1..Len(r.path) /\ r.doc = {}
  BY <1>2, <1>3, <1>4, WalkHasPassed
<1>6. Ancestors(r.path)[r.i] = SubSeq(r.path, 1, r.i)
  BY <1>5 DEF Ancestors
<1>7. PICK s : s = SubSeq(r.path, 1, r.i)
  OBVIOUS
<1>8. PICK kind : kind = IF s \in Paths THEN d.scope[s] ELSE "none"
  OBVIOUS
<1>9. PICK chain : chain = IF kind = "none" THEN r.chain
                           ELSE Append(r.chain, [path |-> s, kind |-> kind])
  OBVIOUS
<1>10. PICK rec : rec = IF r.i < Len(r.path) THEN OneMore(r, chain) ELSE AllWalked(r, chain)
  OBVIOUS
<1>11. req' = [req EXCEPT ![c] = rec] /\ UNCHANGED tables
  BY <1>1, <1>6, <1>7, <1>8, <1>9, <1>10 DEF ResolveChain, Goto, OneMore, AllWalked
<1>12. Passed(chain, r.path, r.i, w) /\ chain \in Seq(Nodes)
  BY <1>2, <1>3, <1>4, <1>7, <1>8, <1>9, WalkReads
<1>13. Onward(rec, r, w)
  <2>1. CASE r.i < Len(r.path)
    BY <1>2, <1>3, <1>4, <1>5, <1>10, <1>12, <2>1, WalkStep
  <2>2. CASE ~(r.i < Len(r.path))
    <3>1. r.i = Len(r.path)
      BY <1>2, <1>5, <2>2, LenOfPath
    <3> QED
      BY <1>2, <1>3, <1>4, <1>5, <1>10, <1>12, <2>2, <3>1, WalkEnd
  <2> QED
    BY <2>1, <2>2
<1>14. db' = db /\ made' = made /\ outbox' = outbox /\ up' = up
  BY <1>11 DEF tables
<1>15. MadeStays
  BY <1>14, SameGrows
<1>16. TablesHold' /\ RowsHold'
  BY <1>14, <1>15, TablesStay, RowsStay DEF Filed
<1>17. CallsHold' /\ req'[c] = rec /\ \A x \in Callers \ {c} : req'[x] = req[x]
  <2>1. CallsHold /\ \A item \in rec.doc : Named(item, made')
    BY <1>13 DEF Filed, Onward
  <2>2. /\ rec \in Requests /\ rec.m \in Machines /\ rec.path \in Paths
        /\ rec.at \notin {"read", "enqueue"}
    BY <1>2, <1>13 DEF Onward
  <2> QED
    BY <1>11, <1>15, <2>1, <2>2, Moves
<1> QED
  BY <1>1, <1>3, <1>13, <1>14, <1>16, <1>17 DEF Filed, Building, Onward

-------------------------------------------------------------------------------
(* The two rounds over the chain: GetPlan and ListLearnings. *)

(* What a round reads of one scope: items of that scope that are not         *)
(* superseded all along, and among them whatever was in view all along.      *)
Fits(items, r, w, sort) ==
  /\ items \subseteq Items
  /\ \A item \in items :
       /\ Named(item, made)
       /\ At(item, made) = r.chain[r.i].path
       /\ item[1] = "learning" => item[2] \notin w.replaced
  /\ \A item \in w.steady :
       item[1] = sort /\ r.chain[r.i].path = At(item, made) => item \in items

More(r, items, at, next) ==
  [r EXCEPT !.doc = r.doc \cup items,
            !.at = IF r.at = at /\ r.i = Len(r.chain) THEN next ELSE at,
            !.i = IF r.i < Len(r.chain) THEN r.i + 1 ELSE 1]

LEMMA MoreIs ==
  ASSUME NEW r \in Requests, NEW w, NEW sort, Round(r, w, made, sort),
         NEW items, Fits(items, r, w, sort),
         NEW at \in {"plans", "learnings"}, r.at = at, NEW next \in {"learnings", "done"},
         NEW rec, rec = More(r, items, at, next)
  PROVE  /\ rec \in Requests
         /\ rec.m = r.m /\ rec.path = r.path /\ rec.chain = r.chain
         /\ rec.doc = r.doc \cup items
         /\ \/ r.i < Len(r.chain) /\ rec.at = at /\ rec.i = r.i + 1
            \/ r.i = Len(r.chain) /\ rec.at = next /\ rec.i = 1
         /\ Len(r.chain) \in Nat /\ r.i \in 1..Len(r.chain)
<1>1. r.chain \in Seq(Nodes) /\ r.i \in Nat /\ r.doc \subseteq Items
  BY DEF Requests, Nodes
<1>2. Len(r.chain) \in Nat /\ r.i \in 1..Len(r.chain)
  BY <1>1, LenProperties DEF Round
<1>3. PICK a : a = IF r.at = at /\ r.i = Len(r.chain) THEN next ELSE at
  OBVIOUS
<1>4. PICK i : i = IF r.i < Len(r.chain) THEN r.i + 1 ELSE 1
  OBVIOUS
<1>5. rec = [r EXCEPT !.doc = r.doc \cup items, !.at = a, !.i = i]
  BY <1>3, <1>4 DEF More
<1>6. /\ a \in {"plans", "learnings", "done"} /\ i \in Nat
      /\ \/ r.i < Len(r.chain) /\ a = at /\ i = r.i + 1
         \/ r.i = Len(r.chain) /\ a = next /\ i = 1
  BY <1>2, <1>3, <1>4
<1>7. r.doc \cup items \subseteq Items
  BY <1>1 DEF Fits
<1>8. rec \in Requests
  BY ONLY <1>5, <1>6, <1>7, r \in Requests DEF Requests
<1>9. /\ rec.m = r.m /\ rec.path = r.path /\ rec.chain = r.chain
      /\ rec.doc = r.doc \cup items /\ rec.at = a /\ rec.i = i
  BY ONLY <1>5, r \in Requests DEF Requests
<1> QED
  BY <1>2, <1>6, <1>8, <1>9

LEMMA RoundGoesOn ==
  ASSUME NEW r, NEW w, NEW sort, Round(r, w, made, sort), NEW items, Fits(items, r, w, sort),
         Len(r.chain) \in Nat, r.i < Len(r.chain),
         NEW rec, rec.chain = r.chain, rec.i = r.i + 1, rec.doc = r.doc \cup items
  PROVE  Round(rec, w, made, sort)
<1>1. r.i \in 1..Len(r.chain)
  BY DEF Round
<1>2. rec.i \in 1..Len(rec.chain)
  BY <1>1
<1>3. ASSUME NEW item \in w.steady, item[1] = sort, NEW k \in 1..Len(r.chain), k < r.i + 1,
             r.chain[k].path = At(item, made)
      PROVE  item \in r.doc \cup items
  <2>1. CASE k < r.i
    BY <1>3, <2>1 DEF Round
  <2>2. CASE k = r.i
    BY <1>3, <2>2 DEF Fits
  <2> QED
    BY <1>1, <1>3, <2>1, <2>2
<1> QED
  BY <1>2, <1>3 DEF Round

LEMMA RoundEnds ==
  ASSUME NEW r, NEW w, NEW sort, Round(r, w, made, sort), NEW items, Fits(items, r, w, sort),
         Len(r.chain) \in Nat, r.i = Len(r.chain), Limited(r, w, made), r.at # "walk"
  PROVE  \A item \in w.steady : item[1] = sort => item \in r.doc \cup items
<1>1. SUFFICES ASSUME NEW item \in w.steady, item[1] = sort
               PROVE  item \in r.doc \cup items
  OBVIOUS
<1>2. PICK k \in 1..Len(r.chain) : r.chain[k].path = At(item, made)
  BY DEF Limited
<1>3. CASE k < r.i
  BY <1>1, <1>2, <1>3 DEF Round
<1>4. CASE k = r.i
  BY <1>1, <1>2, <1>4 DEF Fits
<1> QED
  BY <1>2, <1>3, <1>4

LEMMA LimitedGrows ==
  ASSUME NEW r, NEW w, NEW sort, Round(r, w, made, sort), NEW items, Fits(items, r, w, sort),
         Limited(r, w, made), r.at # "walk",
         NEW rec, rec.chain = r.chain, rec.doc = r.doc \cup items
  PROVE  Limited(rec, w, made)
<1>1. r.i \in 1..Len(r.chain)
  BY DEF Round
<1>2. ASSUME NEW item \in r.doc \cup items
      PROVE  /\ \E k \in 1..Len(r.chain) : r.chain[k].path = At(item, made)
             /\ item[1] = "learning" => item[2] \notin w.replaced
  <2>1. CASE item \in r.doc
    BY <2>1 DEF Limited
  <2>2. CASE item \in items
    BY <1>1, <2>2 DEF Fits
  <2> QED
    BY <1>2, <2>1, <2>2
<1> QED
  BY <1>2 DEF Limited

LEMMA PlanRound ==
  ASSUME NEW r \in Requests, r.at = "plans", NEW w, Along(r, w, made),
         NEW items, Fits(items, r, w, "plan"),
         NEW rec, rec = More(r, items, "plans", "learnings")
  PROVE  rec.at \in {"plans", "learnings"} /\ Along(rec, w, made)
<1>1. Chained(r, w, made) /\ Limited(r, w, made) /\ Round(r, w, made, "plan")
  BY DEF Along, Collected
<1>2. /\ rec.path = r.path /\ rec.chain = r.chain /\ rec.doc = r.doc \cup items
      /\ \/ r.i < Len(r.chain) /\ rec.at = "plans" /\ rec.i = r.i + 1
         \/ r.i = Len(r.chain) /\ rec.at = "learnings" /\ rec.i = 1
      /\ Len(r.chain) \in Nat /\ r.i \in 1..Len(r.chain)
  BY <1>1, MoreIs
<1>3. Chained(rec, w, made)
  BY <1>1, <1>2 DEF Chained
<1>4. Limited(rec, w, made)
  BY <1>1, <1>2, LimitedGrows
<1>5. CASE r.i < Len(r.chain) /\ rec.at = "plans" /\ rec.i = r.i + 1
  <2>1. Round(rec, w, made, "plan")
    BY <1>1, <1>2, <1>5, RoundGoesOn
  <2> QED
    BY <1>3, <1>4, <1>5, <2>1 DEF Along, Walked, Collected
<1>6. CASE r.i = Len(r.chain) /\ rec.at = "learnings" /\ rec.i = 1
  <2>1. \A item \in w.steady : item[1] = "plan" => item \in rec.doc
    BY <1>1, <1>2, <1>6, RoundEnds
  <2>2. Round(rec, w, made, "learning")
    <3>1. \A k \in 1..Len(rec.chain) : ~(k < rec.i)
      BY <1>6
    <3>2. rec.i \in 1..Len(rec.chain)
      BY <1>2, <1>6
    <3> QED
      BY <3>1, <3>2 DEF Round
  <2> QED
    BY <1>3, <1>4, <1>6, <2>1, <2>2 DEF Along, Walked, Collected
<1> QED
  BY <1>2, <1>5, <1>6

LEMMA LearningRound ==
  ASSUME NEW r \in Requests, r.at = "learnings", NEW w, Along(r, w, made),
         \A item \in w.steady : item[1] \in {"plan", "learning"},
         NEW items, Fits(items, r, w, "learning"),
         NEW rec, rec = More(r, items, "learnings", "done")
  PROVE  rec.at \in {"learnings", "done"} /\ Along(rec, w, made)
<1>1. /\ Chained(r, w, made) /\ Limited(r, w, made) /\ Round(r, w, made, "learning")
      /\ \A item \in w.steady : item[1] = "plan" => item \in r.doc
  BY DEF Along, Collected
<1>2. /\ rec.path = r.path /\ rec.chain = r.chain /\ rec.doc = r.doc \cup items
      /\ \/ r.i < Len(r.chain) /\ rec.at = "learnings" /\ rec.i = r.i + 1
         \/ r.i = Len(r.chain) /\ rec.at = "done" /\ rec.i = 1
      /\ Len(r.chain) \in Nat /\ r.i \in 1..Len(r.chain)
  BY <1>1, MoreIs
<1>3. Chained(rec, w, made)
  BY <1>1, <1>2 DEF Chained
<1>4. Limited(rec, w, made)
  BY <1>1, <1>2, LimitedGrows
<1>5. CASE r.i < Len(r.chain) /\ rec.at = "learnings" /\ rec.i = r.i + 1
  <2>1. Round(rec, w, made, "learning")
    BY <1>1, <1>2, <1>5, RoundGoesOn
  <2> QED
    BY <1>1, <1>2, <1>3, <1>4, <1>5, <2>1 DEF Along, Walked, Collected
<1>6. CASE r.i = Len(r.chain) /\ rec.at = "done" /\ rec.i = 1
  <2>1. \A item \in w.steady : item[1] = "learning" => item \in rec.doc
    BY <1>1, <1>2, <1>6, RoundEnds
  <2>2. w.steady \subseteq rec.doc
    BY <1>1, <1>2, <2>1
  <2> QED
    BY <1>3, <1>4, <1>6, <2>2 DEF Along, Walked, Collected
<1> QED
  BY <1>2, <1>5, <1>6

LEMMA PlanFits ==
  ASSUME NEW d, Whole(d, made), NEW r, NEW w, TrueNow(d, r.path, w),
         NEW p, p = r.chain[r.i].path,
         NEW items, items = IF p \in d.plan THEN {PlanKey(p)} ELSE {}
  PROVE  Fits(items, r, w, "plan")
<1>1. ASSUME NEW item \in items
      PROVE  /\ item \in Items /\ Named(item, made) /\ At(item, made) = p
             /\ item[1] # "learning"
  <2>1. item = PlanKey(p) /\ p \in d.plan
    BY <1>1
  <2>2. p \in Paths
    BY <2>1 DEF Whole, Tables
  <2>3. item[1] = "plan" /\ item[2] = p
    BY <2>1 DEF PlanKey
  <2> QED
    BY <2>1, <2>2, <2>3 DEF Items, Named, At
<1>2. ASSUME NEW item \in w.steady, item[1] = "plan", p = At(item, made)
      PROVE  item \in items
  <2>1. item = PlanKey(At(item, made)) /\ At(item, made) \in d.plan
    BY <1>2, ShownIs DEF TrueNow
  <2> QED
    BY <1>2, <2>1
<1> QED
  BY <1>1, <1>2 DEF Fits

LEMMA LearningsFit ==
  ASSUME NEW d, Whole(d, made), NEW r, NEW w, TrueNow(d, r.path, w),
         NEW p, p = r.chain[r.i].path,
         NEW items, items = {LearningKey(l) : l \in LearningsOf(d, p) \ Superseded(d)}
  PROVE  Fits(items, r, w, "learning")
<1>1. ASSUME NEW item \in items
      PROVE  /\ item \in Items /\ Named(item, made) /\ At(item, made) = p
             /\ item[2] \notin w.replaced
  <2>1. PICK l \in LearningsOf(d, p) \ Superseded(d) : item = LearningKey(l)
    BY <1>1
  <2>2. l \in LearningIds /\ made[l].path = p /\ p \in Paths
    BY <2>1 DEF LearningsOf, Whole, Tables
  <2>3. item[1] = "learning" /\ item[2] = l
    BY <2>1 DEF LearningKey
  <2>4. l \notin w.replaced
    BY <2>1 DEF TrueNow
  <2> QED
    BY <2>1, <2>2, <2>3, <2>4 DEF Items, Named, At
<1>2. ASSUME NEW item \in w.steady, item[1] = "learning", p = At(item, made)
      PROVE  item \in items
  <2>1. /\ item = LearningKey(item[2])
        /\ item[2] \in LearningsOf(d, At(item, made)) \ Superseded(d)
    BY <1>2, ShownIs DEF TrueNow
  <2> QED
    BY <1>2, <2>1
<1> QED
  BY <1>1, <1>2 DEF Fits

LEMMA GetPlanDoes ==
  ASSUME Filed, NEW c \in Callers, Followed(c), GetPlan(c)
  PROVE  /\ Filed' /\ db' = db /\ made' = made
         /\ Building(req[c]) /\ Building(req'[c])
         /\ req'[c].m = req[c].m /\ req'[c].path = req[c].path
         /\ Along(req'[c], watch[c], made)
         /\ \A x \in Callers \ {c} : req'[x] = req[x]
<1>1. PICK r, d, w : r = req[c] /\ d = db[req[c].m] /\ w = watch[c]
  OBVIOUS
<1>2. /\ r \in Requests /\ r.at = "plans" /\ r.m \in Machines /\ r.path \in Paths
      /\ \A item \in r.doc : Named(item, made)
  BY <1>1 DEF GetPlan, Collect, Filed, CallsHold, Placed
<1>3. Building(r) /\ Along(r, w, made) /\ TrueNow(d, r.path, w)
  BY <1>1, <1>2, GlanceIsSeen DEF Followed, Building
<1>4. Whole(d, made)
  BY <1>1, <1>2 DEF Filed, TablesHold
<1>5. PICK p : p = r.chain[r.i].path
  OBVIOUS
<1>6. PICK items : items = IF p \in d.plan THEN {PlanKey(p)} ELSE {}
  OBVIOUS
<1>7. PICK rec : rec = More(r, items, "plans", "learnings")
  OBVIOUS
<1>8. req' = [req EXCEPT ![c] = rec] /\ UNCHANGED tables
  BY <1>1, <1>5, <1>6, <1>7 DEF GetPlan, Collect, Goto, More
<1>9. Fits(items, r, w, "plan")
  BY <1>3, <1>4, <1>5, <1>6, PlanFits
<1>10. rec.at \in {"plans", "learnings"} /\ Along(rec, w, made)
  BY <1>2, <1>3, <1>7, <1>9, PlanRound
<1>11. Round(r, w, made, "plan")
  BY <1>2, <1>3 DEF Along, Collected
<1>12. rec \in Requests /\ rec.m = r.m /\ rec.path = r.path /\ rec.doc = r.doc \cup items
  BY <1>2, <1>7, <1>9, <1>11, MoreIs
<1>13. db' = db /\ made' = made /\ outbox' = outbox /\ up' = up
  BY <1>8 DEF tables
<1>14. MadeStays
  BY <1>13, SameGrows
<1>15. TablesHold' /\ RowsHold'
  BY <1>13, <1>14, TablesStay, RowsStay DEF Filed
<1>16. CallsHold' /\ req'[c] = rec /\ \A x \in Callers \ {c} : req'[x] = req[x]
  <2>1. CallsHold /\ \A item \in rec.doc : Named(item, made')
    BY <1>2, <1>9, <1>12, <1>13 DEF Filed, Fits
  <2> QED
    BY <1>2, <1>8, <1>10, <1>12, <1>14, <2>1, Moves
<1> QED
  BY <1>1, <1>3, <1>10, <1>12, <1>13, <1>15, <1>16 DEF Filed, Building

LEMMA ListLearningsDoes ==
  ASSUME Filed, NEW c \in Callers, Followed(c), ListLearnings(c)
  PROVE  /\ Filed' /\ db' = db /\ made' = made
         /\ Building(req[c]) /\ Building(req'[c])
         /\ req'[c].m = req[c].m /\ req'[c].path = req[c].path
         /\ Along(req'[c], watch[c], made)
         /\ \A x \in Callers \ {c} : req'[x] = req[x]
<1>1. PICK r, d, w : r = req[c] /\ d = db[req[c].m] /\ w = watch[c]
  OBVIOUS
<1>2. /\ r \in Requests /\ r.at = "learnings" /\ r.m \in Machines /\ r.path \in Paths
      /\ \A item \in r.doc : Named(item, made)
  BY <1>1 DEF ListLearnings, Collect, Filed, CallsHold, Placed
<1>3. Building(r) /\ Along(r, w, made) /\ TrueNow(d, r.path, w)
  BY <1>1, <1>2, GlanceIsSeen DEF Followed, Building
<1>4. Whole(d, made)
  BY <1>1, <1>2 DEF Filed, TablesHold
<1>5. PICK p : p = r.chain[r.i].path
  OBVIOUS
<1>6. PICK items : items = {LearningKey(l) : l \in LearningsOf(d, p) \ Superseded(d)}
  OBVIOUS
<1>7. PICK rec : rec = More(r, items, "learnings", "done")
  OBVIOUS
<1>8. req' = [req EXCEPT ![c] = rec] /\ UNCHANGED tables
  BY <1>1, <1>5, <1>6, <1>7 DEF ListLearnings, Collect, Goto, More
<1>9. Fits(items, r, w, "learning")
  BY <1>3, <1>4, <1>5, <1>6, LearningsFit
<1>10. rec.at \in {"learnings", "done"} /\ Along(rec, w, made)
  <2>1. \A item \in w.steady : item[1] \in {"plan", "learning"}
    BY <1>3, <1>4, ShownIs DEF TrueNow
  <2> QED
    BY <1>2, <1>3, <1>7, <1>9, <2>1, LearningRound
<1>11. Round(r, w, made, "learning")
  BY <1>2, <1>3 DEF Along, Collected
<1>12. rec \in Requests /\ rec.m = r.m /\ rec.path = r.path /\ rec.doc = r.doc \cup items
  BY <1>2, <1>7, <1>9, <1>11, MoreIs
<1>13. db' = db /\ made' = made /\ outbox' = outbox /\ up' = up
  BY <1>8 DEF tables
<1>14. MadeStays
  BY <1>13, SameGrows
<1>15. TablesHold' /\ RowsHold'
  BY <1>13, <1>14, TablesStay, RowsStay DEF Filed
<1>16. CallsHold' /\ req'[c] = rec /\ \A x \in Callers \ {c} : req'[x] = req[x]
  <2>1. CallsHold /\ \A item \in rec.doc : Named(item, made')
    BY <1>2, <1>9, <1>12, <1>13 DEF Filed, Fits
  <2> QED
    BY <1>2, <1>8, <1>10, <1>12, <1>14, <2>1, Moves
<1> QED
  BY <1>1, <1>3, <1>10, <1>12, <1>13, <1>15, <1>16 DEF Filed, Building

LEMMA ReturnDoes ==
  ASSUME Filed, NEW c \in Callers, Return(c)
  PROVE  /\ Filed' /\ MadeStays /\ ~Building(req'[c])
         /\ \A x \in Callers \ {c} : req'[x] = req[x]
<1>1. MadeStays
  BY SameGrows DEF Return, tables
<1>2. TablesHold' /\ RowsHold'
  BY <1>1, TablesStay, RowsStay DEF Filed, Return, tables
<1>3. CallsHold' /\ req'[c] = Idle /\ \A x \in Callers \ {c} : req'[x] = req[x]
  BY <1>1, Ends DEF Filed, Return
<1>4. ~Building(Idle)
  BY DEF Building, Idle
<1> QED
  BY ONLY <1>1, <1>2, <1>3, <1>4 DEF Filed

-------------------------------------------------------------------------------
(* What is watched only gets less, and is true of the state that is reached. *)

LEMMA WatchDoes ==
  ASSUME Watch, NEW c \in Callers, Building(req'[c])
  PROVE  /\ Less(watch'[c], Glance(c)')
         /\ Building(req[c]) => Less(watch'[c], watch[c])
<1>1. CASE Building(req[c])
  <2>1. watch'[c] = Both(watch[c], Glance(c)')
    BY <1>1 DEF Watch
  <2>2. PICK v, w, g : v = watch'[c] /\ w = watch[c] /\ g = Glance(c)'
    OBVIOUS
  <2>3. v = Both(w, g)
    BY <2>1, <2>2
  <2>4. Less(v, g) /\ Less(v, w)
    BY ONLY <2>3 DEF Less, Both
  <2> QED
    BY <2>2, <2>4
<1>2. CASE ~Building(req[c])
  <2>1. watch'[c] = Glance(c)'
    BY <1>2 DEF Watch
  <2>2. PICK v, g : v = watch'[c] /\ g = Glance(c)'
    OBVIOUS
  <2>3. v = g
    BY <2>1, <2>2
  <2>4. Less(v, g)
    BY ONLY <2>3 DEF Less
  <2> QED
    BY <1>2, <2>2, <2>4
<1> QED
  BY <1>1, <1>2

LEMMA ViewNext ==
  ASSUME NEW c, Less(watch'[c], Glance(c)')
  PROVE  /\ watch'[c].bounded \subseteq Paths
         /\ \A item \in watch'[c].steady : At(item, made') \in Paths
<1>1. PICK g : g = Glance(c)'
  OBVIOUS
<1>2. g.bounded \subseteq Paths
  BY <1>1 DEF Glance, Bounded
<1>3. ASSUME NEW item \in g.steady
      PROVE  At(item, made') \in Paths
  <2>1. \/ \E s \in Paths : item = PlanKey(s)
        \/ \E l : made'[l].path \in Paths /\ item = LearningKey(l)
    BY <1>1, <1>3 DEF Glance, Shown
  <2>2. CASE \E s \in Paths : item = PlanKey(s)
    BY <2>2 DEF PlanKey, At
  <2>3. CASE \E l : made'[l].path \in Paths /\ item = LearningKey(l)
    BY <2>3 DEF LearningKey, At
  <2> QED
    BY <2>1, <2>2, <2>3
<1>4. PICK v : v = watch'[c]
  OBVIOUS
<1>5. v.bounded \subseteq g.bounded /\ v.steady \subseteq g.steady
  BY <1>1, <1>4 DEF Less
<1> QED
  BY <1>2, <1>3, <1>4, <1>5

LEMMA AtStays ==
  ASSUME Filed, MadeStays, NEW c \in Callers, Building(req[c]), Followed(c)
  PROVE  \A item \in watch[c].steady \cup req[c].doc : At(item, made') = At(item, made)
<1>1. PICK r, d, w : r = req[c] /\ d = db[req[c].m] /\ w = watch[c]
  OBVIOUS
<1>2. /\ r \in Requests /\ r.m \in Machines
      /\ \A item \in r.doc : Named(item, made)
  BY <1>1 DEF Filed, CallsHold, Placed, Building
<1>3. TrueNow(d, r.path, w)
  BY <1>1, GlanceIsSeen DEF Followed
<1>4. Whole(d, made)
  BY <1>1, <1>2 DEF Filed, TablesHold
<1>5. \A item \in w.steady : Named(item, made) /\ item[1] \in {"plan", "learning"}
  BY <1>3, <1>4, ShownIs DEF TrueNow
<1>6. \A item \in r.doc : item[1] \in {"plan", "learning"}
  <2>1. r.doc \subseteq Items
    BY <1>2 DEF Requests
  <2> QED
    BY <2>1 DEF Items, PlanKey, LearningKey
<1>7. ASSUME NEW item \in w.steady \cup r.doc
      PROVE  At(item, made') = At(item, made)
  <2>1. Named(item, made) /\ item[1] \in {"plan", "learning"}
    BY <1>2, <1>5, <1>6
  <2>2. CASE item[1] = "plan"
    BY <2>2 DEF At
  <2>3. CASE item[1] = "learning"
    <3>1. made'[item[2]] = made[item[2]]
      BY <2>1, <2>3 DEF Named, MadeStays
    <3> QED
      BY <2>3, <3>1 DEF At
  <2> QED
    BY <2>1, <2>2, <2>3
<1> QED
  BY <1>1, <1>7

(* A request that does nothing meanwhile. *)
LEMMA WaitingIsFollowed ==
  ASSUME Filed, MadeStays, Watch, NEW c \in Callers, Followed(c), req'[c] = req[c]
  PROVE  Followed(c)'
<1>1. SUFFICES ASSUME Building(req'[c])
               PROVE  Less(watch'[c], Glance(c)') /\ Along(req'[c], watch'[c], made')
  BY DEF Followed
<1>2. Building(req[c]) /\ Along(req[c], watch[c], made)
  BY <1>1 DEF Followed
<1>3. Less(watch'[c], Glance(c)') /\ Less(watch'[c], watch[c])
  BY <1>1, <1>2, WatchDoes
<1>4. Along(req[c], watch'[c], made')
  BY <1>2, <1>3, AtStays, AlongLess
<1> QED
  BY <1>3, <1>4

(* A context that goes on. *)
LEMMA OnwardIsFollowed ==
  ASSUME Watch, NEW c \in Callers, Building(req[c]), Building(req'[c]), made' = made,
         Along(req'[c], watch[c], made)
  PROVE  Followed(c)'
<1>1. Less(watch'[c], Glance(c)') /\ Less(watch'[c], watch[c])
  BY WatchDoes
<1>2. Along(req'[c], watch'[c], made')
  BY <1>1, AlongLess
<1> QED
  BY <1>1, <1>2 DEF Followed

(* A context that begins. *)
LEMMA FirstIsFollowed ==
  ASSUME ScopesAssumption, Watch, NEW c \in Callers, req'[c].at = "walk", req'[c].path \in Paths,
         req'[c].chain = <<>>, req'[c].i = 1, req'[c].doc = {}
  PROVE  Followed(c)'
<1>1. PICK r, w, mk : r = req'[c] /\ w = watch'[c] /\ mk = made'
  OBVIOUS
<1>2. Less(watch'[c], Glance(c)')
  BY WatchDoes DEF Building
<1>3. w.bounded \subseteq Paths /\ \A item \in w.steady : At(item, mk) \in Paths
  BY <1>1, <1>2, ViewNext
<1>4. \A p \in Paths : ~(Len(p) < 1) /\ 1 \in 1..Len(p)
  BY LenOfPath
<1>5. r.at = "walk" /\ r.path \in Paths /\ r.chain = <<>> /\ r.i = 1 /\ r.doc = {}
  BY <1>1
<1>6. \A k \in 1..Len(r.chain) : FALSE
  <2>1. Len(<<>>) = 0
    BY EmptySeq
  <2> QED
    BY <1>5, <2>1
<1>7. Chained(r, w, mk)
  BY <1>6 DEF Chained
<1>8. Walked(r, w, mk)
  BY <1>3, <1>4, <1>5, <1>6 DEF Walked
<1>9. Along(r, w, mk)
  BY <1>5, <1>7, <1>8 DEF Along, Limited, Collected
<1> QED
  BY <1>1, <1>2, <1>9 DEF Followed

LEMMA OtherIsFollowed ==
  ASSUME NEW c \in Callers, ~Building(req'[c])
  PROVE  Followed(c)'
BY DEF Followed

-------------------------------------------------------------------------------
LEMMA ContextInvInit ==
  ASSUME ScopesAssumption, ScopesInit
  PROVE  ContextInv
<1>1. Filed
  BY FiledInit
<1>2. \A c \in Callers : ~Building(req[c])
  BY DEF ScopesInit, Idle, Building
<1> QED
  BY <1>1, <1>2 DEF ContextInv, Followed

(* One caller makes a step, which its lemma has described. *)
LEMMA CallerKeeps ==
  ASSUME ContextInv, Watch, NEW c \in Callers, Filed', MadeStays, Followed(c)',
         \A x \in Callers \ {c} : req'[x] = req[x]
  PROVE  ContextInv'
<1>1. ASSUME NEW x \in Callers \ {c}
      PROVE  Followed(x)'
  BY WaitingIsFollowed DEF ContextInv
<1> QED
  BY <1>1 DEF ContextInv

LEMMA CallerStepKeeps ==
  ASSUME ScopesAssumption, ContextInv, Watch, NEW c \in Callers, CallerStep(c)
  PROVE  ContextInv'
<1>1. Filed /\ Followed(c)
  BY DEF ContextInv
<1>2. CASE \E m \in Machines, p \in Paths, kind \in {"open", "boundary"} : SetScope(c, m, p, kind)
  BY <1>1, <1>2, SetScopeDoes, OtherIsFollowed, CallerKeeps
<1>3. CASE \E m \in Machines, p \in Paths, l \in LearningIds, fixes \in LearningIds \cup {0} :
             AppendLearning(c, m, p, l, fixes)
  BY <1>1, <1>3, AppendLearningDoes, OtherIsFollowed, CallerKeeps
<1>4. CASE \E m \in Machines, p \in Paths : PutPlan(c, m, p)
  BY <1>1, <1>4, PutPlanDoes, OtherIsFollowed, CallerKeeps
<1>5. CASE \E m \in Machines, p \in Paths : CountChildren(c, m, p)
  BY <1>1, <1>5, CountChildrenDoes, OtherIsFollowed, CallerKeeps
<1>6. CASE \E m \in Machines, p \in Paths : BuildContext(c, m, p)
  <2>1. PICK m \in Machines, p \in Paths : BuildContext(c, m, p)
    BY <1>6
  <2>2. /\ Filed' /\ MadeStays
        /\ req'[c].at = "walk" /\ req'[c].m = m /\ req'[c].path = p
        /\ req'[c].chain = <<>> /\ req'[c].i = 1 /\ req'[c].doc = {}
        /\ \A x \in Callers \ {c} : req'[x] = req[x]
    BY <1>1, <2>1, BuildContextDoes
  <2>3. Followed(c)'
    BY <2>2, FirstIsFollowed
  <2> QED
    BY <2>2, <2>3, CallerKeeps
<1>7. CASE ReadBack(c)
  BY <1>1, <1>7, ReadBackDoes, OtherIsFollowed, CallerKeeps
<1>8. CASE Enqueue(c)
  BY <1>1, <1>8, EnqueueDoes, OtherIsFollowed, CallerKeeps
<1>9. CASE Delete(c)
  BY <1>1, <1>9, DeleteDoes, OtherIsFollowed, CallerKeeps
<1>10. CASE ResolveChain(c)
  BY <1>1, <1>10, ResolveChainDoes, SameGrows, OnwardIsFollowed, CallerKeeps
<1>11. CASE GetPlan(c)
  BY <1>1, <1>11, GetPlanDoes, SameGrows, OnwardIsFollowed, CallerKeeps
<1>12. CASE ListLearnings(c)
  BY <1>1, <1>12, ListLearningsDoes, SameGrows, OnwardIsFollowed, CallerKeeps
<1>13. CASE Return(c)
  BY <1>1, <1>13, ReturnDoes, OtherIsFollowed, CallerKeeps
<1> QED
  BY <1>2, <1>3, <1>4, <1>5, <1>6, <1>7, <1>8, <1>9, <1>10, <1>11, <1>12, <1>13 DEF CallerStep

LEMMA ContextInvNext ==
  ASSUME ScopesAssumption, ContextInv, [ScopesNext]_scopeVars
  PROVE  ContextInv'
<1>1. CASE \E c \in Callers : CallerStep(c) /\ Watch
  BY <1>1, CallerStepKeeps
<1>2. CASE \E m \in Machines : Push(m) /\ Watch
  <2>1. Filed' /\ MadeStays /\ req' = req
    BY <1>2, PushDoes DEF ContextInv
  <2> QED
    BY <1>2, <2>1, WaitingIsFollowed DEF ContextInv
<1>3. CASE \E m \in Machines : Receive(m) /\ Watch
  <2>1. Filed' /\ MadeStays /\ req' = req
    BY <1>3, ReceiveDoes DEF ContextInv
  <2> QED
    BY <1>3, <2>1, WaitingIsFollowed DEF ContextInv
<1>4. CASE UNCHANGED scopeVars
  <2>1. db' = db /\ made' = made /\ outbox' = outbox /\ up' = up /\ req' = req /\ watch' = watch
    BY <1>4 DEF scopeVars, tables
  <2>2. MadeStays
    BY <2>1, SameGrows
  <2>3. Filed'
    BY <2>1, <2>2, TablesStay, RowsStay, CallsStay DEF ContextInv, Filed
  <2>4. ASSUME NEW c \in Callers
        PROVE  Followed(c)'
    <3>1. Followed(c)
      BY DEF ContextInv
    <3> QED
      BY <2>1, <3>1 DEF Followed, Glance, Shown, Bounded, Superseded, HasScope
  <2> QED
    BY <2>3, <2>4 DEF ContextInv
<1> QED
  BY <1>1, <1>2, <1>3, <1>4 DEF ScopesNext

LEMMA DocumentIsSound ==
  ASSUME ContextInv
  PROVE  ContextSound
<1>1. SUFFICES ASSUME NEW c \in Callers, req[c].at = "done"
               PROVE  /\ watch[c].steady \subseteq req[c].doc
                      /\ \A item \in req[c].doc :
                           /\ \A b \in watch[c].bounded : ~Above(PathOf(item), b)
                           /\ item[1] = "learning" => item[2] \notin watch[c].replaced
  BY DEF ContextSound
<1>2. Along(req[c], watch[c], made)
  BY <1>1 DEF ContextInv, Followed, Building
<1>3. watch[c].steady \subseteq req[c].doc
  BY <1>1, <1>2 DEF Along, Collected
<1>4. /\ \A k \in 1..Len(req[c].chain) : \A b \in watch[c].bounded : ~Above(req[c].chain[k].path, b)
      /\ \A item \in req[c].doc :
           /\ \E k \in 1..Len(req[c].chain) : req[c].chain[k].path = At(item, made)
           /\ item[1] = "learning" => item[2] \notin watch[c].replaced
  BY <1>1, <1>2 DEF Along, Limited
<1>5. \A item \in req[c].doc : PathOf(item) = At(item, made)
  BY DEF PathOf, At
<1> QED
  BY <1>3, <1>4, <1>5

(* Types, and the foreign keys of scopes, plans and learnings on every       *)
(* machine, whatever is set, deleted, pushed and received, in any order; and *)
(* a key is queued once.                                                     *)
THEOREM ScopesTypeCorrect == ScopesSpec => []ScopesTypeOK
<1>1. ScopesInit => ContextInv
  BY ScopesAssumption, ContextInvInit
<1>2. ContextInv /\ [ScopesNext]_scopeVars => ContextInv'
  BY ScopesAssumption, ContextInvNext
<1>3. ContextInv => ScopesTypeOK
  BY FiledIsTyped DEF ContextInv
<1> QED
  BY <1>1, <1>2, <1>3, PTL DEF ScopesSpec

(* A context document has what was in view all the while it was made, and    *)
(* nothing that a boundary or a correction hid all the while.                *)
THEOREM ContextIsSound == ScopesSpec => []ContextSound
<1>1. ScopesInit => ContextInv
  BY ScopesAssumption, ContextInvInit
<1>2. ContextInv /\ [ScopesNext]_scopeVars => ContextInv'
  BY ScopesAssumption, ContextInvNext
<1>3. ContextInv => ContextSound
  BY DocumentIsSound
<1> QED
  BY <1>1, <1>2, <1>3, PTL DEF ScopesSpec

-------------------------------------------------------------------------------
(* The rows of kind memory in the order of their keys.  Of two sequences the *)
(* first place where they differ tells which comes first, the end of a       *)
(* sequence coming before any number.                                        *)

DiffersAt(p, q, i) ==
  /\ i \in 1..Len(q)
  /\ i <= Len(p) + 1
  /\ i <= Len(p) => p[i] < q[i]
  /\ \A j \in 1..(i - 1) : p[j] = q[j]

LEMMA AboveIs ==
  ASSUME NEW p \in Seq(Nat), NEW q \in Seq(Nat)
  PROVE  Above(p, q) <=> Len(p) < Len(q) /\ \A j \in 1..Len(p) : p[j] = q[j]
<1>1. Len(p) \in Nat /\ Len(q) \in Nat
  BY LenProperties
<1>2. SubSeq(p, 1, Len(p)) = p
  BY SubSeqFull
<1>3. ASSUME Above(p, q)
      PROVE  Len(p) < Len(q) /\ \A j \in 1..Len(p) : p[j] = q[j]
  <2>1. Len(p) < Len(q) /\ p = SubSeq(q, 1, Len(p))
    BY <1>3, AboveIsShorter
  <2>2. \A j \in 1..Len(p) : SubSeq(q, 1, Len(p))[j] = q[j]
    BY <1>1, <2>1, SubSeqProperties
  <2> QED
    BY <2>1, <2>2
<1>4. ASSUME Len(p) < Len(q), \A j \in 1..Len(p) : p[j] = q[j]
      PROVE  Above(p, q)
  <2> DEFINE s == SubSeq(q, 1, Len(p))
  <2>1. s \in Seq(Nat) /\ Len(s) = Len(p) /\ \A j \in 1..Len(p) : s[j] = q[j]
    BY <1>1, <1>4, SubSeqProperties
  <2> HIDE DEF s
  <2>2. s = p
    BY <1>4, <2>1, SeqEqual
  <2>3. p # q /\ Len(p) <= Len(q)
    BY <1>1, <1>4
  <2> QED
    BY <1>2, <2>2, <2>3 DEF s, Above, IsStrictPrefix, IsPrefix
<1> QED
  BY <1>3, <1>4

LEMMA PathBeforeIs ==
  ASSUME NEW p \in Seq(Nat), NEW q \in Seq(Nat)
  PROVE  PathBefore(p, q) <=> \E i \in Nat : DiffersAt(p, q, i)
<1>1. Len(p) \in Nat /\ Len(q) \in Nat
  BY LenProperties
<1>2. CASE Above(p, q)
  <2>1. Len(p) < Len(q) /\ \A j \in 1..Len(p) : p[j] = q[j]
    BY <1>2, AboveIs
  <2>2. Len(p) + 1 \in 1..Len(q) /\ Len(p) + 1 \in Nat /\ ~(Len(p) + 1 <= Len(p)) /\ (Len(p) + 1) - 1 = Len(p)
    BY <1>1, <2>1
  <2>3. DiffersAt(p, q, Len(p) + 1)
    BY <2>1, <2>2 DEF DiffersAt
  <2> QED
    BY <1>2, <2>2, <2>3 DEF PathBefore
<1>3. ASSUME NEW i \in 1..Len(p), i <= Len(q), p[i] < q[i], \A j \in 1..(i - 1) : p[j] = q[j]
      PROVE  \E k \in Nat : DiffersAt(p, q, k)
  <2>1. i \in Nat /\ i \in 1..Len(q) /\ i <= Len(p) + 1
    BY <1>1, <1>3
  <2>2. DiffersAt(p, q, i)
    BY <1>3, <2>1 DEF DiffersAt
  <2> QED
    BY <2>1, <2>2
<1>4. ASSUME NEW i \in Nat, DiffersAt(p, q, i)
      PROVE  PathBefore(p, q)
  <2>1. CASE i <= Len(p)
    <3>1. i \in 1..Len(p) /\ i <= Len(q)
      BY <1>1, <1>4, <2>1 DEF DiffersAt
    <3> QED
      BY <1>4, <2>1, <3>1 DEF DiffersAt, PathBefore
  <2>2. CASE ~(i <= Len(p))
    <3>1. i - 1 = Len(p) /\ Len(p) < Len(q)
      BY <1>1, <1>4, <2>2 DEF DiffersAt
    <3>2. Above(p, q)
      BY <1>4, <3>1, AboveIs DEF DiffersAt
    <3> QED
      BY <3>2 DEF PathBefore
  <2> QED
    BY <2>1, <2>2
<1> QED
  BY <1>2, <1>3, <1>4 DEF PathBefore

LEMMA PathsAreOrdered ==
  ASSUME NEW p \in Seq(Nat), NEW q \in Seq(Nat), NEW r \in Seq(Nat)
  PROVE  /\ ~PathBefore(p, p)
         /\ p # q => PathBefore(p, q) \/ PathBefore(q, p)
         /\ PathBefore(p, q) /\ PathBefore(q, r) => PathBefore(p, r)
<1>1. Len(p) \in Nat /\ Len(q) \in Nat /\ Len(r) \in Nat
  BY LenProperties
<1>2. \A j \in Nat : /\ j \in 1..Len(p) => p[j] \in Nat
                     /\ j \in 1..Len(q) => q[j] \in Nat
                     /\ j \in 1..Len(r) => r[j] \in Nat
  BY ElementOfSeq
<1>3. ~PathBefore(p, p)
  <2>1. ASSUME NEW i \in Nat, DiffersAt(p, p, i)
        PROVE  FALSE
    <3>1. i \in 1..Len(p) /\ i <= Len(p) /\ p[i] < p[i]
      BY <1>1, <2>1 DEF DiffersAt
    <3> QED
      BY <1>2, <3>1
  <2> QED
    BY <2>1, PathBeforeIs
<1>4. ASSUME p # q
      PROVE  PathBefore(p, q) \/ PathBefore(q, p)
  <2> DEFINE Same(j) == j \in 1..Len(p) /\ j \in 1..Len(q) /\ p[j] = q[j]
             Other == {j \in Nat \ {0} : ~Same(j)}
  <2>1. Other \in SUBSET Nat /\ Other # {}
    <3>1. Len(p) + 1 \in Nat \ {0} /\ ~(Len(p) + 1 \in 1..Len(p))
      BY <1>1
    <3> QED
      BY <3>1
  <2>2. PICK i \in Other : \A j \in Other : i <= j
    <3> HIDE DEF Other
    <3> QED
      BY <2>1, LeastOf
  <2>3. i \in Nat /\ 1 <= i /\ ~Same(i)
    BY <2>2
  <2>4. ASSUME NEW j \in 1..(i - 1)
        PROVE  j \in 1..Len(p) /\ j \in 1..Len(q) /\ p[j] = q[j]
    <3>1. j \in Nat \ {0} /\ ~(i <= j)
      BY <2>3
    <3>2. j \notin Other
      BY <2>2, <3>1
    <3> QED
      BY <3>1, <3>2
  <2>5. i <= Len(p) + 1 /\ i <= Len(q) + 1
    <3>1. CASE i = 1
      BY <1>1, <3>1
    <3>2. CASE i # 1
      <4>1. i - 1 \in 1..(i - 1)
        BY <2>3, <3>2
      <4>2. i - 1 \in 1..Len(p) /\ i - 1 \in 1..Len(q)
        BY <2>4, <4>1
      <4> QED
        BY <1>1, <2>3, <4>2
    <3> QED
      BY <3>1, <3>2
  <2> HIDE DEF Other
  <2>6. CASE i <= Len(p) /\ i <= Len(q)
    <3>1. i \in 1..Len(p) /\ i \in 1..Len(q)
      BY <1>1, <2>3, <2>6
    <3>2. p[i] < q[i] \/ q[i] < p[i]
      BY <1>2, <2>3, <3>1
    <3>3. DiffersAt(p, q, i) \/ DiffersAt(q, p, i)
      BY <2>4, <2>5, <3>1, <3>2 DEF DiffersAt
    <3> QED
      BY <2>3, <3>3, PathBeforeIs
  <2>7. CASE ~(i <= Len(p)) /\ i <= Len(q)
    <3>1. i \in 1..Len(q)
      BY <1>1, <2>3, <2>7
    <3>2. DiffersAt(p, q, i)
      BY <2>4, <2>5, <2>7, <3>1 DEF DiffersAt
    <3> QED
      BY <2>3, <3>2, PathBeforeIs
  <2>8. CASE i <= Len(p) /\ ~(i <= Len(q))
    <3>1. i \in 1..Len(p)
      BY <1>1, <2>3, <2>8
    <3>2. DiffersAt(q, p, i)
      BY <2>4, <2>5, <2>8, <3>1 DEF DiffersAt
    <3> QED
      BY <2>3, <3>2, PathBeforeIs
  <2>9. CASE ~(i <= Len(p)) /\ ~(i <= Len(q))
    <3>1. i - 1 = Len(p) /\ i - 1 = Len(q)
      BY <1>1, <2>3, <2>5, <2>9
    <3>2. \A j \in 1..Len(p) : p[j] = q[j]
      BY <2>4, <3>1
    <3> QED
      BY <1>4, <3>1, <3>2, SeqEqual
  <2> QED
    BY <2>6, <2>7, <2>8, <2>9
<1>5. ASSUME PathBefore(p, q), PathBefore(q, r)
      PROVE  PathBefore(p, r)
  <2>1. PICK i \in Nat : DiffersAt(p, q, i)
    BY <1>5, PathBeforeIs
  <2>2. PICK k \in Nat : DiffersAt(q, r, k)
    BY <1>5, PathBeforeIs
  <2>3. /\ i \in 1..Len(q) /\ i <= Len(p) + 1 /\ (i <= Len(p) => p[i] < q[i])
        /\ \A j \in 1..(i - 1) : p[j] = q[j]
    BY <2>1 DEF DiffersAt
  <2>4. /\ k \in 1..Len(r) /\ k <= Len(q) + 1 /\ (k <= Len(q) => q[k] < r[k])
        /\ \A j \in 1..(k - 1) : q[j] = r[j]
    BY <2>2 DEF DiffersAt
  <2>a. /\ i \in Nat /\ 1 <= i /\ i <= Len(q) /\ i <= Len(p) + 1
        /\ k \in Nat /\ 1 <= k /\ k <= Len(r) /\ k <= Len(q) + 1
    BY <1>1, <2>3, <2>4
  <2>5. CASE i < k
    <3>1. i \in 1..Len(r) /\ i \in 1..(k - 1) /\ \A j \in 1..(i - 1) : j \in 1..(k - 1)
      BY <1>1, <2>5, <2>a
    <3>2. DiffersAt(p, r, i)
      BY <2>3, <2>4, <3>1 DEF DiffersAt
    <3> QED
      BY <3>2, PathBeforeIs
  <2>6. CASE k < i
    <3>1. k <= Len(q) /\ k <= Len(p) + 1 /\ k \in 1..(i - 1) /\ \A j \in 1..(k - 1) : j \in 1..(i - 1)
      <4>1. PICK a \in Nat, b \in Nat : a = Len(p) /\ b = Len(q)
        BY <1>1
      <4>a. i <= b /\ i <= a + 1 /\ k < i /\ i \in Nat /\ k \in Nat
        BY <2>6, <2>a, <4>1, Zenon
      <4>2. k <= b /\ k <= a + 1 /\ k <= i - 1
        BY ONLY <4>a, a \in Nat, b \in Nat
      <4>3. \A j \in 1..(k - 1) : j \in 1..(i - 1)
        BY <2>6, <2>a
      <4>4. k \in 1..(i - 1)
        BY <2>a, <4>2
      <4> QED
        BY <4>1, <4>2, <4>3, <4>4
    <3>a. k <= Len(p) => p[k] < r[k]
      <4>1. p[k] = q[k] /\ q[k] < r[k]
        BY <2>3, <2>4, <3>1
      <4> QED
        BY <4>1
    <3>b. \A j \in 1..(k - 1) : p[j] = r[j]
      <4> TAKE j \in 1..(k - 1)
      <4>1. p[j] = q[j] /\ q[j] = r[j]
        BY <2>3, <2>4, <3>1
      <4> QED
        BY <4>1
    <3>2. DiffersAt(p, r, k)
      BY <2>4, <3>1, <3>a, <3>b DEF DiffersAt
    <3> QED
      BY <3>2, PathBeforeIs
  <2>7. CASE i = k
    <3>1. i \in 1..Len(q) /\ i \in 1..Len(r) /\ q[i] < r[i]
      BY <1>1, <2>4, <2>7, <2>a
    <3>2. i <= Len(p) => i \in 1..Len(p)
      BY <1>1, <2>a
    <3>a. q[i] \in Nat /\ r[i] \in Nat /\ (i <= Len(p) => p[i] \in Nat)
      BY <1>2, <3>1, <3>2
    <3>b. i <= Len(p) => p[i] < q[i]
      BY <2>3
    <3>3. ASSUME i <= Len(p)
          PROVE  p[i] < r[i]
      <4>1. PICK x \in Nat, y \in Nat, z \in Nat : x = p[i] /\ y = q[i] /\ z = r[i]
        BY <3>3, <3>a
      <4>2. x < y /\ y < z
        BY <3>1, <3>3, <3>b, <4>1
      <4>3. x < z
        BY <4>2
      <4> QED
        BY <4>1, <4>3
    <3>4. DiffersAt(p, r, i)
      BY <2>3, <2>4, <2>7, <3>1, <3>3 DEF DiffersAt
    <3> QED
      BY <3>4, PathBeforeIs
  <2> QED
    BY <2>5, <2>6, <2>7
<1> QED
  BY <1>3, <1>4, <1>5

(* Rows of different keys. *)
RowsKeyed(S) ==
  /\ IsFiniteSet(S) /\ S \subseteq MemoryRows
  /\ \A row \in S : Named(row.key, made)
  /\ \A a, b \in S : a.key = b.key => a = b

LEMMA KeyIs ==
  ASSUME NEW row \in MemoryRows
  PROVE  \/ \E p \in Paths : row.key = ScopeKey(p) /\ row.kind \in {"open", "boundary"}
         \/ \E p \in Paths : row.key = PlanKey(p) /\ row.kind = "item"
         \/ \E l \in LearningIds : row.key = LearningKey(l) /\ row.kind = "item"
BY DEF MemoryRows, Items

LEMMA ScopeSorts ==
  ASSUME NEW p
  PROVE  KeyPath(ScopeKey(p)) = p /\ Rank(ScopeKey(p)) = <<0, 0>>
BY DEF ScopeKey, KeyPath, Rank

LEMMA PlanSorts ==
  ASSUME NEW p
  PROVE  KeyPath(PlanKey(p)) = p /\ Rank(PlanKey(p)) = <<2, 0>>
BY DEF PlanKey, KeyPath, Rank

LEMMA LearningSorts ==
  ASSUME NEW l
  PROVE  KeyPath(LearningKey(l)) = made[l].path /\ Rank(LearningKey(l)) = <<1, l>>
BY DEF LearningKey, KeyPath, Rank

LEMMA KeyPlace ==
  ASSUME ScopesAssumption, NEW row \in MemoryRows, Named(row.key, made)
  PROVE  KeyPath(row.key) \in Seq(Nat) /\ Rank(row.key) \in Seq(Nat)
<1>1. Paths \subseteq Seq(Nat) /\ LearningIds \subseteq Nat
  BY DEF ScopesAssumption
<1>2. <<0, 0>> \in Seq(Nat) /\ <<2, 0>> \in Seq(Nat) /\ \A l \in Nat : <<1, l>> \in Seq(Nat)
  OBVIOUS
<1>3. ASSUME NEW p \in Paths, row.key = ScopeKey(p)
      PROVE  KeyPath(row.key) \in Seq(Nat) /\ Rank(row.key) \in Seq(Nat)
  BY <1>1, <1>2, <1>3, ScopeSorts
<1>4. ASSUME NEW p \in Paths, row.key = PlanKey(p)
      PROVE  KeyPath(row.key) \in Seq(Nat) /\ Rank(row.key) \in Seq(Nat)
  BY <1>1, <1>2, <1>4, PlanSorts
<1>5. ASSUME NEW l \in LearningIds, row.key = LearningKey(l)
      PROVE  KeyPath(row.key) \in Seq(Nat) /\ Rank(row.key) \in Seq(Nat)
  <2>1. made[l].path \in Paths
    BY <1>5 DEF Named, LearningKey
  <2> QED
    BY <1>1, <1>2, <1>5, <2>1, LearningSorts
<1> QED
  BY <1>3, <1>4, <1>5, KeyIs

LEMMA PlaceTellsKey ==
  ASSUME ScopesAssumption, NEW a \in MemoryRows, NEW b \in MemoryRows,
         KeyPath(a.key) = KeyPath(b.key), Rank(a.key) = Rank(b.key)
  PROVE  a.key = b.key
<1> DEFINE Kind(r) == Rank(r.key)[1]
<1>1. ASSUME NEW row \in MemoryRows
      PROVE  \/ Kind(row) = 0 /\ row.key = ScopeKey(KeyPath(row.key))
             \/ Kind(row) = 2 /\ row.key = PlanKey(KeyPath(row.key))
             \/ Kind(row) = 1 /\ row.key = LearningKey(Rank(row.key)[2])
  <2>1. ASSUME NEW p \in Paths, row.key = ScopeKey(p)
        PROVE  Kind(row) = 0 /\ row.key = ScopeKey(KeyPath(row.key))
    BY <2>1, ScopeSorts
  <2>2. ASSUME NEW p \in Paths, row.key = PlanKey(p)
        PROVE  Kind(row) = 2 /\ row.key = PlanKey(KeyPath(row.key))
    BY <2>2, PlanSorts
  <2>3. ASSUME NEW l \in LearningIds, row.key = LearningKey(l)
        PROVE  Kind(row) = 1 /\ row.key = LearningKey(Rank(row.key)[2])
    BY <2>3, LearningSorts
  <2> QED
    BY <2>1, <2>2, <2>3, KeyIs
<1>2. Kind(a) = Kind(b)
  OBVIOUS
<1>3. CASE Kind(a) = 0
  BY <1>1, <1>2, <1>3
<1>4. CASE Kind(a) = 1
  BY <1>1, <1>2, <1>4
<1>5. CASE Kind(a) = 2
  BY <1>1, <1>2, <1>5
<1> QED
  BY <1>1, <1>3, <1>4, <1>5

LEMMA SortsOrders ==
  ASSUME ScopesAssumption, NEW S, RowsKeyed(S), NEW a \in S, NEW b \in S
  PROVE  /\ a # b => Sorts(a, b) \/ Sorts(b, a)
         /\ Sorts(a, b) => a # b
         /\ \A c \in S : Sorts(a, b) /\ Sorts(b, c) => Sorts(a, c)
<1>1. ASSUME NEW c \in S
      PROVE  c \in MemoryRows /\ KeyPath(c.key) \in Seq(Nat) /\ Rank(c.key) \in Seq(Nat)
  BY KeyPlace DEF RowsKeyed
<1>2. ASSUME a # b
      PROVE  Sorts(a, b) \/ Sorts(b, a)
  <2>1. ~(KeyPath(a.key) = KeyPath(b.key) /\ Rank(a.key) = Rank(b.key))
    BY <1>1, <1>2, PlaceTellsKey DEF RowsKeyed
  <2>2. CASE KeyPath(a.key) = KeyPath(b.key)
    <3>1. PathBefore(Rank(a.key), Rank(b.key)) \/ PathBefore(Rank(b.key), Rank(a.key))
      BY <1>1, <2>1, <2>2, PathsAreOrdered
    <3> QED
      BY <2>2, <3>1 DEF Sorts
  <2>3. CASE KeyPath(a.key) # KeyPath(b.key)
    <3>1. PathBefore(KeyPath(a.key), KeyPath(b.key)) \/ PathBefore(KeyPath(b.key), KeyPath(a.key))
      BY <1>1, <2>3, PathsAreOrdered
    <3> QED
      BY <3>1 DEF Sorts
  <2> QED
    BY <2>2, <2>3
<1>3. ~Sorts(a, a)
  <2>1. ~PathBefore(KeyPath(a.key), KeyPath(a.key)) /\ ~PathBefore(Rank(a.key), Rank(a.key))
    BY <1>1, PathsAreOrdered
  <2> QED
    BY <2>1 DEF Sorts
<1>4. ASSUME NEW c \in S, Sorts(a, b), Sorts(b, c)
      PROVE  Sorts(a, c)
  <2> DEFINE p == KeyPath(a.key)
             q == KeyPath(b.key)
             r == KeyPath(c.key)
  <2>1. p \in Seq(Nat) /\ q \in Seq(Nat) /\ r \in Seq(Nat)
    BY <1>1
  <2>2. PathBefore(p, q) \/ (p = q /\ PathBefore(Rank(a.key), Rank(b.key)))
    BY <1>4 DEF Sorts
  <2>3. PathBefore(q, r) \/ (q = r /\ PathBefore(Rank(b.key), Rank(c.key)))
    BY <1>4 DEF Sorts
  <2>4. PathBefore(p, q) /\ PathBefore(q, r) => PathBefore(p, r)
    BY <2>1, PathsAreOrdered
  <2>5. /\ PathBefore(Rank(a.key), Rank(b.key)) /\ PathBefore(Rank(b.key), Rank(c.key))
           => PathBefore(Rank(a.key), Rank(c.key))
    BY <1>1, PathsAreOrdered
  <2>6. PathBefore(p, r) \/ (p = r /\ PathBefore(Rank(a.key), Rank(c.key)))
    <3> HIDE DEF p, q, r
    <3> QED
      BY <2>2, <2>3, <2>4, <2>5
  <2> QED
    BY <2>6 DEF Sorts
<1> QED
  BY <1>2, <1>3, <1>4

IsLast(r, R) == r \in R /\ \A q \in R \ {r} : Sorts(q, r)

LEMMA LastRow ==
  ASSUME ScopesAssumption, NEW S, RowsKeyed(S), S # {}
  PROVE  \E r \in S : IsLast(r, S)
<1> DEFINE NoLast(R) == R # {} /\ ~\E e \in R : IsLast(e, R)
           Sizes == {Cardinality(R) : R \in {Q \in SUBSET S : NoLast(Q)}}
<1> SUFFICES ASSUME NoLast(S)
             PROVE  FALSE
  OBVIOUS
<1>1. ASSUME NEW R \in SUBSET S
      PROVE  IsFiniteSet(R) /\ Cardinality(R) \in Nat
  BY FS_Subset, FS_CardinalityType DEF RowsKeyed
<1>2. Sizes \in SUBSET Nat /\ Sizes # {}
  <2> HIDE DEF NoLast
  <2> QED
    BY <1>1
<1>3. PICK n \in Sizes : \A k \in Sizes : n <= k
  <2> HIDE DEF Sizes
  <2> QED
    BY <1>2, LeastOf
<1>4. PICK R \in SUBSET S : NoLast(R) /\ Cardinality(R) = n
  <2> HIDE DEF NoLast
  <2> QED
    OBVIOUS
<1>5. PICK x \in R : TRUE
  BY <1>4
<1> DEFINE Q == R \ {x}
<1>6. Q \in SUBSET S /\ Cardinality(Q) = n - 1 /\ n \in Nat
  BY <1>1, <1>4, <1>5, FS_RemoveElement
<1>7. ~NoLast(Q)
  <2> HIDE DEF NoLast
  <2> SUFFICES ASSUME NoLast(Q)
               PROVE  FALSE
    OBVIOUS
  <2>1. Cardinality(Q) \in Sizes
    BY <1>6
  <2>2. n <= n - 1
    BY <1>3, <1>6, <2>1
  <2> QED
    BY <1>6, <2>2
<1>8. CASE Q = {}
  <2>1. IsLast(x, R)
    BY <1>5, <1>8 DEF IsLast
  <2> QED
    BY <1>4, <1>5, <2>1
<1>9. CASE Q # {}
  <2>1. PICK e \in Q : IsLast(e, Q)
    BY <1>7, <1>9
  <2>2. x # e /\ e \in S /\ x \in S /\ \A d \in Q \ {e} : Sorts(d, e) /\ d \in S
    BY <1>4, <1>5, <2>1 DEF IsLast
  <2>3. CASE Sorts(x, e)
    <3>1. IsLast(e, R)
      BY <2>1, <2>2, <2>3 DEF IsLast
    <3> QED
      BY <1>4, <2>1, <3>1
  <2>4. CASE Sorts(e, x)
    <3>1. \A d \in Q : Sorts(d, x)
      <4> TAKE d \in Q
      <4>1. CASE d = e
        BY <2>4, <4>1
      <4>2. CASE d # e
        BY <2>2, <2>4, <4>2, SortsOrders
      <4> QED
        BY <4>1, <4>2
    <3>2. IsLast(x, R)
      BY <1>5, <3>1 DEF IsLast
    <3> QED
      BY <1>4, <1>5, <3>2
  <2> QED
    BY <2>2, <2>3, <2>4, SortsOrders
<1> QED
  BY <1>8, <1>9

(* Strong induction over a set whose members have sizes, and that a function  *)
(* whose equation looks at smaller arguments only exists.                    *)
LEMMA BySize ==
  ASSUME NEW D, NEW size \in [D -> Nat], NEW P \in SUBSET D,
         \A d \in D : (\A c \in D : size[c] < size[d] => c \in P) => d \in P
  PROVE  P = D
<1> SUFFICES ASSUME P # D PROVE FALSE
  OBVIOUS
<1> DEFINE Sizes == {size[d] : d \in D \ P}
<1>1. Sizes \in SUBSET Nat /\ Sizes # {}
  OBVIOUS
<1>2. PICK n \in Sizes : \A t \in Sizes : n <= t
  BY <1>1, LeastOf
<1>3. PICK d \in D \ P : size[d] = n
  OBVIOUS
<1>4. \A c \in D : size[c] < size[d] => c \in P
  <2> TAKE c \in D
  <2> HAVE size[c] < size[d]
  <2> SUFFICES ASSUME c \notin P PROVE FALSE
    OBVIOUS
  <2>1. size[c] \in Sizes
    OBVIOUS
  <2>2. n <= size[c]
    BY <1>2, <2>1
  <2> QED BY <2>2, <1>3
<1> QED BY <1>3, <1>4

Solves(f, D, B) == \A d \in D : f[d] = B[d][f]
SmallerOnly(D, T, size, B) ==
  \A d \in D : \A g, h \in [D -> T] :
    (\A c \in D : size[c] < size[d] => g[c] = h[c]) => B[d][g] = B[d][h]

LEMMA Recursion ==
  ASSUME NEW D, NEW T, T # {}, NEW size \in [D -> Nat], NEW bound \in Nat,
         \A d \in D : size[d] < bound,
         NEW B \in [D -> [[D -> T] -> T]], SmallerOnly(D, T, size, B)
  PROVE  \E f \in [D -> T] : Solves(f, D, B)
<1> DEFINE Below(n, f) == \A d \in D : size[d] < n => f[d] = B[d][f]
           P == {n \in Nat : \E f \in [D -> T] : Below(n, f)}
<1>1. \A n \in P : n + 1 \in P
  <2> TAKE n \in P
  <2>1. PICK f \in [D -> T] : Below(n, f)
    OBVIOUS
  <2> DEFINE g == [d \in D |-> IF size[d] < n THEN f[d] ELSE B[d][f]]
  <2>2. g \in [D -> T]
    OBVIOUS
  <2>3. ASSUME NEW d \in D, size[d] < n + 1 PROVE g[d] = B[d][g]
    <3>1. \A c \in D : size[c] < size[d] => f[c] = g[c]
      <4> TAKE c \in D
      <4> HAVE size[c] < size[d]
      <4>1. size[c] < n
        BY <2>3
      <4> QED BY <4>1
    <3> HIDE DEF g
    <3>2. B[d][f] = B[d][g]
      BY <3>1, <2>2 DEF SmallerOnly
    <3>3. g[d] = B[d][f]
      BY <2>1 DEF g
    <3> QED BY <3>2, <3>3
  <2> HIDE DEF g
  <2>4. Below(n + 1, g)
    BY <2>3
  <2> QED BY <2>2, <2>4
<1>2. 0 \in P
  <2>1. PICK t \in T : TRUE
    OBVIOUS
  <2>2. [d \in D |-> t] \in [D -> T] /\ Below(0, [d \in D |-> t])
    OBVIOUS
  <2> QED BY <2>2
<1>3. bound \in P
  <2> HIDE DEF P
  <2> SUFFICES ASSUME bound \notin P PROVE FALSE
    OBVIOUS
  <2>1. Nat \ P \in SUBSET Nat /\ Nat \ P # {}
    OBVIOUS
  <2>2. PICK n \in Nat \ P : \A k \in Nat \ P : n <= k
    BY <2>1, LeastOf
  <2>3. n # 0
    BY <1>2
  <2>4. n - 1 \in P
    BY <2>2, <2>3
  <2>5. (n - 1) + 1 \in P
    BY <2>4, <1>1
  <2> QED BY <2>5
<1>4. PICK f \in [D -> T] : Below(bound, f)
  BY <1>3
<1>5. Solves(f, D, B)
  BY <1>4 DEF Solves
<1> QED BY <1>4, <1>5

LEMMA IngestAdds ==
  ASSUME NEW d \in Tables, NEW row \in MemoryRows
  PROVE  /\ IngestRow(d, row) \in Tables
         /\ \A p \in Paths : HasScope(d, p) => HasScope(IngestRow(d, row), p)
         /\ d.plan \subseteq IngestRow(d, row).plan
         /\ d.learning \subseteq IngestRow(d, row).learning
         /\ \A p \in Paths : row.key = ScopeKey(p) => HasScope(IngestRow(d, row), p)
         /\ \A p \in Paths : row.key = PlanKey(p) /\ HasScope(d, p) => p \in IngestRow(d, row).plan
         /\ \A l \in LearningIds : row.key = LearningKey(l) /\ CanAppend(d, made[l].path, made[l].fixes)
              => l \in IngestRow(d, row).learning
<1> DEFINE e == IngestRow(d, row)
<1>0. /\ d.scope \in [Paths -> {"none", "open", "boundary"}]
      /\ d.plan \subseteq Paths /\ d.learning \subseteq LearningIds
  BY DEF Tables
<1>1. ASSUME NEW p \in Paths, row.key = ScopeKey(p), row.kind \in {"open", "boundary"}
      PROVE  /\ e \in Tables /\ e.plan = d.plan /\ e.learning = d.learning
             /\ \A q \in Paths : HasScope(e, q) <=> (q = p \/ HasScope(d, q))
  <2>1. row.key[1] = "scope" /\ row.key[2] = p
    BY <1>1 DEF ScopeKey
  <2>2. e = [d EXCEPT !.scope = [d.scope EXCEPT ![p] = row.kind]]
    BY <2>1 DEF IngestRow, UpdateScope, Tables
  <2> HIDE DEF e
  <2>3. e.scope = [d.scope EXCEPT ![p] = row.kind] /\ e.plan = d.plan /\ e.learning = d.learning
    BY <2>2 DEF Tables
  <2>4. e \in Tables
    BY <1>1, <2>2 DEF Tables
  <2>5. \A q \in Paths : e.scope[q] = IF q = p THEN row.kind ELSE d.scope[q]
    BY <1>0, <2>3
  <2> QED
    BY <1>1, <2>3, <2>4, <2>5 DEF HasScope
<1>2. ASSUME NEW p \in Paths, row.key = PlanKey(p)
      PROVE  /\ e \in Tables /\ e.scope = d.scope /\ e.learning = d.learning
             /\ e.plan = IF HasScope(d, p) THEN d.plan \cup {p} ELSE d.plan
  <2>1. row.key[1] = "plan" /\ row.key[2] = p
    BY <1>2 DEF PlanKey
  <2>2. e = IF HasScope(d, p) THEN [d EXCEPT !.plan = @ \cup {p}] ELSE d
    BY <2>1 DEF IngestRow
  <2> HIDE DEF e
  <2> QED
    BY <2>2 DEF Tables
<1>3. ASSUME NEW l \in LearningIds, row.key = LearningKey(l)
      PROVE  /\ e \in Tables /\ e.scope = d.scope /\ e.plan = d.plan
             /\ e.learning = IF CanAppend(d, made[l].path, made[l].fixes)
                             THEN d.learning \cup {l} ELSE d.learning
  <2>1. row.key[1] = "learning" /\ row.key[2] = l
    BY <1>3 DEF LearningKey
  <2>2. e = IF CanAppend(d, made[l].path, made[l].fixes)
            THEN [d EXCEPT !.learning = @ \cup {l}] ELSE d
    BY <2>1 DEF IngestRow
  <2> HIDE DEF e
  <2> QED
    BY <2>2 DEF Tables
<1> HIDE DEF e
<1>4. ASSUME NEW p \in Paths, NEW q \in Paths, NEW l \in LearningIds, NEW k \in LearningIds
      PROVE  /\ ScopeKey(p) # PlanKey(q) /\ ScopeKey(p) # LearningKey(l) /\ PlanKey(p) # LearningKey(l)
             /\ (ScopeKey(p) = ScopeKey(q) => p = q) /\ (PlanKey(p) = PlanKey(q) => p = q)
             /\ (LearningKey(l) = LearningKey(k) => l = k)
  BY DEF ScopeKey, PlanKey, LearningKey
<1>5. ASSUME NEW p \in Paths, row.key = ScopeKey(p), row.kind \in {"open", "boundary"}
      PROVE  /\ \A q \in Paths : row.key = ScopeKey(q) => HasScope(e, q)
             /\ \A q \in Paths : HasScope(d, q) => HasScope(e, q)
             /\ \A q \in Paths : row.key # PlanKey(q)
             /\ \A l \in LearningIds : row.key # LearningKey(l)
  <2>1. \A q \in Paths : ScopeKey(p) = ScopeKey(q) => p = q
    BY DEF ScopeKey
  <2>2. (\A q \in Paths : ScopeKey(p) # PlanKey(q)) /\ \A l \in LearningIds : ScopeKey(p) # LearningKey(l)
    BY DEF ScopeKey, PlanKey, LearningKey
  <2> QED
    BY <1>1, <1>5, <2>1, <2>2
<1>6. ASSUME NEW p \in Paths, row.key = PlanKey(p)
      PROVE  /\ \A q \in Paths : row.key = PlanKey(q) /\ HasScope(d, q) => q \in e.plan
             /\ \A q \in Paths : row.key # ScopeKey(q)
             /\ \A l \in LearningIds : row.key # LearningKey(l)
  <2>1. \A q \in Paths : PlanKey(p) = PlanKey(q) => p = q
    BY DEF PlanKey
  <2>2. (\A q \in Paths : PlanKey(p) # ScopeKey(q)) /\ \A l \in LearningIds : PlanKey(p) # LearningKey(l)
    BY DEF ScopeKey, PlanKey, LearningKey
  <2> QED
    BY <1>2, <1>6, <2>1, <2>2
<1>7. ASSUME NEW l \in LearningIds, row.key = LearningKey(l)
      PROVE  /\ \A k \in LearningIds : row.key = LearningKey(k) /\ CanAppend(d, made[k].path, made[k].fixes)
                  => k \in e.learning
             /\ \A q \in Paths : row.key # ScopeKey(q) /\ row.key # PlanKey(q)
  <2>1. \A k \in LearningIds : LearningKey(l) = LearningKey(k) => l = k
    BY DEF LearningKey
  <2>2. \A q \in Paths : LearningKey(l) # ScopeKey(q) /\ LearningKey(l) # PlanKey(q)
    BY DEF ScopeKey, PlanKey, LearningKey
  <2> QED
    BY <1>3, <1>7, <2>1, <2>2
<1>8. CASE \E p \in Paths : row.key = ScopeKey(p) /\ row.kind \in {"open", "boundary"}
  BY <1>1, <1>5, <1>8 DEF e
<1>9. CASE \E p \in Paths : row.key = PlanKey(p)
  BY <1>2, <1>6, <1>9 DEF e, HasScope
<1>10. CASE \E l \in LearningIds : row.key = LearningKey(l)
  BY <1>3, <1>7, <1>10 DEF e, HasScope
<1> QED
  BY <1>8, <1>9, <1>10, KeyIs

(* What Fresh computes: the rows ingested in their order, the last one last. *)
LEMMA FreshIs ==
  ASSUME ScopesAssumption, RowsKeyed(up)
  PROVE  \E after, last :
           /\ Fresh = after[up]
           /\ \A R \in SUBSET up :
                /\ R = {} => after[R] = Empty
                /\ R # {} => /\ IsLast(last[R], R)
                             /\ after[R] = IngestRow(after[R \ {last[R]}], last[R])
<1> DEFINE end(R) == CHOOSE r \in R : \A q \in R \ {r} : Sorts(q, r)
           F(f) == f = [R \in SUBSET up |->
                          IF R = {} THEN Empty ELSE IngestRow(f[R \ {end(R)}], end(R))]
           after == CHOOSE f : F(f)
           size == [R \in SUBSET up |-> Cardinality(R)]
<1>1. Fresh = after[up]
  BY DEF Fresh
<1>2. ASSUME NEW R \in SUBSET up
      PROVE  /\ RowsKeyed(R) /\ Cardinality(R) \in Nat
             /\ Cardinality(R) < Cardinality(up) + 1 /\ Cardinality(up) \in Nat
  <2>1. IsFiniteSet(R) /\ Cardinality(R) <= Cardinality(up)
    BY FS_Subset DEF RowsKeyed
  <2>2. Cardinality(R) \in Nat /\ Cardinality(up) \in Nat
    BY <2>1, FS_CardinalityType DEF RowsKeyed
  <2>3. RowsKeyed(R)
    BY <2>1 DEF RowsKeyed
  <2> QED
    BY <2>1, <2>2, <2>3
<1>3. ASSUME NEW R \in SUBSET up, R # {}
      PROVE  IsLast(end(R), R)
  <2>1. \E r \in R : \A q \in R \ {r} : Sorts(q, r)
    BY <1>2, <1>3, LastRow DEF IsLast
  <2> QED
    BY <2>1 DEF IsLast
<1>4. ASSUME NEW R \in SUBSET up, R # {}
      PROVE  R \ {end(R)} \in SUBSET up /\ size[R \ {end(R)}] < size[R]
  <2> DEFINE r == end(R)
  <2>1. r \in R
    BY <1>3, <1>4 DEF IsLast
  <2> HIDE DEF r
  <2>2. Cardinality(R \ {r}) = Cardinality(R) - 1 /\ Cardinality(R) \in Nat
    BY <1>2, <2>1, FS_RemoveElement DEF RowsKeyed
  <2>3. R \ {r} \in SUBSET up
    OBVIOUS
  <2>4. size[R \ {r}] < size[R]
    BY <2>2, <2>3
  <2> QED
    BY <2>3, <2>4 DEF r
<1> HIDE DEF end
<1>5. \E f : F(f)
  <2> DEFINE D == SUBSET up
             T == Tables
             B == [R \in D |-> [f \in [D -> T] |->
                     IF R = {} THEN Empty ELSE IngestRow(f[R \ {end(R)}], end(R))]]
             bound == Cardinality(up) + 1
  <2>1. Empty \in T
    BY DEF Empty, Tables
  <2>2. B \in [D -> [[D -> T] -> T]]
    <3> SUFFICES ASSUME NEW R \in D, NEW f \in [D -> T], R # {}
                 PROVE  IngestRow(f[R \ {end(R)}], end(R)) \in T
      BY <2>1
    <3>1. end(R) \in MemoryRows /\ f[R \ {end(R)}] \in Tables
      BY <1>3 DEF IsLast, RowsKeyed
    <3> QED
      BY <3>1, IngestAdds
  <2>3. SmallerOnly(D, T, size, B)
    <3> SUFFICES ASSUME NEW R \in D, NEW g \in [D -> T], NEW h \in [D -> T],
                        \A C \in D : size[C] < size[R] => g[C] = h[C]
                 PROVE  B[R][g] = B[R][h]
      BY DEF SmallerOnly
    <3>1. R # {} => g[R \ {end(R)}] = h[R \ {end(R)}]
      <4> HIDE DEF size
      <4> QED
        BY <1>4
    <3> QED
      BY <3>1
  <2>4. size \in [D -> Nat] /\ bound \in Nat /\ T # {} /\ \A R \in D : size[R] < bound
    <3>1. Cardinality(up) \in Nat
      BY <1>2
    <3> QED
      BY <1>2, <2>1, <3>1
  <2>5. PICK f \in [D -> T] : Solves(f, D, B)
    <3> HIDE DEF D, T, B, size, bound
    <3> QED
      BY <2>2, <2>3, <2>4, Recursion
  <2>6. F(f)
    <3>1. \A R \in D : f[R] = B[R][f]
      <4> HIDE DEF D, B
      <4> QED
        BY <2>5 DEF Solves
    <3>2. \A R \in D : B[R][f] = IF R = {} THEN Empty ELSE IngestRow(f[R \ {end(R)}], end(R))
      BY <2>5
    <3> HIDE DEF B
    <3> QED
      BY <2>5, <3>1, <3>2
  <2> HIDE DEF F
  <2> QED
    BY <2>6
<1>6. F(after)
  <2> HIDE DEF F
  <2> QED
    BY <1>5
<1> HIDE DEF after
<1> DEFINE last == [R \in SUBSET up |-> end(R)]
<1>7. ASSUME NEW R \in SUBSET up
      PROVE  /\ R = {} => after[R] = Empty
             /\ R # {} => /\ IsLast(last[R], R)
                          /\ after[R] = IngestRow(after[R \ {last[R]}], last[R])
  <2>1. after[R] = IF R = {} THEN Empty ELSE IngestRow(after[R \ {end(R)}], end(R))
    BY <1>6
  <2>2. last[R] = end(R)
    OBVIOUS
  <2> QED
    BY <1>3, <2>1, <2>2
<1> HIDE DEF last, F
<1> QED
  BY <1>1, <1>7

(* Rows whose key sorts after those of the rows they need: a plan after its  *)
(* scope, a learning after its scope and after what it corrects.             *)
Has(R, key) == \E row \in R : row.key = key

Complete(R, P, L) ==
  /\ \A p \in P : Has(R, PlanKey(p)) => Has(R, ScopeKey(p))
  /\ \A l \in L : Has(R, LearningKey(l)) =>
       /\ Has(R, ScopeKey(made[l].path))
       /\ made[l].fixes \in (L \ {l}) \cup {0}
       /\ made[l].fixes # 0 => Has(R, LearningKey(made[l].fixes))

LEMMA ScopeIsFirst ==
  ASSUME NEW a, NEW b, NEW p, a.key = ScopeKey(p)
  PROVE  /\ b.key = PlanKey(p) => Sorts(a, b)
         /\ \A l \in Nat : b.key = LearningKey(l) /\ made[l].path = p => Sorts(a, b)
<1>1. KeyPath(a.key) = p /\ Rank(a.key) = <<0, 0>>
  BY ScopeSorts
<1>2. \A n \in Nat : \A k \in Nat \ {0} : PathBefore(<<0, 0>>, <<k, n>>)
  <2> TAKE n \in Nat
  <2> TAKE k \in Nat \ {0}
  <2>1. 1 \in 1..Len(<<0, 0>>) /\ 1 <= Len(<<k, n>>) /\ <<0, 0>>[1] < <<k, n>>[1]
    OBVIOUS
  <2>2. \A j \in 1..(1 - 1) : <<0, 0>>[j] = <<k, n>>[j]
    OBVIOUS
  <2> QED
    BY <2>1, <2>2 DEF PathBefore
<1>3. PathBefore(<<0, 0>>, <<2, 0>>) /\ \A l \in Nat : PathBefore(<<0, 0>>, <<1, l>>)
  BY <1>2
<1>4. ASSUME b.key = PlanKey(p)
      PROVE  Sorts(a, b)
  <2>1. KeyPath(b.key) = p /\ Rank(b.key) = <<2, 0>>
    BY <1>4, PlanSorts
  <2> QED
    BY <1>1, <1>3, <2>1 DEF Sorts
<1>5. ASSUME NEW l \in Nat, b.key = LearningKey(l), made[l].path = p
      PROVE  Sorts(a, b)
  <2>1. KeyPath(b.key) = p /\ Rank(b.key) = <<1, l>>
    BY <1>5, LearningSorts
  <2> QED
    BY <1>1, <1>3, <2>1 DEF Sorts
<1> QED
  BY <1>4, <1>5

(* Whatever is still needed is there without the last row. *)
LEMMA LastIsNotNeeded ==
  ASSUME ScopesAssumption, NEW S, RowsKeyed(S), NEW R \in SUBSET S, NEW r, IsLast(r, R),
         NEW q \in R \ {r}, NEW a \in R, Sorts(a, q)
  PROVE  a \in R \ {r}
<1> SUFFICES ASSUME a = r
             PROVE  FALSE
  OBVIOUS
<1>1. Sorts(q, r) /\ q \in S /\ r \in S
  BY DEF IsLast
<1>2. Sorts(r, q)
  OBVIOUS
<1>3. Sorts(q, q)
  BY <1>1, <1>2, SortsOrders
<1> QED
  BY <1>1, <1>3, SortsOrders

LEMMA CompleteBefore ==
  ASSUME ScopesAssumption, InKeyOrder, NEW S, RowsKeyed(S), NEW R \in SUBSET S,
         NEW P \in SUBSET Paths, NEW L \in SUBSET LearningIds, Complete(R, P, L),
         NEW r, IsLast(r, R)
  PROVE  Complete(R \ {r}, P, L)
<1> DEFINE Q == R \ {r}
<1>1. ASSUME NEW p \in P, Has(Q, PlanKey(p))
      PROVE  Has(Q, ScopeKey(p))
  <2>1. PICK q \in Q : q.key = PlanKey(p)
    BY <1>1 DEF Has
  <2>2. PICK a \in R : a.key = ScopeKey(p)
    BY <2>1 DEF Complete, Has
  <2>3. Sorts(a, q)
    BY <2>1, <2>2, ScopeIsFirst
  <2>4. a \in Q
    BY <2>1, <2>3, LastIsNotNeeded
  <2> QED
    BY <2>2, <2>4 DEF Has
<1>2. ASSUME NEW l \in L, Has(Q, LearningKey(l))
      PROVE  /\ Has(Q, ScopeKey(made[l].path))
             /\ made[l].fixes \in (L \ {l}) \cup {0}
             /\ made[l].fixes # 0 => Has(Q, LearningKey(made[l].fixes))
  <2>1. PICK q \in Q : q.key = LearningKey(l)
    BY <1>2 DEF Has
  <2>2. /\ Has(R, ScopeKey(made[l].path))
        /\ made[l].fixes \in (L \ {l}) \cup {0}
        /\ made[l].fixes # 0 => Has(R, LearningKey(made[l].fixes))
    BY <2>1 DEF Complete, Has
  <2>3. PICK a \in R : a.key = ScopeKey(made[l].path)
    BY <2>2 DEF Has
  <2>4. l \in Nat
    BY DEF ScopesAssumption
  <2>a. Sorts(a, q)
    BY <2>1, <2>3, <2>4, ScopeIsFirst
  <2>5. a \in Q
    BY <2>1, <2>a, LastIsNotNeeded
  <2>6. ASSUME made[l].fixes # 0
        PROVE  Has(Q, LearningKey(made[l].fixes))
    <3>1. PICK b \in R : b.key = LearningKey(made[l].fixes)
      BY <2>2, <2>6 DEF Has
    <3>2. Sorts([key |-> LearningKey(made[l].fixes)], [key |-> LearningKey(l)])
      BY <2>6 DEF InKeyOrder
    <3>3. Sorts(b, q)
      BY <2>1, <3>1, <3>2 DEF Sorts
    <3>4. b \in Q
      BY <2>1, <3>3, LastIsNotNeeded
    <3> QED
      BY <3>1, <3>4 DEF Has
  <2> QED
    BY <2>2, <2>3, <2>5, <2>6 DEF Has
<1> HIDE DEF Q
<1>3. Complete(Q, P, L)
  BY <1>1, <1>2 DEF Complete
<1> QED
  BY <1>3 DEF Q

(* A table holds what the rows R say. *)
Holds(d, R, P, L) ==
  /\ d \in Tables
  /\ \A p \in Paths : Has(R, ScopeKey(p)) => HasScope(d, p)
  /\ \A p \in P : Has(R, PlanKey(p)) => p \in d.plan
  /\ \A l \in L : Has(R, LearningKey(l)) => l \in d.learning

LEMMA IngestHolds ==
  ASSUME NEW R \in SUBSET MemoryRows, NEW P \in SUBSET Paths, NEW L \in SUBSET LearningIds,
         \A l \in L : made[l].path \in Paths,
         Complete(R, P, L), NEW r \in R,
         NEW d, Holds(d, R \ {r}, P, L)
  PROVE  Holds(IngestRow(d, r), R, P, L)
<1> DEFINE e == IngestRow(d, r)
           Q == R \ {r}
<1>1. /\ d \in Tables /\ r \in MemoryRows
      /\ \A p \in Paths : Has(Q, ScopeKey(p)) => HasScope(d, p)
      /\ \A p \in P : Has(Q, PlanKey(p)) => p \in d.plan
      /\ \A l \in L : Has(Q, LearningKey(l)) => l \in d.learning
  BY DEF Holds
<1>2. /\ e \in Tables
      /\ \A p \in Paths : HasScope(d, p) => HasScope(e, p)
      /\ d.plan \subseteq e.plan
      /\ d.learning \subseteq e.learning
      /\ \A p \in Paths : r.key = ScopeKey(p) => HasScope(e, p)
      /\ \A p \in Paths : r.key = PlanKey(p) /\ HasScope(d, p) => p \in e.plan
      /\ \A l \in LearningIds : r.key = LearningKey(l) /\ CanAppend(d, made[l].path, made[l].fixes)
           => l \in e.learning
  BY <1>1, IngestAdds
<1> HIDE DEF e
<1>3. ASSUME NEW key, Has(R, key)
      PROVE  Has(Q, key) \/ r.key = key
  BY <1>3 DEF Has
<1> HIDE DEF Q
<1>4. ASSUME NEW p \in Paths, Has(R, ScopeKey(p))
      PROVE  HasScope(e, p)
  BY <1>1, <1>2, <1>3, <1>4
<1>5. ASSUME NEW p \in P, Has(R, PlanKey(p))
      PROVE  p \in e.plan
  <2>1. CASE Has(Q, PlanKey(p))
    BY <1>1, <1>2, <2>1
  <2>2. CASE r.key = PlanKey(p)
    <3>1. Has(R, ScopeKey(p)) /\ ScopeKey(p) # PlanKey(p)
      BY <1>5 DEF Complete, ScopeKey, PlanKey
    <3>2. HasScope(d, p)
      BY <1>1, <1>3, <2>2, <3>1
    <3> QED
      BY <1>2, <2>2, <3>2
  <2> QED
    BY <1>3, <1>5, <2>1, <2>2
<1>6. ASSUME NEW l \in L, Has(R, LearningKey(l))
      PROVE  l \in e.learning
  <2>1. CASE Has(Q, LearningKey(l))
    BY <1>1, <1>2, <2>1
  <2>2. CASE r.key = LearningKey(l) /\ ~Has(Q, LearningKey(l))
    <3> DEFINE p == made[l].path
               k == made[l].fixes
    <3>1. /\ Has(R, ScopeKey(p)) /\ ScopeKey(p) # LearningKey(l)
          /\ k \in (L \ {l}) \cup {0} /\ (k # 0 => Has(R, LearningKey(k)))
      BY <1>6 DEF Complete, ScopeKey, LearningKey
    <3>2. p \in Paths
      OBVIOUS
    <3> HIDE DEF p, k
    <3>3. HasScope(d, p)
      BY <1>1, <1>3, <2>2, <3>1, <3>2
    <3>4. k \in d.learning \cup {0}
      <4>1. LearningKey(k) = LearningKey(l) => k = l
        BY DEF LearningKey
      <4> QED
        BY <1>1, <1>3, <2>2, <3>1, <4>1
    <3> QED
      BY <1>2, <2>2, <3>3, <3>4 DEF CanAppend, p, k
  <2> QED
    BY <1>3, <1>6, <2>1, <2>2
<1>7. Holds(e, R, P, L)
  BY <1>2, <1>4, <1>5, <1>6 DEF Holds
<1> QED
  BY <1>7 DEF e

LEMMA FreshHolds ==
  ASSUME ScopesAssumption, InKeyOrder, RowsKeyed(up),
         NEW P \in SUBSET Paths, NEW L \in SUBSET LearningIds,
         \A l \in L : made[l].path \in Paths, Complete(up, P, L)
  PROVE  Holds(Fresh, up, P, L)
<1>1. PICK after, last :
        /\ Fresh = after[up]
        /\ \A R \in SUBSET up :
             /\ R = {} => after[R] = Empty
             /\ R # {} => /\ IsLast(last[R], R)
                          /\ after[R] = IngestRow(after[R \ {last[R]}], last[R])
  BY FreshIs
<1> DEFINE D == SUBSET up
           size == [R \in D |-> Cardinality(R)]
           Good == {R \in D : Complete(R, P, L) => Holds(after[R], R, P, L)}
<1>2. size \in [D -> Nat]
  <2>1. \A R \in D : Cardinality(R) \in Nat
    BY FS_Subset, FS_CardinalityType DEF RowsKeyed
  <2> QED
    BY <2>1
<1>3. ASSUME NEW R \in D, \A C \in D : size[C] < size[R] => C \in Good
      PROVE  R \in Good
  <2> SUFFICES ASSUME Complete(R, P, L)
               PROVE  Holds(after[R], R, P, L)
    OBVIOUS
  <2>1. CASE R = {}
    <3>1. Empty \in Tables
      BY DEF Empty, Tables
    <3>2. after[R] = Empty
      BY <1>1, <2>1
    <3> QED
      BY <2>1, <3>1, <3>2 DEF Holds, Has
  <2>2. CASE R # {}
    <3> DEFINE r == last[R]
               Q == R \ {r}
    <3>1. IsLast(r, R) /\ after[R] = IngestRow(after[Q], r)
      BY <1>1, <2>2
    <3> HIDE DEF r
    <3>2. r \in R
      BY <3>1 DEF IsLast
    <3>3. Q \in D /\ size[Q] < size[R]
      <4>1. IsFiniteSet(R) /\ Cardinality(R) \in Nat
        BY FS_Subset, FS_CardinalityType DEF RowsKeyed
      <4>2. Cardinality(Q) = Cardinality(R) - 1
        BY <3>2, <4>1, FS_RemoveElement
      <4> QED
        BY <4>1, <4>2
    <3>4. Complete(Q, P, L)
      BY <3>1, CompleteBefore
    <3>5. Holds(after[Q], Q, P, L)
      <4> HIDE DEF size, Q, D
      <4>1. Q \in Good
        BY <1>3, <3>3
      <4> QED
        BY <3>4, <4>1
    <3>6. R \in SUBSET MemoryRows
      BY DEF RowsKeyed
    <3>7. Holds(IngestRow(after[Q], r), R, P, L)
      BY <3>2, <3>5, <3>6, IngestHolds
    <3> QED
      BY <3>1, <3>7
  <2> QED
    BY <2>1, <2>2
<1>4. Good = D
  <2>1. Good \in SUBSET D
    OBVIOUS
  <2>2. \A R \in D : (\A C \in D : size[C] < size[R] => C \in Good) => R \in Good
    BY <1>3
  <2> HIDE DEF Good, size, D
  <2> QED
    BY ONLY <1>2, <2>1, <2>2, BySize
<1>5. up \in Good
  BY <1>4
<1> QED
  BY <1>1, <1>5

-------------------------------------------------------------------------------
(* What a machine has is upstream or on its way there: in an outbox, with a  *)
(* request that is about to enqueue it, or else with one that has yet to     *)
(* read it back on this machine.                                             *)

Sent(key) ==
  \/ Has(up, key)
  \/ \E m \in Machines : Has(outbox[m], key)
  \/ \E c \in Callers : req[c].at = "enqueue" /\ req[c].row.key = key

Reading(m, key) == \E c \in Callers : req[c].at = "read" /\ req[c].m = m /\ req[c].row.key = key

OnItsWay(m, key) == Sent(key) \/ Reading(m, key)

Comes(m) ==
  /\ \A p \in Paths : HasScope(db[m], p) => OnItsWay(m, ScopeKey(p))
  /\ \A p \in db[m].plan : Sent(PlanKey(p))
  /\ \A l \in db[m].learning : OnItsWay(m, LearningKey(l))

KeyedUp == IsFiniteSet(up) /\ \A a, b \in up : a.key = b.key => a = b

OnTheirWay == KeyedUp /\ \A m \in Machines : Comes(m)

LEMMA OnTheirWayInit ==
  ASSUME ScopesInit
  PROVE  OnTheirWay
<1>1. KeyedUp
  BY FS_EmptySet DEF ScopesInit, KeyedUp
<1>2. ASSUME NEW m \in Machines
      PROVE  Comes(m)
  BY DEF ScopesInit, Empty, HasScope, Comes
<1> QED
  BY <1>1, <1>2 DEF OnTheirWay

(* What is sent stays sent, if no request forgets it before it is queued. *)
LEMMA SentStays ==
  ASSUME NEW key, Sent(key), outbox' = outbox, up' = up,
         \A c \in Callers : req[c].at = "enqueue" => req'[c] = req[c]
  PROVE  Sent(key)'
BY DEF Sent, Has

(* A request begins, or goes on with a context: nothing on its way is lost. *)
LEMMA OthersWait ==
  ASSUME NEW c \in Callers, req[c].at \notin {"read", "enqueue"},
         \A x \in Callers \ {c} : req'[x] = req[x],
         outbox' = outbox, up' = up
  PROVE  /\ \A key : Sent(key) => Sent(key)'
         /\ \A m \in Machines : \A key : OnItsWay(m, key) => OnItsWay(m, key)'
<1>1. \A x \in Callers : req[x].at \in {"read", "enqueue"} => req'[x] = req[x]
  OBVIOUS
<1>2. ASSUME NEW key, Sent(key)
      PROVE  Sent(key)'
  BY <1>1, <1>2, SentStays
<1>3. ASSUME NEW m \in Machines, NEW key, Reading(m, key)
      PROVE  Reading(m, key)'
  BY <1>1, <1>3 DEF Reading
<1> QED
  BY <1>2, <1>3 DEF OnItsWay

LEMMA SameComes ==
  ASSUME OnTheirWay, up' = up,
         \A m \in Machines :
           /\ \A p \in Paths : HasScope(db'[m], p) => HasScope(db[m], p)
           /\ db'[m].plan \subseteq db[m].plan
           /\ db'[m].learning \subseteq db[m].learning,
         \A key : Sent(key) => Sent(key)',
         \A m \in Machines : \A key : OnItsWay(m, key) => OnItsWay(m, key)'
  PROVE  OnTheirWay'
<1>1. KeyedUp'
  BY DEF OnTheirWay, KeyedUp
<1>2. ASSUME NEW m \in Machines
      PROVE  Comes(m)'
  <2>1. Comes(m)
    BY DEF OnTheirWay
  <2>2. \A p \in Paths : HasScope(db[m], p)' <=> HasScope(db'[m], p)
    BY DEF HasScope
  <2>3. \A p \in Paths : HasScope(db[m], p)' => OnItsWay(m, ScopeKey(p))'
    BY <2>1, <2>2 DEF Comes, ScopeKey
  <2>4. \A p \in db'[m].plan : Sent(PlanKey(p))'
    BY <2>1 DEF Comes, PlanKey
  <2>5. \A l \in db'[m].learning : OnItsWay(m, LearningKey(l))'
    BY <2>1 DEF Comes, LearningKey
  <2> QED
    BY <2>3, <2>4, <2>5 DEF Comes
<1> QED
  BY <1>1, <1>2 DEF OnTheirWay

LEMMA RequestBegins ==
  ASSUME Filed, NEW c \in Callers, NEW m \in Machines, NEW at, NEW p, NEW row,
         Begin(c, m, at, p, row)
  PROVE  /\ req[c].at = "idle"
         /\ req'[c].at = at /\ req'[c].m = m /\ req'[c].row = row
         /\ \A x \in Callers \ {c} : req'[x] = req[x]
<1> DEFINE rec == [Idle EXCEPT !.at = at, !.m = m, !.path = p, !.row = row, !.i = 1]
<1>1. rec.at = at /\ rec.m = m /\ rec.row = row
  BY DEF Idle
<1>2. req[c].at = "idle" /\ req' = [req EXCEPT ![c] = rec]
  BY DEF Begin
<1> HIDE DEF rec
<1>3. req'[c] = rec /\ \A x \in Callers \ {c} : req'[x] = req[x]
  BY <1>2 DEF Filed, CallsHold
<1> QED
  BY <1>1, <1>2, <1>3

LEMMA SetScopeComes ==
  ASSUME Filed, OnTheirWay, NEW c \in Callers, NEW m \in Machines, NEW p \in Paths,
         NEW kind \in {"open", "boundary"}, SetScope(c, m, p, kind)
  PROVE  OnTheirWay'
<1>1. /\ req[c].at = "idle" /\ req'[c].at = "read" /\ req'[c].m = m
      /\ req'[c].row = [key |-> ScopeKey(p), kind |-> kind]
      /\ \A x \in Callers \ {c} : req'[x] = req[x]
  BY RequestBegins DEF SetScope
<1>2. outbox' = outbox /\ up' = up /\ db' = [db EXCEPT ![m] = UpdateScope(db[m], p, kind)]
  BY DEF SetScope
<1>3. /\ \A key : Sent(key) => Sent(key)'
      /\ \A n \in Machines : \A key : OnItsWay(n, key) => OnItsWay(n, key)'
  BY <1>1, <1>2, OthersWait
<1>4. OnItsWay(m, ScopeKey(p))'
  <2>1. Reading(m, ScopeKey(p))'
    BY <1>1 DEF Reading, ScopeKey
  <2> QED
    BY <2>1 DEF OnItsWay
<1>5. ASSUME NEW n \in Machines
      PROVE  /\ \A q \in Paths : HasScope(db'[n], q) => HasScope(db[n], q) \/ (n = m /\ q = p)
             /\ db'[n].plan = db[n].plan /\ db'[n].learning = db[n].learning
  <2>1. db[n] \in Tables
    BY DEF Filed, TablesHold
  <2>2. db'[n] = IF n = m THEN UpdateScope(db[n], p, kind) ELSE db[n]
    BY <1>2 DEF Filed, TablesHold
  <2> QED
    BY <2>1, <2>2 DEF UpdateScope, Tables, HasScope
<1>6. KeyedUp'
  BY <1>2 DEF OnTheirWay, KeyedUp
<1>7. ASSUME NEW n \in Machines
      PROVE  Comes(n)'
  <2>1. Comes(n)
    BY DEF OnTheirWay
  <2>2. \A q \in Paths : HasScope(db[n], q)' <=> HasScope(db'[n], q)
    BY DEF HasScope
  <2>3. \A q \in Paths : HasScope(db[n], q)' => OnItsWay(n, ScopeKey(q))'
    BY <1>3, <1>4, <1>5, <2>1, <2>2 DEF Comes, ScopeKey
  <2>4. \A q \in db'[n].plan : Sent(PlanKey(q))'
    BY <1>3, <1>5, <2>1 DEF Comes, PlanKey
  <2>5. \A l \in db'[n].learning : OnItsWay(n, LearningKey(l))'
    BY <1>3, <1>5, <2>1 DEF Comes, LearningKey
  <2> QED
    BY <2>3, <2>4, <2>5 DEF Comes
<1> QED
  BY <1>6, <1>7 DEF OnTheirWay

LEMMA AppendLearningComes ==
  ASSUME Filed, OnTheirWay, NEW c \in Callers, NEW m \in Machines, NEW p \in Paths,
         NEW l \in LearningIds, NEW fixes \in LearningIds \cup {0},
         AppendLearning(c, m, p, l, fixes)
  PROVE  OnTheirWay'
<1>1. /\ req[c].at = "idle" /\ req'[c].at = "read" /\ req'[c].m = m
      /\ req'[c].row = [key |-> LearningKey(l), kind |-> "item"]
      /\ \A x \in Callers \ {c} : req'[x] = req[x]
  BY RequestBegins DEF AppendLearning
<1>2. outbox' = outbox /\ up' = up /\ db' = [db EXCEPT ![m].learning = db[m].learning \cup {l}]
  BY DEF AppendLearning
<1>3. /\ \A key : Sent(key) => Sent(key)'
      /\ \A n \in Machines : \A key : OnItsWay(n, key) => OnItsWay(n, key)'
  BY <1>1, <1>2, OthersWait
<1>4. OnItsWay(m, LearningKey(l))'
  <2>1. Reading(m, LearningKey(l))'
    BY <1>1 DEF Reading, LearningKey
  <2> QED
    BY <2>1 DEF OnItsWay
<1>5. ASSUME NEW n \in Machines
      PROVE  /\ db'[n].scope = db[n].scope /\ db'[n].plan = db[n].plan
             /\ \A k \in db'[n].learning : k \in db[n].learning \/ (n = m /\ k = l)
  <2>1. db[n] \in Tables
    BY DEF Filed, TablesHold
  <2>2. db'[n] = IF n = m THEN [db[n] EXCEPT !.learning = db[n].learning \cup {l}] ELSE db[n]
    BY <1>2 DEF Filed, TablesHold
  <2> QED
    BY <2>1, <2>2 DEF Tables
<1>6. KeyedUp'
  BY <1>2 DEF OnTheirWay, KeyedUp
<1>7. ASSUME NEW n \in Machines
      PROVE  Comes(n)'
  <2>1. Comes(n)
    BY DEF OnTheirWay
  <2>2. \A q \in Paths : HasScope(db[n], q)' => OnItsWay(n, ScopeKey(q))'
    BY <1>3, <1>5, <2>1 DEF Comes, ScopeKey, HasScope
  <2>3. \A q \in db'[n].plan : Sent(PlanKey(q))'
    BY <1>3, <1>5, <2>1 DEF Comes, PlanKey
  <2>4. \A k \in db'[n].learning : OnItsWay(n, LearningKey(k))'
    BY <1>3, <1>4, <1>5, <2>1 DEF Comes, LearningKey
  <2> QED
    BY <2>2, <2>3, <2>4 DEF Comes
<1> QED
  BY <1>6, <1>7 DEF OnTheirWay

LEMMA PutPlanComes ==
  ASSUME Filed, OnTheirWay, NEW c \in Callers, NEW m \in Machines, NEW p \in Paths,
         PutPlan(c, m, p)
  PROVE  OnTheirWay'
<1>1. /\ req[c].at = "idle" /\ req'[c].at = "enqueue"
      /\ req'[c].row = [key |-> PlanKey(p), kind |-> "item"]
      /\ \A x \in Callers \ {c} : req'[x] = req[x]
  BY RequestBegins DEF PutPlan
<1>2. outbox' = outbox /\ up' = up /\ db' = [db EXCEPT ![m].plan = db[m].plan \cup {p}]
  BY DEF PutPlan
<1>3. /\ \A key : Sent(key) => Sent(key)'
      /\ \A n \in Machines : \A key : OnItsWay(n, key) => OnItsWay(n, key)'
  BY <1>1, <1>2, OthersWait
<1>4. Sent(PlanKey(p))'
  BY <1>1 DEF Sent, PlanKey
<1>5. ASSUME NEW n \in Machines
      PROVE  /\ db'[n].scope = db[n].scope /\ db'[n].learning = db[n].learning
             /\ \A q \in db'[n].plan : q \in db[n].plan \/ q = p
  <2>1. db[n] \in Tables
    BY DEF Filed, TablesHold
  <2>2. db'[n] = IF n = m THEN [db[n] EXCEPT !.plan = db[n].plan \cup {p}] ELSE db[n]
    BY <1>2 DEF Filed, TablesHold
  <2> QED
    BY <2>1, <2>2 DEF Tables
<1>6. KeyedUp'
  BY <1>2 DEF OnTheirWay, KeyedUp
<1>7. ASSUME NEW n \in Machines
      PROVE  Comes(n)'
  <2>1. Comes(n)
    BY DEF OnTheirWay
  <2>2. \A q \in Paths : HasScope(db[n], q)' => OnItsWay(n, ScopeKey(q))'
    BY <1>3, <1>5, <2>1 DEF Comes, ScopeKey, HasScope
  <2>3. \A q \in db'[n].plan : Sent(PlanKey(q))'
    BY <1>3, <1>4, <1>5, <2>1 DEF Comes, PlanKey
  <2>4. \A l \in db'[n].learning : OnItsWay(n, LearningKey(l))'
    BY <1>3, <1>5, <2>1 DEF Comes, LearningKey
  <2> QED
    BY <2>2, <2>3, <2>4 DEF Comes
<1> QED
  BY <1>6, <1>7 DEF OnTheirWay

(* A step that leaves the tables alone, of a request with no row to send. *)
LEMMA OnwardComes ==
  ASSUME OnTheirWay, NEW c \in Callers, req[c].at \notin {"read", "enqueue"},
         \A x \in Callers \ {c} : req'[x] = req[x], UNCHANGED tables
  PROVE  OnTheirWay'
<1>1. db' = db /\ outbox' = outbox /\ up' = up
  BY DEF tables
<1>2. /\ \A key : Sent(key) => Sent(key)'
      /\ \A n \in Machines : \A key : OnItsWay(n, key) => OnItsWay(n, key)'
  BY <1>1, OthersWait
<1> QED
  BY <1>1, <1>2, SameComes

LEMMA OneMoves ==
  ASSUME Filed, NEW c \in Callers, NEW rec, Goto(c, rec)
  PROVE  req'[c] = rec /\ \A x \in Callers \ {c} : req'[x] = req[x]
BY DEF Goto, Filed, CallsHold

LEMMA ReadBackComes ==
  ASSUME Filed, OnTheirWay, NEW c \in Callers, ReadBack(c)
  PROVE  OnTheirWay'
<1> DEFINE m == req[c].m
           key == req[c].row.key
           d == db[m]
           kind == IF key[1] = "scope" THEN d.scope[key[2]]
                   ELSE IF key[2] \in d.learning THEN "item" ELSE "none"
           rec == IF kind = "none" THEN Idle ELSE [req[c] EXCEPT !.at = "enqueue", !.row.kind = kind]
<1>1. req[c].at = "read" /\ Goto(c, rec) /\ db' = db /\ outbox' = outbox /\ up' = up
  BY DEF ReadBack, tables
<1>2. req'[c] = rec /\ \A x \in Callers \ {c} : req'[x] = req[x]
  <2> HIDE DEF rec
  <2> QED
    BY <1>1, OneMoves
<1>3. kind # "none" => req'[c].at = "enqueue" /\ req'[c].row.key = key
  <2>1. req[c] \in Requests /\ req[c].row \in MemoryRows
    BY <1>1 DEF Filed, CallsHold, Placed
  <2>2. kind # "none" => rec = [req[c] EXCEPT !.at = "enqueue", !.row.kind = kind]
    OBVIOUS
  <2> HIDE DEF rec, kind
  <2>3. req[c] = [req[c] EXCEPT !.at = req[c].at] /\ req[c].row = [key |-> key, kind |-> req[c].row.kind]
    BY <2>1 DEF Requests, MemoryRows
  <2>4. kind # "none" => rec.at = "enqueue" /\ rec.row = [req[c].row EXCEPT !.kind = kind]
    BY <2>1, <2>2 DEF Requests
  <2>5. [req[c].row EXCEPT !.kind = kind].key = key
    BY <2>3
  <2> QED
    BY <1>2, <2>4, <2>5
<1> HIDE DEF rec
<1>4. ASSUME NEW k, Sent(k)
      PROVE  Sent(k)'
  <2>1. \A x \in Callers : req[x].at = "enqueue" => req'[x] = req[x]
    BY <1>1, <1>2
  <2> QED
    BY <1>1, <1>4, <2>1, SentStays
<1>5. ASSUME NEW n \in Machines, NEW k, OnItsWay(n, k)
      PROVE  OnItsWay(n, k)' \/ (n = m /\ k = key /\ kind = "none")
  <2>1. CASE Sent(k)
    BY <1>4, <2>1 DEF OnItsWay
  <2>2. CASE \E x \in Callers \ {c} : req[x].at = "read" /\ req[x].m = n /\ req[x].row.key = k
    <3>1. Reading(n, k)'
      BY <1>2, <2>2 DEF Reading
    <3> QED
      BY <3>1 DEF OnItsWay
  <2>3. CASE n = m /\ k = key /\ kind # "none"
    <3>1. Sent(k)'
      BY <1>3, <2>3 DEF Sent
    <3> QED
      BY <3>1 DEF OnItsWay
  <2> HIDE DEF kind
  <2> QED
    BY <1>5, <2>1, <2>2, <2>3 DEF OnItsWay, Reading
<1>6. ASSUME NEW p \in Paths, HasScope(d, p), key = ScopeKey(p)
      PROVE  kind # "none"
  BY <1>6 DEF HasScope, ScopeKey
<1>7. ASSUME NEW l \in d.learning, key = LearningKey(l)
      PROVE  kind # "none"
  BY <1>7 DEF LearningKey
<1> HIDE DEF kind
<1>8. KeyedUp'
  BY <1>1 DEF OnTheirWay, KeyedUp
<1>9. ASSUME NEW n \in Machines
      PROVE  Comes(n)'
  <2>1. Comes(n)
    BY DEF OnTheirWay
  <2>2. \A p \in Paths : HasScope(db[n], p) => OnItsWay(n, ScopeKey(p))'
    BY <1>5, <1>6, <2>1 DEF Comes, ScopeKey
  <2>3. \A p \in db[n].plan : Sent(PlanKey(p))'
    BY <1>4, <2>1 DEF Comes, PlanKey
  <2>4. \A l \in db[n].learning : OnItsWay(n, LearningKey(l))'
    BY <1>5, <1>7, <2>1 DEF Comes, LearningKey
  <2> QED
    BY <1>1, <2>2, <2>3, <2>4 DEF Comes, HasScope
<1> QED
  BY <1>8, <1>9 DEF OnTheirWay

LEMMA EnqueueComes ==
  ASSUME Filed, OnTheirWay, NEW c \in Callers, Enqueue(c)
  PROVE  OnTheirWay'
<1> DEFINE m == req[c].m
           row == req[c].row
<1>1. req[c].at = "enqueue" /\ db' = db /\ up' = up /\ m \in Machines
  BY DEF Enqueue, Filed, CallsHold, Placed
<1>2. /\ Has(outbox'[m], row.key)
      /\ \A n \in Machines : outbox[n] \subseteq outbox'[n]
  <2>1. outbox' = [outbox EXCEPT ![m] = EnqueueOutbox(outbox[m], row)]
    BY DEF Enqueue
  <2>2. Has(EnqueueOutbox(outbox[m], row), row.key) /\ outbox[m] \subseteq EnqueueOutbox(outbox[m], row)
    BY DEF EnqueueOutbox, Has
  <2>3. \A n \in Machines : outbox'[n] = IF n = m THEN EnqueueOutbox(outbox[m], row) ELSE outbox[n]
    BY <2>1 DEF Filed, RowsHold
  <2> QED
    BY <1>1, <2>2, <2>3
<1>3. \A x \in Callers \ {c} : req'[x] = req[x]
  BY OneMoves DEF Enqueue
<1>4. ASSUME NEW key, Sent(key)
      PROVE  Sent(key)'
  <2>1. CASE Has(up, key)
    BY <1>1, <2>1 DEF Sent, Has
  <2>2. CASE \E n \in Machines : Has(outbox[n], key)
    <3>1. \E n \in Machines : Has(outbox'[n], key)
      BY <1>2, <2>2 DEF Has
    <3> QED
      BY <3>1 DEF Sent, Has
  <2>3. CASE key = row.key
    <3>1. \E n \in Machines : Has(outbox'[n], key)
      BY <1>1, <1>2, <2>3
    <3> QED
      BY <3>1 DEF Sent, Has
  <2>4. CASE \E x \in Callers \ {c} : req[x].at = "enqueue" /\ req[x].row.key = key
    BY <1>3, <2>4 DEF Sent
  <2> QED
    BY <1>4, <2>1, <2>2, <2>3, <2>4 DEF Sent
<1>5. ASSUME NEW n \in Machines, NEW key, OnItsWay(n, key)
      PROVE  OnItsWay(n, key)'
  <2>1. \A x \in Callers : req[x].at = "read" => req'[x] = req[x]
    BY <1>1, <1>3
  <2>2. Reading(n, key) => Reading(n, key)'
    BY <2>1 DEF Reading
  <2> QED
    BY <1>4, <1>5, <2>2 DEF OnItsWay
<1> QED
  BY <1>1, <1>4, <1>5, SameComes

LEMMA DeleteComes ==
  ASSUME Filed, OnTheirWay, NEW c \in Callers, Delete(c)
  PROVE  OnTheirWay'
<1> DEFINE m == req[c].m
           p == req[c].path
<1>1. /\ req[c].at = "delete" /\ outbox' = outbox /\ up' = up
      /\ \A x \in Callers \ {c} : req'[x] = req[x]
  BY OneMoves DEF Delete
<1>2. /\ \A key : Sent(key) => Sent(key)'
      /\ \A n \in Machines : \A key : OnItsWay(n, key) => OnItsWay(n, key)'
  BY <1>1, OthersWait
<1>3. ASSUME NEW n \in Machines
      PROVE  /\ \A q \in Paths : HasScope(db'[n], q) => HasScope(db[n], q)
             /\ db'[n].plan \subseteq db[n].plan
             /\ db'[n].learning \subseteq db[n].learning
  <2>1. db[n] \in Tables
    BY DEF Filed, TablesHold
  <2>2. db' = [db EXCEPT ![m] = DeleteRow(db[m], p)]
    BY DEF Delete
  <2>3. db'[n] = IF n = m THEN DeleteRow(db[n], p) ELSE db[n]
    BY <2>2 DEF Filed, TablesHold
  <2>4. /\ \A q \in Paths : HasScope(DeleteRow(db[n], p), q) => HasScope(db[n], q)
        /\ DeleteRow(db[n], p).plan \subseteq db[n].plan
        /\ DeleteRow(db[n], p).learning \subseteq db[n].learning
    <3> DEFINE e == [db[n] EXCEPT !.scope[p] = "none", !.plan = @ \ {p},
                                  !.learning = @ \ LearningsOf(db[n], p)]
    <3>1. e.scope = [db[n].scope EXCEPT ![p] = "none"] /\ e.plan = db[n].plan \ {p}
          /\ e.learning = db[n].learning \ LearningsOf(db[n], p)
      BY <2>1 DEF Tables
    <3>2. \A q \in Paths : e.scope[q] # "none" => db[n].scope[q] # "none"
      BY <2>1, <3>1 DEF Tables
    <3> HIDE DEF e
    <3>3. DeleteRow(db[n], p) = IF DeleteFails(db[n], p) THEN db[n] ELSE e
      BY DEF DeleteRow, e
    <3> QED
      BY <3>1, <3>2, <3>3 DEF HasScope
  <2> QED
    BY <2>3, <2>4
<1> QED
  BY <1>1, <1>2, <1>3, SameComes

(* A pushed row takes the place of the row of its key. *)
LEMMA PushComes ==
  ASSUME Filed, OnTheirWay, NEW m \in Machines, Push(m)
  PROVE  OnTheirWay'
<1>1. PICK row \in outbox[m] :
        /\ outbox' = [outbox EXCEPT ![m] = outbox[m] \ {row}]
        /\ up' = {r \in up : r.key # row.key} \cup {row}
  BY DEF Push
<1>2. db' = db /\ req' = req
  BY DEF Push
<1>3. \A key : Has(up, key) \/ key = row.key => Has(up', key)
  BY <1>1 DEF Has
<1>4. ASSUME NEW key, Sent(key)
      PROVE  Sent(key)'
  <2>1. CASE Has(up', key)
    BY <2>1 DEF Sent, Has
  <2>2. CASE \E n \in Machines : Has(outbox[n], key) /\ key # row.key
    <3>1. PICK n \in Machines : Has(outbox[n], key) /\ key # row.key
      BY <2>2
    <3>2. PICK r \in outbox[n] : r.key = key
      BY <3>1 DEF Has
    <3>3. r # row
      BY <3>1, <3>2
    <3>4. outbox'[n] = IF n = m THEN outbox[n] \ {row} ELSE outbox[n]
      BY <1>1 DEF Filed, RowsHold
    <3>5. r \in outbox'[n]
      BY <3>2, <3>3, <3>4
    <3> QED
      BY <3>2, <3>5 DEF Sent, Has
  <2>3. CASE \E c \in Callers : req[c].at = "enqueue" /\ req[c].row.key = key
    BY <1>2, <2>3 DEF Sent
  <2> QED
    BY <1>3, <1>4, <2>1, <2>2, <2>3 DEF Sent
<1>5. ASSUME NEW n \in Machines, NEW key, OnItsWay(n, key)
      PROVE  OnItsWay(n, key)'
  BY <1>2, <1>4, <1>5 DEF OnItsWay, Reading
<1>6. KeyedUp'
  <2>1. IsFiniteSet(up) /\ {r \in up : r.key # row.key} \subseteq up
    BY DEF OnTheirWay, KeyedUp
  <2>2. IsFiniteSet({r \in up : r.key # row.key})
    BY <2>1, FS_Subset
  <2>3. IsFiniteSet(up')
    BY <1>1, <2>2, FS_AddElement
  <2>4. \A a, b \in up' : a.key = b.key => a = b
    BY <1>1 DEF OnTheirWay, KeyedUp
  <2> QED
    BY <2>3, <2>4 DEF KeyedUp
<1>7. ASSUME NEW n \in Machines
      PROVE  Comes(n)'
  <2>1. Comes(n)
    BY DEF OnTheirWay
  <2>2. \A p \in Paths : HasScope(db[n], p) => OnItsWay(n, ScopeKey(p))'
    BY <1>5, <2>1 DEF Comes, ScopeKey
  <2>3. \A p \in db[n].plan : Sent(PlanKey(p))'
    BY <1>4, <2>1 DEF Comes, PlanKey
  <2>4. \A l \in db[n].learning : OnItsWay(n, LearningKey(l))'
    BY <1>5, <2>1 DEF Comes, LearningKey
  <2> QED
    BY <1>2, <2>2, <2>3, <2>4 DEF Comes, HasScope
<1> QED
  BY <1>6, <1>7 DEF OnTheirWay

LEMMA IngestOnly ==
  ASSUME NEW d \in Tables, NEW row \in MemoryRows
  PROVE  /\ \A p \in Paths : HasScope(IngestRow(d, row), p) => HasScope(d, p) \/ row.key = ScopeKey(p)
         /\ \A p \in IngestRow(d, row).plan : p \in d.plan \/ row.key = PlanKey(p)
         /\ \A l \in IngestRow(d, row).learning : l \in d.learning \/ row.key = LearningKey(l)
<1> DEFINE e == IngestRow(d, row)
<1>1. ASSUME NEW p \in Paths, row.key = ScopeKey(p)
      PROVE  /\ e.plan = d.plan /\ e.learning = d.learning
             /\ \A q \in Paths : q # p => e.scope[q] = d.scope[q]
  <2>1. row.key[1] = "scope" /\ row.key[2] = p
    BY <1>1 DEF ScopeKey
  <2>2. e = [d EXCEPT !.scope = [d.scope EXCEPT ![p] = row.kind]]
    BY <2>1 DEF IngestRow, UpdateScope, Tables
  <2> HIDE DEF e
  <2>3. e.scope = [d.scope EXCEPT ![p] = row.kind] /\ e.plan = d.plan /\ e.learning = d.learning
    BY <2>2 DEF Tables
  <2> QED
    BY <2>3 DEF Tables
<1>2. ASSUME NEW p \in Paths, row.key = PlanKey(p)
      PROVE  e.scope = d.scope /\ e.learning = d.learning /\ e.plan \subseteq d.plan \cup {p}
  <2>1. row.key[1] = "plan" /\ row.key[2] = p
    BY <1>2 DEF PlanKey
  <2>2. e = IF HasScope(d, p) THEN [d EXCEPT !.plan = @ \cup {p}] ELSE d
    BY <2>1 DEF IngestRow
  <2> HIDE DEF e
  <2> QED
    BY <2>2 DEF Tables
<1>3. ASSUME NEW l \in LearningIds, row.key = LearningKey(l)
      PROVE  e.scope = d.scope /\ e.plan = d.plan /\ e.learning \subseteq d.learning \cup {l}
  <2>1. row.key[1] = "learning" /\ row.key[2] = l
    BY <1>3 DEF LearningKey
  <2>2. e = IF CanAppend(d, made[l].path, made[l].fixes)
            THEN [d EXCEPT !.learning = @ \cup {l}] ELSE d
    BY <2>1 DEF IngestRow
  <2> HIDE DEF e
  <2> QED
    BY <2>2 DEF Tables
<1> HIDE DEF e
<1>4. CASE \E p \in Paths : row.key = ScopeKey(p)
  BY <1>1, <1>4 DEF e, HasScope
<1>5. CASE \E p \in Paths : row.key = PlanKey(p)
  BY <1>2, <1>5 DEF e, HasScope
<1>6. CASE \E l \in LearningIds : row.key = LearningKey(l)
  BY <1>3, <1>6 DEF e, HasScope
<1> QED
  BY <1>4, <1>5, <1>6, KeyIs

LEMMA ReceiveComes ==
  ASSUME Filed, OnTheirWay, NEW m \in Machines, Receive(m)
  PROVE  OnTheirWay'
<1>1. PICK row \in up : db' = [db EXCEPT ![m] = IngestRow(db[m], row)]
  BY DEF Receive
<1>2. up' = up /\ outbox' = outbox /\ req' = req
  BY DEF Receive
<1>3. Sent(row.key)
  BY DEF Sent, Has
<1>4. \A key : Sent(key) => Sent(key)'
  BY <1>2 DEF Sent, Has
<1>5. \A n \in Machines : \A key : OnItsWay(n, key) => OnItsWay(n, key)'
  BY <1>2, <1>4 DEF OnItsWay, Reading
<1>6. KeyedUp'
  BY <1>2 DEF OnTheirWay, KeyedUp
<1>7. ASSUME NEW n \in Machines
      PROVE  Comes(n)'
  <2>1. Comes(n) /\ db[n] \in Tables /\ row \in MemoryRows
    BY DEF OnTheirWay, Filed, TablesHold, RowsHold
  <2>2. db'[n] = IF n = m THEN IngestRow(db[n], row) ELSE db[n]
    BY <1>1 DEF Filed, TablesHold
  <2>3. /\ \A p \in Paths : HasScope(db'[n], p) => HasScope(db[n], p) \/ row.key = ScopeKey(p)
        /\ \A p \in db'[n].plan : p \in db[n].plan \/ row.key = PlanKey(p)
        /\ \A l \in db'[n].learning : l \in db[n].learning \/ row.key = LearningKey(l)
    BY <2>1, <2>2, IngestOnly
  <2>4. \A key : Sent(key)' => OnItsWay(n, key)'
    BY DEF OnItsWay
  <2>5. \A p \in Paths : HasScope(db'[n], p) => OnItsWay(n, ScopeKey(p))'
    BY <1>3, <1>4, <1>5, <2>1, <2>3, <2>4 DEF Comes, ScopeKey
  <2>6. \A p \in db'[n].plan : Sent(PlanKey(p))'
    BY <1>3, <1>4, <2>1, <2>3 DEF Comes, PlanKey
  <2>7. \A l \in db'[n].learning : OnItsWay(n, LearningKey(l))'
    BY <1>3, <1>4, <1>5, <2>1, <2>3, <2>4 DEF Comes, LearningKey
  <2> QED
    BY <2>5, <2>6, <2>7 DEF Comes, HasScope
<1> QED
  BY <1>6, <1>7 DEF OnTheirWay

LEMMA OnTheirWayNext ==
  ASSUME Filed, OnTheirWay, [ScopesNext]_scopeVars
  PROVE  OnTheirWay'
<1>1. ASSUME NEW c \in Callers, CallerStep(c)
      PROVE  OnTheirWay'
  <2>1. CASE \E m \in Machines, p \in Paths, kind \in {"open", "boundary"} : SetScope(c, m, p, kind)
    BY <2>1, SetScopeComes
  <2>2. CASE \E m \in Machines, p \in Paths, l \in LearningIds, fixes \in LearningIds \cup {0} :
               AppendLearning(c, m, p, l, fixes)
    BY <2>2, AppendLearningComes
  <2>3. CASE \E m \in Machines, p \in Paths : PutPlan(c, m, p)
    BY <2>3, PutPlanComes
  <2>4. CASE \E m \in Machines, p \in Paths : CountChildren(c, m, p) \/ BuildContext(c, m, p)
    <3>1. PICK m \in Machines, p \in Paths, at \in {"delete", "walk"} :
            Begin(c, m, at, p, NoRow) /\ UNCHANGED tables
      BY <2>4 DEF CountChildren, BuildContext
    <3>2. req[c].at = "idle" /\ \A x \in Callers \ {c} : req'[x] = req[x]
      BY <3>1, RequestBegins
    <3> QED
      BY <3>1, <3>2, OnwardComes
  <2>5. CASE ReadBack(c)
    BY <2>5, ReadBackComes
  <2>6. CASE Enqueue(c)
    BY <2>6, EnqueueComes
  <2>7. CASE Delete(c)
    BY <2>7, DeleteComes
  <2>8. CASE ResolveChain(c) \/ GetPlan(c) \/ ListLearnings(c) \/ Return(c)
    <3>1. /\ req[c].at \in {"walk", "plans", "learnings", "done"}
          /\ UNCHANGED tables /\ \E rec : Goto(c, rec)
      BY <2>8 DEF ResolveChain, GetPlan, ListLearnings, Collect, Return
    <3>2. \A x \in Callers \ {c} : req'[x] = req[x]
      BY <3>1, OneMoves
    <3> QED
      BY <3>1, <3>2, OnwardComes
  <2> QED
    BY <1>1, <2>1, <2>2, <2>3, <2>4, <2>5, <2>6, <2>7, <2>8 DEF CallerStep
<1>2. CASE UNCHANGED scopeVars
  <2>1. db' = db /\ outbox' = outbox /\ up' = up /\ req' = req
    BY <1>2 DEF scopeVars, tables
  <2>2. \A key : Sent(key) => Sent(key)'
    BY <2>1 DEF Sent, Has
  <2>3. \A n \in Machines : \A key : OnItsWay(n, key) => OnItsWay(n, key)'
    BY <2>1, <2>2 DEF OnItsWay, Reading
  <2> QED
    BY <2>1, <2>2, <2>3, SameComes
<1> QED
  BY <1>1, <1>2, PushComes, ReceiveComes DEF ScopesNext

(* Once everything is pushed, all that a machine has is upstream, complete.  *)
LEMMA PushedIsComplete ==
  ASSUME ScopesAssumption, Filed, OnTheirWay, AllPushed, InKeyOrder, NEW m \in Machines
  PROVE  /\ Complete(up, db[m].plan, db[m].learning)
         /\ \A p \in db[m].plan : Has(up, PlanKey(p))
         /\ \A l \in db[m].learning : Has(up, LearningKey(l))
<1>1. ASSUME NEW key, OnItsWay(m, key)
      PROVE  Has(up, key)
  BY <1>1 DEF OnItsWay, Sent, Reading, Has, AllPushed
<1>2. \A key : Sent(key) => Has(up, key)
  BY <1>1 DEF OnItsWay
<1>3. Comes(m) /\ Whole(db[m], made)
  BY DEF OnTheirWay, Filed, TablesHold
<1>4. /\ \A p \in Paths : HasScope(db[m], p) => Has(up, ScopeKey(p))
      /\ \A p \in db[m].plan : Has(up, PlanKey(p))
      /\ \A l \in db[m].learning : Has(up, LearningKey(l))
  BY <1>1, <1>2, <1>3 DEF Comes, ScopeKey, PlanKey, LearningKey
<1>5. db[m].plan \subseteq Paths /\ db[m].learning \subseteq LearningIds
  BY <1>3 DEF Whole, Tables
<1>6. \A p \in db[m].plan : Has(up, ScopeKey(p))
  BY <1>3, <1>4, <1>5 DEF Whole
<1>7. ASSUME NEW l \in db[m].learning
      PROVE  /\ Has(up, ScopeKey(made[l].path))
             /\ made[l].fixes \in (db[m].learning \ {l}) \cup {0}
             /\ made[l].fixes # 0 => Has(up, LearningKey(made[l].fixes))
  <2>1. /\ made[l].path \in Paths /\ HasScope(db[m], made[l].path)
        /\ made[l].fixes \in db[m].learning \cup {0}
    BY <1>3 DEF Whole
  <2>2. made[l].fixes # l
    <3> SUFFICES ASSUME made[l].fixes = l
                 PROVE  FALSE
      OBVIOUS
    <3>1. l \in LearningIds /\ l # 0 /\ l \in Nat
      BY <1>5 DEF ScopesAssumption
    <3> DEFINE row == [key |-> LearningKey(l)]
    <3>2. Sorts(row, row)
      BY <3>1 DEF InKeyOrder
    <3>3. KeyPath(LearningKey(l)) \in Seq(Nat) /\ Rank(LearningKey(l)) \in Seq(Nat)
      <4>1. made[l].path \in Seq(Nat) /\ <<1, l>> \in Seq(Nat)
        BY <2>1, <3>1 DEF ScopesAssumption
      <4> QED
        BY <4>1, LearningSorts
    <3>4. ~PathBefore(KeyPath(LearningKey(l)), KeyPath(LearningKey(l)))
      BY <3>3, PathsAreOrdered
    <3>5. ~PathBefore(Rank(LearningKey(l)), Rank(LearningKey(l)))
      BY <3>3, PathsAreOrdered
    <3> QED
      BY <3>2, <3>4, <3>5 DEF Sorts
  <2> QED
    BY <1>4, <2>1, <2>2
<1>8. Complete(up, db[m].plan, db[m].learning)
  BY <1>6, <1>7 DEF Complete
<1> QED
  BY <1>4, <1>8

LEMMA FreshHasAll ==
  ASSUME ScopesAssumption, Filed, OnTheirWay
  PROVE  FreshIsWhole
<1> SUFFICES ASSUME AllPushed, InKeyOrder, NEW m \in Machines
             PROVE  db[m].plan \subseteq Fresh.plan /\ db[m].learning \subseteq Fresh.learning
  BY DEF FreshIsWhole
<1>1. RowsKeyed(up)
  BY DEF RowsKeyed, Filed, RowsHold, OnTheirWay, KeyedUp
<1> DEFINE P == db[m].plan
           L == db[m].learning
<1>2. P \in SUBSET Paths /\ L \in SUBSET LearningIds /\ \A l \in L : made[l].path \in Paths
  BY DEF Filed, TablesHold, Whole, Tables
<1>3. /\ Complete(up, P, L)
      /\ \A p \in P : Has(up, PlanKey(p))
      /\ \A l \in L : Has(up, LearningKey(l))
  BY PushedIsComplete
<1> HIDE DEF P, L
<1>4. Holds(Fresh, up, P, L)
  BY <1>1, <1>2, <1>3, FreshHolds
<1>5. P \subseteq Fresh.plan /\ L \subseteq Fresh.learning
  BY <1>3, <1>4 DEF Holds
<1> QED
  BY <1>5 DEF P, L

(* Whatever was made, corrected, deleted and received, on any machines, in   *)
(* any order: once all is pushed, a fresh machine that ingests the rows in   *)
(* the order of their keys has every plan and learning that some machine has *)
(* (agent/sync.go, EnqueuePlan), if corrections sort after what they correct. *)
THEOREM FreshMachineIsWhole == ScopesSpec => []FreshIsWhole
<1> DEFINE Inv == ContextInv /\ OnTheirWay
<1>1. ScopesInit => Inv
  BY ScopesAssumption, ContextInvInit, OnTheirWayInit
<1>2. Inv /\ [ScopesNext]_scopeVars => Inv'
  BY ScopesAssumption, ContextInvNext, OnTheirWayNext DEF ContextInv
<1>3. Inv => FreshIsWhole
  BY ScopesAssumption, FreshHasAll DEF ContextInv
<1> HIDE DEF Inv
<1> QED
  BY <1>1, <1>2, <1>3, PTL DEF ScopesSpec
===============================================================================

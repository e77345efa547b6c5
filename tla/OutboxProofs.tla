---------------------------- MODULE OutboxProofs ----------------------------
(***************************************************************************)
(* Theorems about module Outbox, for any sets of keys, callers and         *)
(* requests and any bounds: types, no loss, an ack removes only what was   *)
(* stored, a retry is never stale, and the refinement of Delivery.         *)
(*                                                                         *)
(* The argument.  A seq is issued once, so a row that a request carries is *)
(* the row of that seq in the table, if the table still has one            *)
(* (SeqNamesRow); an "ok" answer means that every row of the request was   *)
(* stored (Stored); so the rows an ack deletes were stored, and a stored   *)
(* row left a blob under its key (LandedIsUpstream).  Ages adds that a     *)
(* queued row is the youngest known of its key.                            *)
(***************************************************************************)
EXTENDS Outbox, FiniteSetTheorems, TLAPS

Typed == TypeOK /\ IsFiniteSet(outbox)

(* Every row seen anywhere has a seq that was issued.                       *)
Issued ==
  /\ \A r \in outbox : r.seq < nextSeq
  /\ \A p \in PostIds : \A r \in posts[p].rows : r.seq < nextSeq

(* Every row seen anywhere came from Enqueue: it holds a blob, and its key  *)
(* has been handed over.                                                    *)
Real(rows) == \A r \in rows : r.blob # 0 /\ latest[r.key] > 0

RowsReal == Real(outbox) /\ \A p \in PostIds : Real(posts[p].rows)

(* What the server lists as stored was stored, and an "ok" lists it all.    *)
Stored ==
  \A p \in PostIds :
    /\ posts[p].done \subseteq landed
    /\ posts[p].state = "ok" => posts[p].rows \subseteq posts[p].done

LandedIsUpstream == \A r \in landed : upstream[r.key] # 0

SeqUnique == \A r, q \in outbox : r.seq = q.seq => r = q

Safe ==
  /\ Issued
  /\ RowsReal
  /\ Stored
  /\ LandedIsUpstream
  /\ SeqUnique
  /\ SeqNamesRow
  /\ NoLoss

IInv == Typed /\ Safe

-------------------------------------------------------------------------------
(* The initial state satisfies every part of the invariant. *)
LEMMA InitSafe == Init => IInv
<1> SUFFICES ASSUME Init PROVE IInv
  OBVIOUS
<1>1. Typed
  BY NoPostAssumption, FS_EmptySet DEF Init, Typed, TypeOK, Row, NoRequest
<1>2. Safe
  BY DEF Init, Safe, Issued, RowsReal, Real, Stored, LandedIsUpstream, SeqUnique,
         SeqNamesRow, NoLoss, NoRequest
<1> QED  BY <1>1, <1>2 DEF IInv

(* The table stays finite and everything keeps its type. *)
LEMMA TypeStep == Typed /\ [Next]_vars => Typed'
<1> SUFFICES ASSUME Typed, [Next]_vars PROVE Typed'
  OBVIOUS
<1> USE DEF Typed, TypeOK
<1>1. ASSUME NEW k \in Keys, NEW b \in 1..MaxBlob, EnqueueOutbox(k, b)
      PROVE  Typed'
  <2> DEFINE new == [seq |-> nextSeq, key |-> k, blob |-> b]
  <2>1. b \in Nat /\ new \in Row
    BY OutboxAssumption DEF Row
  <2>2. IsFiniteSet(outbox \cup {new})
    BY FS_AddElement, Zenon
  <2>3. \/ /\ outbox' = outbox \cup {new}
           /\ due' = due \cup {nextSeq}
           /\ nextSeq' = nextSeq + 1
        \/ UNCHANGED <<outbox, due, nextSeq>>
    BY <1>1 DEF EnqueueOutbox
  <2>4. IsFiniteSet(outbox')
    BY <2>2, <2>3, Zenon
  <2>5. latest' \in [Keys -> Nat]
    BY <1>1, <2>1 DEF EnqueueOutbox
  <2>6. outbox' \subseteq Row
    <3> HIDE DEF new
    <3> QED  BY <2>1, <2>3
  <2>7. nextSeq \in Nat /\ nextSeq # 0 /\ due \subseteq Nat
    OBVIOUS
  <2>8. nextSeq' \in Nat \ {0}
    <3>1. nextSeq' = nextSeq + 1 \/ nextSeq' = nextSeq
      BY <2>3, Zenon
    <3> QED  BY <2>7, <3>1
  <2>9. due' \subseteq Nat
    <3>1. due' = due \cup {nextSeq} \/ due' = due
      BY <2>3, Zenon
    <3> QED  BY <2>7, <3>1
  <2> QED  BY <1>1, <2>4, <2>5, <2>6, <2>8, <2>9 DEF EnqueueOutbox, remote, calls
<1>2. ASSUME NEW s \in 1..MaxRows, Elapse(s)
      PROVE  Typed'
  BY <1>2, OutboxAssumption DEF Elapse, remote, calls
<1>3. CASE SetSealer \/ ClearSealer
  BY <1>3 DEF SetSealer, ClearSealer, table, remote, calls
<1>4. ASSUME NEW w \in Drainers, NEW p \in PostIds, Post(w, p)
      PROVE  /\ posts' \in [PostIds -> [state : {"free", "open", "ok", "error"},
                                       rows : SUBSET Row, done : SUBSET Row]]
             /\ req' \in [Drainers -> PostIds \cup {NoPost}]
             /\ pc' \in [Drainers -> {"idle", "depth", "drain", "wait", "count"}]
  <2>1. DequeueOutbox \in SUBSET Row
    BY DEF DequeueOutbox, Ready
  <2> QED  BY <1>4, <2>1 DEF Post
<1>5. ASSUME NEW p \in PostIds, DrainLoop(p)
      PROVE  Typed'
  BY <1>4, <1>5 DEF DrainLoop, Drainers, table, remote, calls
<1>6. ASSUME NEW c \in Callers, PushNow(c)
      PROVE  Typed'
  BY <1>6 DEF PushNow, Drainers, table, remote
<1>7. ASSUME NEW c \in Callers, DepthBefore(c)
      PROVE  Typed'
  <2>1. Cardinality(outbox) \in Nat
    BY FS_CardinalityType
  <2> QED  BY <1>7, <2>1 DEF DepthBefore, Drainers, table, remote
<1>8. ASSUME NEW c \in Callers, NEW p \in PostIds, DrainNow(c, p)
      PROVE  Typed'
  BY <1>4, <1>8 DEF DrainNow, Drainers, table, remote, calls
<1>9. ASSUME NEW c \in Callers, NothingDue(c)
      PROVE  Typed'
  BY <1>9 DEF NothingDue, Drainers, table, remote, calls
<1>10. ASSUME NEW c \in Callers, DepthAfter(c)
       PROVE  Typed'
  <2>1. Cardinality(outbox) \in Nat
    BY FS_CardinalityType
  <2>2. total' \in [Callers -> Nat]
    BY <1>10, <2>1 DEF DepthAfter
  <2>3. pc' \in [Drainers -> {"idle", "depth", "drain", "wait", "count"}]
    BY <1>10 DEF DepthAfter, Drainers
  <2> QED  BY <1>10, <2>2, <2>3 DEF DepthAfter, table, remote
<1>11. ASSUME NEW p \in PostIds, PutRow(p)
       PROVE  Typed'
  <2>1. PICK r \in Todo(p) :
          /\ upstream' = [upstream EXCEPT ![r.key] = r.blob]
          /\ landed' = landed \cup {r}
          /\ posts' = [posts EXCEPT ![p].done = @ \cup {r}]
    BY <1>11 DEF PutRow
  <2>2. r \in Row /\ r.blob \in Nat
    BY <2>1 DEF Todo, Row
  <2>3. upstream' \in [Keys -> Nat] /\ landed' \subseteq Row
    BY <2>1, <2>2
  <2>4. posts' \in [PostIds -> [state : {"free", "open", "ok", "error"},
                                rows : SUBSET Row, done : SUBSET Row]]
    BY <2>1, <2>2
  <2> QED  BY <1>11, <2>3, <2>4 DEF PutRow, table, calls
<1>12. ASSUME NEW p \in PostIds, NEW a \in {"ok", "error"}, Answer(p, a)
       PROVE  posts' \in [PostIds -> [state : {"free", "open", "ok", "error"},
                                      rows : SUBSET Row, done : SUBSET Row]]
  BY <1>12 DEF Answer, NoRequest
<1>13. ASSUME NEW p \in PostIds, Refuse(p) \/ Reply(p) \/ Break(p)
       PROVE  Typed'
  <2>1. Answer(p, "ok") \/ Answer(p, "error")
    BY <1>13 DEF Refuse, Reply, Break
  <2>2. posts' \in [PostIds -> [state : {"free", "open", "ok", "error"},
                                rows : SUBSET Row, done : SUBSET Row]]
    BY <1>12, <2>1
  <2>3. faults' \in Nat /\ UNCHANGED <<table, sealer, pc, req, remote, calls>>
    BY <1>13 DEF Refuse, Reply, Break
  <2> QED  BY <2>2, <2>3 DEF table, remote, calls
<1>14. ASSUME NEW p \in PostIds, Free(p)
       PROVE  posts' \in [PostIds -> [state : {"free", "open", "ok", "error"},
                                      rows : SUBSET Row, done : SUBSET Row]]
  BY <1>14 DEF Free, NoRequest
<1>15. ASSUME NEW w \in Drainers, Done(w) \/ Failed(w)
       PROVE  /\ req' \in [Drainers -> PostIds \cup {NoPost}]
              /\ pc' \in [Drainers -> {"idle", "depth", "drain", "wait", "count"}]
  BY <1>15 DEF Done, Failed
<1>16. ASSUME NEW w \in Drainers, NEW p \in PostIds, AckOutbox(w, p)
       PROVE  Typed'
  <2>1. outbox' \subseteq Row /\ IsFiniteSet(outbox') /\ due' \subseteq Nat
    BY <1>16, FS_Subset DEF AckOutbox
  <2> QED  BY <1>14, <1>15, <1>16, <2>1 DEF AckOutbox, remote, calls
<1>17. ASSUME NEW w \in Drainers, NEW p \in PostIds, BumpAll(w, p)
       PROVE  Typed'
  BY <1>14, <1>15, <1>17 DEF BumpAll, remote, calls
<1>18. ASSUME NEW w \in Drainers, NEW p \in PostIds, GiveUp(w, p)
       PROVE  Typed'
  <2>1. posts' \in [PostIds -> [state : {"free", "open", "ok", "error"},
                                rows : SUBSET Row, done : SUBSET Row]]
    BY <1>14, <1>18 DEF GiveUp
  <2>2. due' \subseteq Nat /\ Failed(w)
    BY <1>18 DEF GiveUp
  <2> QED  BY <1>15, <1>18, <2>1, <2>2 DEF GiveUp, remote, calls
<1>19. CASE Restart
  <2>1. posts' \in [PostIds -> [state : {"free", "open", "ok", "error"},
                                rows : SUBSET Row, done : SUBSET Row]]
    BY <1>19 DEF Restart, NoRequest
  <2>2. /\ pc' \in [Drainers -> {"idle", "depth", "drain", "wait", "count"}]
        /\ req' \in [Drainers -> PostIds \cup {NoPost}]
    BY <1>19 DEF Restart
  <2> QED  BY <1>19, <2>1, <2>2 DEF Restart, table, remote
<1>20. CASE UNCHANGED vars
  BY <1>20 DEF vars, table, remote, calls
<1> QED
  BY <1>1, <1>2, <1>3, <1>5, <1>6, <1>7, <1>8, <1>9, <1>10, <1>11, <1>13, <1>16,
     <1>17, <1>18, <1>19, <1>20
  DEF Next, CallerStep, ServerStep, Answered

-------------------------------------------------------------------------------
(* A step that leaves the tables and the backend alone, and of requests at  *)
(* most forgets rows or fails them, keeps the safety part.                  *)
RequestsShrink ==
  \A p \in PostIds :
    /\ posts'[p].rows \subseteq posts[p].rows
    /\ posts'[p].done \subseteq posts[p].done
    /\ posts'[p].state = "ok" => posts'[p].rows \subseteq posts'[p].done

LEMMA ShrinkSafe ==
  ASSUME Safe, RequestsShrink, UNCHANGED <<outbox, nextSeq, latest, upstream, landed>>
  PROVE  Safe'
BY DEF Safe, RequestsShrink, Issued, RowsReal, Real, Stored, LandedIsUpstream,
       SeqUnique, SeqNamesRow, NoLoss, Queued

LEMMA PostSafe ==
  ASSUME Typed, Safe, NEW w \in Drainers, NEW p \in PostIds, Post(w, p),
         UNCHANGED <<outbox, nextSeq, latest, upstream, landed>>
  PROVE  Safe'
<1>1. DequeueOutbox \subseteq outbox
  BY DEF DequeueOutbox, Ready
<1>2. \A q \in PostIds : \/ posts'[q] = posts[q]
                         \/ /\ posts'[q].state = "open"
                            /\ posts'[q].rows = DequeueOutbox
                            /\ posts'[q].done = {}
  BY DEF Post, Typed, TypeOK
<1> QED
  BY <1>1, <1>2 DEF Safe, Issued, RowsReal, Real, Stored, LandedIsUpstream, SeqUnique,
                    SeqNamesRow, NoLoss, Queued

LEMMA EnqueueSafe ==
  ASSUME Typed, Safe, NEW k \in Keys, NEW b \in 1..MaxBlob, EnqueueOutbox(k, b)
  PROVE  Safe'
<1> DEFINE new == [seq |-> nextSeq, key |-> k, blob |-> b]
<1>1. /\ b \in Nat /\ b > 0
      /\ new \in Row /\ new.seq = nextSeq /\ new.key = k /\ new.blob = b
  BY OutboxAssumption DEF Row, Typed, TypeOK
<1>2. latest' = [latest EXCEPT ![k] = b]
  BY DEF EnqueueOutbox
<1>3. \A j \in Keys : latest[j] > 0 \/ j = k => latest'[j] > 0
  BY <1>1, <1>2 DEF Typed, TypeOK
<1>4. \A j \in Keys : latest'[j] > 0 => latest[j] > 0 \/ j = k
  BY <1>2 DEF Typed, TypeOK
<1>5. UNCHANGED <<posts, upstream, landed>>
  BY DEF EnqueueOutbox, remote
<1>6. \/ outbox' = outbox \cup {new} /\ nextSeq' = nextSeq + 1
      \/ UNCHANGED <<outbox, nextSeq>> /\ Queued(k)
  BY DEF EnqueueOutbox
<1> HIDE DEF new
<1>7. /\ outbox \subseteq Row /\ nextSeq \in Nat
      /\ \A p \in PostIds : posts[p].rows \subseteq Row
      /\ \A r \in Row : r.seq \in Nat /\ r.key \in Keys
  BY DEF Typed, TypeOK, Row
<1>8. Issued'
  BY <1>1, <1>5, <1>6, <1>7 DEF Safe, Issued
<1>9. RowsReal'
  BY <1>1, <1>3, <1>5, <1>6, <1>7 DEF Safe, RowsReal, Real
<1>10. Stored' /\ LandedIsUpstream'
  BY <1>5 DEF Safe, Stored, LandedIsUpstream
<1>11. SeqUnique'
  BY <1>1, <1>6, <1>7 DEF Safe, SeqUnique, Issued
<1>12. SeqNamesRow'
  BY <1>1, <1>5, <1>6, <1>7 DEF Safe, SeqNamesRow, Issued
<1>13. NoLoss'
  <2> SUFFICES ASSUME NEW j \in Keys, latest'[j] > 0
               PROVE  (\E r \in outbox' : r.key = j) \/ upstream'[j] # 0
    BY DEF NoLoss, Queued
  <2>1. CASE j = k
    BY <1>1, <1>6, <2>1 DEF Queued
  <2>2. CASE j # k
    BY <1>4, <1>5, <1>6, <2>2 DEF Safe, NoLoss, Queued
  <2> QED  BY <2>1, <2>2
<1> QED  BY <1>8, <1>9, <1>10, <1>11, <1>12, <1>13 DEF Safe

LEMMA PutRowSafe ==
  ASSUME Typed, Safe, NEW p \in PostIds, PutRow(p)
  PROVE  Safe'
<1>1. PICK r \in Todo(p) :
        /\ upstream' = [upstream EXCEPT ![r.key] = r.blob]
        /\ landed' = landed \cup {r}
        /\ posts' = [posts EXCEPT ![p].done = @ \cup {r}]
  BY DEF PutRow
<1>2. r \in posts[p].rows /\ r \in Row /\ r.key \in Keys /\ r.blob # 0
  BY DEF Todo, Typed, TypeOK, Row, Safe, RowsReal, Real
<1>3. UNCHANGED <<outbox, nextSeq, latest>> /\ posts[p].state = "open"
  BY DEF PutRow, table
<1>4. \A q \in PostIds :
        /\ posts'[q].rows = posts[q].rows
        /\ posts'[q].state = posts[q].state
        /\ posts'[q].done = IF q = p THEN posts[q].done \cup {r} ELSE posts[q].done
  BY <1>1 DEF Typed, TypeOK
<1>5. \A k \in Keys : upstream[k] # 0 \/ k = r.key => upstream'[k] # 0
  BY <1>1, <1>2 DEF Typed, TypeOK
<1>6. Issued' /\ RowsReal' /\ SeqUnique' /\ SeqNamesRow'
  BY <1>3, <1>4 DEF Safe, Issued, RowsReal, Real, SeqUnique, SeqNamesRow
<1>7. Stored'
  BY <1>1, <1>3, <1>4 DEF Safe, Stored
<1>8. LandedIsUpstream'
  BY <1>1, <1>2, <1>5 DEF Safe, LandedIsUpstream, Typed, TypeOK, Row
<1>9. NoLoss'
  BY <1>3, <1>5 DEF Safe, NoLoss, Queued
<1> QED  BY <1>6, <1>7, <1>8, <1>9 DEF Safe

(* The rows an ack deletes were stored. *)
LEMMA AckedLanded ==
  ASSUME Typed, Safe, NEW p \in PostIds, posts[p].state = "ok"
  PROVE  AckedRows(p) \subseteq landed
<1> SUFFICES ASSUME NEW r \in AckedRows(p) PROVE r \in landed
  OBVIOUS
<1>1. PICK q \in posts[p].rows : r \in outbox /\ q.seq = r.seq
  BY DEF AckedRows, AckSeqs
<1>2. r = q
  BY <1>1 DEF Safe, SeqNamesRow
<1> QED  BY <1>1, <1>2 DEF Safe, Stored

LEMMA AckSafe ==
  ASSUME Typed, Safe, NEW w \in Drainers, NEW p \in PostIds, AckOutbox(w, p)
  PROVE  Safe'
<1>1. /\ outbox' = outbox \ AckedRows(p)
      /\ UNCHANGED <<nextSeq, latest, upstream, landed>>
      /\ posts[p].state = "ok"
      /\ Free(p)
  BY DEF AckOutbox, remote
<1>2. AckedRows(p) \subseteq landed
  BY <1>1, AckedLanded
<1>3. \A q \in PostIds : \/ posts'[q] = posts[q]
                         \/ posts'[q].rows = {} /\ posts'[q].done = {}
  <2>1. posts' = [posts EXCEPT ![p] = NoRequest]
    BY <1>1 DEF Free
  <2>2. \A q \in PostIds : posts'[q] = posts[q] \/ posts'[q] = NoRequest
    BY <2>1 DEF Typed, TypeOK
  <2> QED  BY <2>2 DEF NoRequest
<1>4. Issued' /\ RowsReal' /\ Stored' /\ LandedIsUpstream' /\ SeqUnique' /\ SeqNamesRow'
  BY <1>1, <1>3 DEF Safe, Issued, RowsReal, Real, Stored, LandedIsUpstream, SeqUnique,
                    SeqNamesRow
<1>5. NoLoss'
  BY <1>1, <1>2 DEF Safe, NoLoss, Queued, LandedIsUpstream
<1> QED  BY <1>4, <1>5 DEF Safe

LEMMA SafeStep == IInv /\ [Next]_vars => Safe'
<1> SUFFICES ASSUME Typed, Safe, [Next]_vars PROVE Safe'
  BY DEF IInv
<1> DEFINE Still == UNCHANGED <<outbox, nextSeq, latest, upstream, landed>>
<1>1. ASSUME UNCHANGED posts
      PROVE  RequestsShrink
  BY <1>1 DEF RequestsShrink, Safe, Stored
<1>2. ASSUME NEW p \in PostIds, Free(p)
      PROVE  RequestsShrink
  BY <1>2 DEF Free, NoRequest, RequestsShrink, Safe, Stored, Typed, TypeOK
<1>3. ASSUME NEW p \in PostIds, NEW a \in {"ok", "error"}, Answer(p, a),
             a = "ok" => posts[p].rows \subseteq posts[p].done
      PROVE  RequestsShrink
  <2>1. \A q \in PostIds :
          \/ posts'[q] = posts[q]
          \/ posts'[q].rows = {} /\ posts'[q].done = {}
          \/ /\ q = p /\ posts'[q].state = a
             /\ posts'[q].rows = posts[q].rows /\ posts'[q].done = posts[q].done
    <3>1. \A q \in PostIds \ {p} : posts'[q] = posts[q]
      BY <1>3 DEF Answer, Typed, TypeOK
    <3>2. posts'[p] = NoRequest \/ posts'[p] = [posts[p] EXCEPT !.state = a]
      BY <1>3 DEF Answer, Typed, TypeOK
    <3>3. posts[p] \in [state : {"free", "open", "ok", "error"},
                       rows : SUBSET Row, done : SUBSET Row]
      BY DEF Typed, TypeOK
    <3>4. \/ posts'[p].rows = {} /\ posts'[p].done = {}
          \/ /\ posts'[p].state = a
             /\ posts'[p].rows = posts[p].rows /\ posts'[p].done = posts[p].done
      BY <3>2, <3>3 DEF NoRequest
    <3> QED  BY <3>1, <3>4, Zenon
  <2> QED  BY <1>3, <2>1 DEF RequestsShrink, Safe, Stored
<1>4. ASSUME NEW p \in PostIds, ServerStep(p) \/ Break(p)
      PROVE  Safe'
  <2>1. CASE PutRow(p)
    BY <2>1, PutRowSafe
  <2>2. CASE Refuse(p) \/ Break(p)
    <3>1. Still /\ Answer(p, "error")
      BY <2>2 DEF Refuse, Break, table, remote
    <3> QED  BY <1>3, <3>1, ShrinkSafe
  <2>3. CASE Reply(p)
    <3>1. Still /\ Answer(p, "ok") /\ posts[p].rows \subseteq posts[p].done
      BY <2>3 DEF Reply, Todo, table, remote
    <3> QED  BY <1>3, <3>1, ShrinkSafe
  <2> QED  BY <1>4, <2>1, <2>2, <2>3 DEF ServerStep
<1>5. ASSUME NEW c \in Callers, PushNow(c) \/ CallerStep(c)
      PROVE  Safe'
  <2>1. CASE \E p \in PostIds : DrainNow(c, p)
    BY <2>1, PostSafe DEF DrainNow, Drainers, table, remote
  <2>2. CASE PushNow(c) \/ DepthBefore(c) \/ NothingDue(c) \/ DepthAfter(c)
    <3>1. Still /\ UNCHANGED posts
      BY <2>2 DEF PushNow, DepthBefore, NothingDue, DepthAfter, table, remote
    <3> QED  BY <1>1, <3>1, ShrinkSafe
  <2> QED  BY <1>5, <2>1, <2>2 DEF CallerStep
<1>6. ASSUME NEW p \in PostIds, DrainLoop(p)
      PROVE  Safe'
  BY <1>6, PostSafe DEF DrainLoop, Drainers, table, remote
<1>7. ASSUME NEW w \in Drainers, NEW p \in PostIds, BumpAll(w, p) \/ GiveUp(w, p)
      PROVE  Safe'
  <2>1. Still /\ (Free(p) \/ UNCHANGED posts)
    BY <1>7 DEF BumpAll, GiveUp, remote
  <2> QED  BY <1>1, <1>2, <2>1, ShrinkSafe
<1>8. CASE Restart
  <2>1. Still
    BY <1>8 DEF Restart, table, remote
  <2>2. RequestsShrink
    BY <1>8 DEF Restart, NoRequest, RequestsShrink, Safe, Stored
  <2> QED  BY <2>1, <2>2, ShrinkSafe
<1>9. ASSUME NEW s \in 1..MaxRows, Elapse(s)
      PROVE  Safe'
  BY <1>1, <1>9, ShrinkSafe DEF Elapse, remote
<1>10. CASE SetSealer \/ ClearSealer \/ UNCHANGED vars
  <2>1. Still /\ UNCHANGED posts
    BY <1>10 DEF SetSealer, ClearSealer, vars, table, remote
  <2> QED  BY <1>1, <2>1, ShrinkSafe
<1> QED
  BY <1>4, <1>5, <1>6, <1>7, <1>8, <1>9, <1>10, EnqueueSafe, AckSafe
  DEF Next, Answered

(* The conjunction is inductive. *)
LEMMA Invariance == Spec => []IInv
<1>1. IInv /\ [Next]_vars => IInv'
  BY TypeStep, SafeStep DEF IInv
<1> QED  BY <1>1, InitSafe, PTL DEF Spec

-------------------------------------------------------------------------------
(* The tables, the drainers and the requests in flight keep their types in  *)
(* every behaviour.                                                         *)
THEOREM TypeCorrect == Spec => []TypeOK
BY Invariance, PTL DEF IInv, Typed

(* A key that was handed to the outbox has a row there or a blob upstream,  *)
(* for any number of drains, callers, refusals, timeouts and restarts.      *)
THEOREM NothingIsLost == Spec => []NoLoss
BY Invariance, PTL DEF IInv, Safe

(* Over the whole life of the table an ack or a bump by seq hits the row it *)
(* was meant for or none.                                                   *)
THEOREM SeqsName == Spec => []SeqNamesRow
BY Invariance, PTL DEF IInv, Safe

(* Only AckOutbox deletes rows, and those it deletes were stored. *)
LEMMA RemovedWereLanded == IInv /\ [Next]_vars => outbox \ outbox' \subseteq landed
<1> SUFFICES ASSUME IInv, [Next]_vars, NEW r \in outbox \ outbox' PROVE r \in landed
  OBVIOUS
<1>1. ASSUME NEW w \in Drainers, NEW p \in PostIds, AckOutbox(w, p)
      PROVE  r \in landed
  BY <1>1, AckedLanded DEF IInv, AckOutbox
<1>2. CASE UNCHANGED vars
  BY <1>2 DEF vars
<1>3. CASE Next /\ ~\E w \in Drainers, p \in PostIds : AckOutbox(w, p)
  <2>1. outbox \subseteq outbox'
    BY <1>3 DEF Next, EnqueueOutbox, Elapse, SetSealer, ClearSealer, DrainLoop, PushNow,
       CallerStep, DepthBefore, DrainNow, NothingDue, DepthAfter, ServerStep, PutRow, Refuse,
       Reply, Break, Answered, BumpAll, GiveUp, Restart, table
  <2> QED  BY <2>1
<1> QED  BY <1>1, <1>2, <1>3

(* A row leaves the table only if that very row was stored by the upstream. *)
THEOREM AcksAreSound == Spec => AckedIsStored
<1>1. IInv /\ [Next]_vars => [outbox \ outbox' \subseteq landed]_vars
  BY RemovedWereLanded
<1> QED  BY <1>1, Invariance, PTL DEF Spec, AckedIsStored

-------------------------------------------------------------------------------
(* How old blobs are, on top of IInv.  Known is every row there is.         *)
Known == outbox \cup landed \cup UNION {posts[p].rows : p \in PostIds}

Ages ==
  /\ \A r \in Known : r.blob <= latest[r.key]
  /\ \A q \in outbox, r \in Known : r.key = q.key => r.blob <= q.blob
  /\ \A k \in Keys : upstream[k] # 0 => \E r \in landed : r.key = k /\ r.blob = upstream[k]

LEMMA KnownType == Typed => Known \subseteq Row
BY DEF Typed, TypeOK, Known

LEMMA AgesInit == Init => Ages
BY DEF Init, Ages, Known, NoRequest

LEMMA AgesKept ==
  ASSUME Ages, outbox' \subseteq outbox, \A p \in PostIds : posts'[p].rows \subseteq Known,
         UNCHANGED <<latest, upstream, landed>>
  PROVE  Ages'
<1>1. Known' \subseteq Known
  BY DEF Known
<1> QED  BY <1>1 DEF Ages

LEMMA EnqueueAges ==
  ASSUME Typed, Ages, NEW k \in Keys, NEW b \in 1..MaxBlob, EnqueueOutbox(k, b)
  PROVE  Ages'
<1> DEFINE new == [seq |-> nextSeq, key |-> k, blob |-> b]
<1>1. b \in Nat /\ new.key = k /\ new.blob = b
  BY OutboxAssumption
<1>2. b >= latest[k] /\ latest' = [latest EXCEPT ![k] = b] /\ latest \in [Keys -> Nat]
  BY <1>1 DEF EnqueueOutbox, Typed, TypeOK
<1>3. latest'[k] = b /\ \A j \in Keys : latest'[j] >= latest[j] /\ latest'[j] \in Nat
  BY <1>1, <1>2
<1>4. UNCHANGED <<posts, upstream, landed>>
  BY DEF EnqueueOutbox, remote
<1>5. \/ ~Queued(k) /\ outbox' = outbox \cup {new}
      \/ UNCHANGED outbox
  BY DEF EnqueueOutbox
<1> HIDE DEF new
<1>6. \A r \in Known : r.blob \in Nat /\ r.key \in Keys /\ latest[r.key] \in Nat
  BY <1>2, KnownType DEF Row
<1>7. \A r \in Known : r.blob <= latest'[r.key]
  BY <1>3, <1>6 DEF Ages
<1>8. CASE UNCHANGED outbox
  <2>1. Known' = Known
    BY <1>4, <1>8 DEF Known
  <2> QED  BY <1>4, <1>7, <1>8, <2>1 DEF Ages
<1>9. CASE ~Queued(k) /\ outbox' = outbox \cup {new}
  <2>1. Known' = Known \cup {new}
    BY <1>4, <1>9 DEF Known
  <2>2. \A r \in Known' : r.blob <= latest'[r.key]
    BY <1>1, <1>3, <1>7, <2>1
  <2>3. ASSUME NEW q \in outbox', NEW r \in Known', r.key = q.key
        PROVE  r.blob <= q.blob
    <3>1. CASE q = new
      BY <1>1, <1>3, <2>2, <2>3, <3>1
    <3>2. CASE q \in outbox
      <4>1. q.key # k
        BY <1>9, <3>2 DEF Queued
      <4>2. r \in Known
        BY <1>1, <2>1, <2>3, <4>1
      <4> QED  BY <2>3, <3>2, <4>2 DEF Ages
    <3> QED  BY <1>9, <3>1, <3>2
  <2> QED  BY <1>4, <2>2, <2>3 DEF Ages
<1> QED  BY <1>5, <1>8, <1>9

LEMMA PutRowAges ==
  ASSUME Typed, Ages, NEW p \in PostIds, PutRow(p)
  PROVE  Ages'
<1>1. PICK r \in Todo(p) :
        /\ upstream' = [upstream EXCEPT ![r.key] = r.blob]
        /\ landed' = landed \cup {r}
        /\ posts' = [posts EXCEPT ![p].done = @ \cup {r}]
  BY DEF PutRow
<1>2. r \in posts[p].rows /\ r.key \in Keys
  BY DEF Todo, Typed, TypeOK, Row
<1>3. \A q \in PostIds : posts'[q].rows = posts[q].rows
  BY <1>1 DEF Typed, TypeOK
<1>4. UNCHANGED <<outbox, latest>>
  BY DEF PutRow, table
<1>5. Known' = Known
  BY <1>1, <1>2, <1>3, <1>4 DEF Known
<1>6. \A k \in Keys : upstream'[k] # 0 => \E q \in landed' : q.key = k /\ q.blob = upstream'[k]
  BY <1>1, <1>2 DEF Ages, Typed, TypeOK
<1> QED  BY <1>4, <1>5, <1>6 DEF Ages

LEMMA AgesStep == Typed /\ Ages /\ [Next]_vars => Ages'
<1> SUFFICES ASSUME Typed, Ages, [Next]_vars PROVE Ages'
  OBVIOUS
<1> DEFINE Still == UNCHANGED <<outbox, latest, upstream, landed>>
           Kept == \A p \in PostIds : posts'[p].rows \subseteq Known
<1>1. ASSUME UNCHANGED posts
      PROVE  Kept
  BY <1>1 DEF Known
<1>2. ASSUME NEW p \in PostIds, Free(p)
      PROVE  Kept
  BY <1>2 DEF Free, NoRequest, Known, Typed, TypeOK
<1>3. ASSUME NEW p \in PostIds, Refuse(p) \/ Reply(p) \/ Break(p)
      PROVE  Ages'
  <2>1. Still /\ (Answer(p, "ok") \/ Answer(p, "error"))
    BY <1>3 DEF Refuse, Reply, Break, table, remote
  <2>2. \A q \in PostIds : posts'[q].rows \subseteq posts[q].rows
    BY <2>1 DEF Answer, NoRequest, Typed, TypeOK
  <2>3. Kept
    BY <2>2 DEF Known
  <2> QED  BY <2>1, <2>3, AgesKept
<1>4. ASSUME NEW w \in Drainers, NEW p \in PostIds, Post(w, p), Still
      PROVE  Ages'
  <2>1. \A q \in PostIds : posts'[q] = posts[q] \/ posts'[q].rows = DequeueOutbox
    BY <1>4 DEF Post, Typed, TypeOK
  <2>2. DequeueOutbox \subseteq outbox
    BY DEF DequeueOutbox, Ready
  <2>3. Kept
    BY <2>1, <2>2 DEF Known
  <2> QED  BY <1>4, <2>3, AgesKept
<1>5. ASSUME NEW c \in Callers, PushNow(c) \/ CallerStep(c)
      PROVE  Ages'
  <2>1. CASE \E p \in PostIds : DrainNow(c, p)
    BY <1>4, <2>1 DEF DrainNow, Drainers, table, remote
  <2>2. CASE PushNow(c) \/ DepthBefore(c) \/ NothingDue(c) \/ DepthAfter(c)
    <3>1. Still /\ UNCHANGED posts
      BY <2>2 DEF PushNow, DepthBefore, NothingDue, DepthAfter, table, remote
    <3> QED  BY <1>1, <3>1, AgesKept
  <2> QED  BY <1>5, <2>1, <2>2 DEF CallerStep
<1>6. ASSUME NEW p \in PostIds, DrainLoop(p)
      PROVE  Ages'
  BY <1>4, <1>6 DEF DrainLoop, Drainers, table, remote
<1>7. ASSUME NEW w \in Drainers, NEW p \in PostIds,
             AckOutbox(w, p) \/ BumpAll(w, p) \/ GiveUp(w, p)
      PROVE  Ages'
  <2>1. /\ outbox' \subseteq outbox
        /\ UNCHANGED <<latest, upstream, landed>>
        /\ Free(p) \/ UNCHANGED posts
    BY <1>7 DEF AckOutbox, BumpAll, GiveUp, remote
  <2> QED  BY <1>1, <1>2, <2>1, AgesKept
<1>8. CASE Restart
  <2>1. Still
    BY <1>8 DEF Restart, table, remote
  <2>2. Kept
    BY <1>8 DEF Restart, NoRequest, Known
  <2> QED  BY <2>1, <2>2, AgesKept
<1>9. CASE (\E s \in 1..MaxRows : Elapse(s)) \/ SetSealer \/ ClearSealer \/ UNCHANGED vars
  <2>1. Still /\ UNCHANGED posts
    BY <1>9 DEF Elapse, SetSealer, ClearSealer, vars, table, remote
  <2> QED  BY <1>1, <2>1, AgesKept
<1> QED
  BY <1>3, <1>5, <1>6, <1>7, <1>8, <1>9, EnqueueAges, PutRowAges
  DEF Next, Answered, ServerStep

(* No row that waits in the outbox is older than what the upstream holds    *)
(* under its key, whatever bumps, overlapping drains and late requests do:  *)
(* a retry never sets a key back.                                           *)
THEOREM RetriesAreNewest == Spec => []OwedIsNewest
<1>1. Init => Ages
  BY AgesInit
<1>2. Typed /\ Ages /\ [Next]_vars => Ages'
  BY AgesStep
<1>3. Typed /\ Ages => OwedIsNewest
  <2> SUFFICES ASSUME Typed, Ages, NEW q \in outbox PROVE q.blob >= upstream[q.key]
    BY DEF OwedIsNewest
  <2>1. q.key \in Keys /\ q.blob \in Nat /\ upstream[q.key] \in Nat
    BY DEF Typed, TypeOK, Row
  <2>2. CASE upstream[q.key] = 0
    BY <2>1, <2>2
  <2>3. CASE upstream[q.key] # 0
    <3>1. PICK r \in landed : r.key = q.key /\ r.blob = upstream[q.key]
      BY <2>1, <2>3 DEF Ages
    <3>2. r.blob <= q.blob
      BY <3>1 DEF Ages, Known
    <3> QED  BY <2>1, <3>1, <3>2
  <2> QED  BY <2>2, <2>3
<1> QED  BY <1>1, <1>2, <1>3, Invariance, PTL DEF Spec, IInv

-------------------------------------------------------------------------------
(* The refinement of Delivery, step by step. *)
Handed == {k \in Keys : latest[k] > 0}
Owed == {r.key : r \in outbox}
Upstream == {k \in Keys : upstream[k] # 0}

LEMMA EnqueueAccepts ==
  ASSUME IInv, NEW k \in Keys, NEW b \in 1..MaxBlob, EnqueueOutbox(k, b)
  PROVE  D!Accept(k)
<1>1. Handed' = Handed \cup {k}
  <2>1. latest' = [latest EXCEPT ![k] = b] /\ b > 0
    BY OutboxAssumption DEF EnqueueOutbox
  <2> QED  BY <2>1 DEF Handed, IInv, Typed, TypeOK
<1>2. Owed' = Owed \cup {k}
  <2>1. CASE Queued(k)
    BY <2>1 DEF EnqueueOutbox, Owed, Queued
  <2>2. CASE ~Queued(k)
    <3> DEFINE new == [seq |-> nextSeq, key |-> k, blob |-> b]
    <3>1. outbox' = outbox \cup {new} /\ new.key = k
      BY <2>2 DEF EnqueueOutbox
    <3> HIDE DEF new
    <3> QED  BY <3>1 DEF Owed
  <2> QED  BY <2>1, <2>2
<1>3. Upstream' = Upstream
  BY DEF EnqueueOutbox, remote, Upstream
<1> QED  BY <1>1, <1>2, <1>3 DEF D!Accept, Handed, Owed, Upstream

LEMMA PutRowDelivers ==
  ASSUME IInv, NEW p \in PostIds, PutRow(p)
  PROVE  \E k \in Keys : D!Deliver(k)
<1>1. PICK r \in Todo(p) : upstream' = [upstream EXCEPT ![r.key] = r.blob]
  BY DEF PutRow
<1>2. r.key \in Keys /\ r.blob # 0 /\ latest[r.key] > 0
  BY DEF IInv, Safe, RowsReal, Real, Todo, Typed, TypeOK, Row
<1>3. Upstream' = Upstream \cup {r.key}
  BY <1>1, <1>2 DEF Upstream, IInv, Typed, TypeOK
<1>4. Handed' = Handed /\ Owed' = Owed /\ r.key \in Handed
  BY <1>2 DEF PutRow, table, Handed, Owed
<1> QED  BY <1>2, <1>3, <1>4 DEF D!Deliver, Handed, Owed, Upstream

LEMMA AckSettles ==
  ASSUME IInv, NEW w \in Drainers, NEW p \in PostIds, AckOutbox(w, p)
  PROVE  \E K \in SUBSET Keys : D!Settle(K)
<1>0. PICK K : K = Owed \ Owed'
  OBVIOUS
<1>1. outbox \subseteq Row /\ \A r \in Row : r.key \in Keys
  BY DEF IInv, Typed, TypeOK, Row
<1>2. K \in SUBSET Keys
  BY <1>0, <1>1 DEF Owed
<1>3. AckedRows(p) \subseteq landed /\ \A r \in landed : upstream[r.key] # 0
  BY AckedLanded DEF IInv, AckOutbox, Safe, LandedIsUpstream
<1>4. outbox' = outbox \ AckedRows(p) /\ UNCHANGED <<latest, upstream>>
  BY DEF AckOutbox, remote
<1>5. K \subseteq Upstream
  BY <1>0, <1>1, <1>3, <1>4 DEF Owed, Upstream
<1>6. Owed' \subseteq Owed
  BY <1>4 DEF Owed
<1>7. Owed' = Owed \ K
  BY <1>0, <1>6
<1>8. Handed' = Handed /\ Upstream' = Upstream
  BY <1>4 DEF Handed, Upstream
<1>9. D!Settle(K)
  BY <1>5, <1>7, <1>8 DEF D!Settle, Handed, Owed, Upstream
<1> QED  BY <1>2, <1>9

LEMMA StepRefines == IInv /\ [Next]_vars => [D!DNext]_(D!dvars)
<1> SUFFICES ASSUME IInv, [Next]_vars PROVE [D!DNext]_(D!dvars)
  OBVIOUS
<1>1. ASSUME NEW k \in Keys, NEW b \in 1..MaxBlob, EnqueueOutbox(k, b)
      PROVE  D!DNext
  BY <1>1, EnqueueAccepts DEF D!DNext
<1>2. ASSUME NEW p \in PostIds, PutRow(p)
      PROVE  D!DNext
  BY <1>2, PutRowDelivers DEF D!DNext
<1>3. ASSUME NEW w \in Drainers, NEW p \in PostIds, AckOutbox(w, p)
      PROVE  D!DNext
  BY <1>3, AckSettles DEF D!DNext
<1>4. ASSUME UNCHANGED <<outbox, latest, upstream>>
      PROVE  UNCHANGED D!dvars
  BY <1>4 DEF D!dvars
<1>5. \/ \E k \in Keys, b \in 1..MaxBlob : EnqueueOutbox(k, b)
      \/ \E p \in PostIds : PutRow(p)
      \/ \E w \in Drainers, p \in PostIds : AckOutbox(w, p)
      \/ UNCHANGED <<outbox, latest, upstream>>
  BY DEF Next, vars, Elapse, SetSealer, ClearSealer, DrainLoop, PushNow, CallerStep,
     DepthBefore, DrainNow, NothingDue, DepthAfter, ServerStep, Refuse, Reply, Break,
     Answered, BumpAll, GiveUp, Restart, table, remote
<1> QED  BY <1>1, <1>2, <1>3, <1>4, <1>5

(* The outbox, the drains and handlePush together keep Delivery's promise: *)
(* a key stays owed until the upstream holds a blob under it.              *)
THEOREM OutboxDelivers == Spec => ImplementsDelivery
<1>1. Init => D!DInit
  BY DEF Init, D!DInit
<1>2. IInv /\ [Next]_vars => [D!DNext]_(D!dvars)
  BY StepRefines
<1> QED  BY <1>1, <1>2, Invariance, PTL DEF Spec, ImplementsDelivery, D!DSpec
=============================================================================

------------------------------ MODULE EventProofs ------------------------------
(***************************************************************************)
(* Theorems about how events travel: the pull of module PullCursor, and    *)
(* the conversation of module Transport.                                   *)
(*                                                                         *)
(* PullCursor: types for any number of pullers, and for a single puller    *)
(* with keys pushed in order, that the cursor passes no row it could have  *)
(* ingested but those a statement failed on.  But for these the sessions a *)
(* device has are an initial segment of those upstream (Prefix), and       *)
(* events sort by session, so once an event of a page has to wait for a    *)
(* session that has not come, all later events of the page have to wait as *)
(* well, and the cursor stays in front of the first.                       *)
(*                                                                         *)
(* Transport: types, that an event is stored once, that a resume writes    *)
(* out all that was captured, that a prompt pairs calls with results, and  *)
(* the order of a transcript.  What the recursive functions of the model   *)
(* compute comes first: a function that satisfies its equation is built up *)
(* from smaller arguments (Recursion), then the rows of a table in their   *)
(* order (SortedIs) and its pages (LoadIs).  The invariant is that a row   *)
(* has the key that its kind and record give it, a line the time of its    *)
(* record (ConversationInv).  The order of codex has an invariant of its   *)
(* own (CodexInv): the rows of two lines are in the order of the lines, a  *)
(* line that was not swept is behind all that its author had read, and the *)
(* seqs that the next sweep of a transcript gives reach those its rows     *)
(* have.                                                                   *)
(***************************************************************************)
EXTENDS PullCursor, Transport, SequenceTheorems, FiniteSetTheorems, WellFoundedInduction, TLAPS

-------------------------------------------------------------------------------
(* The pull. *)

PageIsUp == \A p \in Pullers : pc[p] = "ingest" => page[p] \subseteq up[kind[p]]

UpFinite == \A k \in Kinds : IsFiniteSet(up[k])

Typed == TypeOK /\ PageIsUp /\ UpFinite

LEMMA TypedInit == Init => Typed
<1> SUFFICES ASSUME Init PROVE Typed
  OBVIOUS
<1>1. TypeOK /\ PageIsUp
  BY DEF Init, TypeOK, PageIsUp, Kinds
<1>2. UpFinite
  BY FS_EmptySet DEF Init, UpFinite
<1> QED  BY <1>1, <1>2 DEF Typed

(* What a page can hold. *)
LEMMA PageType ==
  ASSUME TypeOK, NEW k \in Kinds, NEW c \in Nat
  PROVE  Page(k, c) \subseteq up[k] /\ Page(k, c) \in SUBSET (Sessions \cup Events)
BY DEF Page, After, TypeOK

LEMMA PushTyped ==
  ASSUME Typed, NEW k \in Kinds, NEW r \in RowsOf(k), Push(k, r)
  PROVE  Typed'
<1>1. up' = [up EXCEPT ![k] = @ \cup {r}] /\ up \in [Kinds -> SUBSET (Sessions \cup Events)]
  BY DEF Push, Typed, TypeOK
<1>2. \A j \in Kinds : up[j] \subseteq up'[j] /\ up'[j] \subseteq up[j] \cup {r}
  BY <1>1
<1>3. r \in Sessions \cup Events /\ up'[k] = up[k] \cup {r} /\ \A j \in Kinds \ {k} : up'[j] = up[j]
  BY <1>1 DEF RowsOf
<1>4. UNCHANGED <<local, saved, pc, kind, cur, page, full, faults, missed>>
  BY DEF Push, puller
<1>5. \A j \in Kinds : local[j] \subseteq up'[j] /\ up'[j] \subseteq RowsOf(j)
  BY <1>2, <1>3 DEF Typed, TypeOK
<1>6. up' \in [Kinds -> SUBSET (Sessions \cup Events)]
  BY <1>1, <1>3
<1>7. TypeOK'
  BY <1>4, <1>5, <1>6 DEF Typed, TypeOK
<1>8. PageIsUp'
  BY <1>2, <1>4 DEF Typed, TypeOK, PageIsUp
<1>9. UpFinite'
  <2> SUFFICES ASSUME NEW j \in Kinds PROVE IsFiniteSet(up'[j])
    BY DEF UpFinite
  <2>1. IsFiniteSet(up[j]) /\ IsFiniteSet(up[j] \cup {r})
    BY FS_AddElement DEF Typed, UpFinite
  <2> QED  BY <1>3, <2>1
<1> QED  BY <1>7, <1>8, <1>9 DEF Typed

LEMMA IngestTyped ==
  ASSUME Typed, NEW p \in Pullers, NEW r \in page[p], Ingest(p, r)
  PROVE  Typed'
<1>1. kind[p] \in Kinds /\ r \in up[kind[p]] /\ r \in Nat /\ r \in Sessions \cup Events
  BY PullAssumption DEF Ingest, Typed, TypeOK, PageIsUp
<1>2. page' = [page EXCEPT ![p] = @ \ {r}]
  BY DEF Ingest
<1>3. \/ local' = [local EXCEPT ![kind[p]] = @ \cup {r}] /\ cur' = [cur EXCEPT ![p] = r]
      \/ UNCHANGED <<local, cur>>
  BY DEF Ingest
<1>4. UNCHANGED <<up, saved, pc, kind, full>>
  BY DEF Ingest
<1>8. faults' \in Nat /\ missed' \in [Kinds -> SUBSET (Sessions \cup Events)]
  <2>1. \/ UNCHANGED <<faults, missed>>
        \/ faults' = faults + 1 /\ missed' = [missed EXCEPT ![kind[p]] = @ \cup {r}]
    BY DEF Ingest
  <2> QED  BY <1>1, <2>1 DEF Typed, TypeOK
<1>5. cur' \in [Pullers -> Nat] /\ local' \in [Kinds -> SUBSET (Sessions \cup Events)]
  BY <1>1, <1>3 DEF Typed, TypeOK
<1>6. \A j \in Kinds : local'[j] \subseteq up[j]
  BY <1>1, <1>3 DEF Typed, TypeOK
<1>7. page' \in [Pullers -> SUBSET (Sessions \cup Events)] /\ PageIsUp'
  BY <1>2, <1>4 DEF Typed, TypeOK, PageIsUp
<1> QED  BY <1>4, <1>5, <1>6, <1>7, <1>8 DEF Typed, TypeOK, UpFinite

LEMMA ListTyped ==
  ASSUME Typed, NEW p \in Pullers, List(p)
  PROVE  Typed'
<1>1. kind[p] \in Kinds /\ cur[p] \in Nat
  BY DEF Typed, TypeOK
<1>2. UNCHANGED <<up, local, saved, cur, faults, missed>>
  BY DEF List
<1>3. CASE /\ page' = [page EXCEPT ![p] = Page(kind[p], cur[p])]
           /\ full' = [full EXCEPT ![p] = Cardinality(Page(kind[p], cur[p])) = Limit]
           /\ pc' = [pc EXCEPT ![p] = "ingest"]
           /\ UNCHANGED kind
  <2>1. Page(kind[p], cur[p]) \subseteq up[kind[p]]
        /\ Page(kind[p], cur[p]) \in SUBSET (Sessions \cup Events)
    BY <1>1, PageType DEF Typed
  <2>2. page' \in [Pullers -> SUBSET (Sessions \cup Events)]
    BY <1>3, <2>1 DEF Typed, TypeOK
  <2>3. full' \in [Pullers -> BOOLEAN]
    BY <1>3, Zenon DEF Typed, TypeOK
  <2>4. PageIsUp'
    BY <1>2, <1>3, <2>1 DEF Typed, TypeOK, PageIsUp
  <2>5. pc' \in [Pullers -> {"idle", "cursor", "list", "ingest"}]
    BY <1>3 DEF Typed, TypeOK
  <2> QED  BY <1>2, <1>3, <2>2, <2>3, <2>4, <2>5 DEF Typed, TypeOK, UpFinite
<1>4. CASE NextKind(p) /\ UNCHANGED <<page, full>>
  <2>1. /\ pc' \in [Pullers -> {"idle", "cursor", "list", "ingest"}]
        /\ kind' \in [Pullers -> Kinds]
    BY <1>4 DEF NextKind, Typed, TypeOK, Kinds
  <2>2. PageIsUp'
    BY <1>2, <1>4 DEF NextKind, Typed, TypeOK, PageIsUp
  <2> QED  BY <1>2, <1>4, <2>1, <2>2 DEF Typed, TypeOK, UpFinite
<1> QED  BY <1>3, <1>4 DEF List

LEMMA SetCursorTyped ==
  ASSUME Typed, NEW p \in Pullers, SetCursor(p)
  PROVE  Typed'
<1>1. saved' \in [Kinds -> Nat]
  BY DEF SetCursor, Typed, TypeOK
<1>2. UNCHANGED <<up, local, cur, page, full, faults, missed>>
  BY DEF SetCursor
<1>3. \/ pc' = [pc EXCEPT ![p] = "list"] /\ UNCHANGED kind
      \/ NextKind(p)
  BY DEF SetCursor
<1>4. /\ pc' \in [Pullers -> {"idle", "cursor", "list", "ingest"}]
      /\ kind' \in [Pullers -> Kinds]
  BY <1>3 DEF NextKind, Typed, TypeOK, Kinds
<1>5. PageIsUp'
  BY <1>2, <1>3 DEF NextKind, Typed, TypeOK, PageIsUp
<1> QED  BY <1>1, <1>2, <1>4, <1>5 DEF Typed, TypeOK, UpFinite

LEMMA TypedStep == Typed /\ [Next]_vars => Typed'
<1> SUFFICES ASSUME Typed, [Next]_vars PROVE Typed'
  OBVIOUS
<1>1. ASSUME NEW p \in Pullers, StartPull(p) \/ GetCursor(p) \/ Fail(p)
      PROVE  Typed'
  <2>1. UNCHANGED <<up, local, saved, full, missed>>
    BY <1>1 DEF StartPull, GetCursor, Fail
  <2>2. /\ pc' \in [Pullers -> {"idle", "cursor", "list", "ingest"}]
        /\ kind' \in [Pullers -> Kinds] /\ cur' \in [Pullers -> Nat]
        /\ page' \in [Pullers -> SUBSET (Sessions \cup Events)] /\ faults' \in Nat
    BY <1>1 DEF StartPull, GetCursor, Fail, Typed, TypeOK, Kinds
  <2>3. \A q \in Pullers : pc'[q] = "ingest" =>
          pc[q] = "ingest" /\ page'[q] \subseteq page[q] /\ kind'[q] = kind[q]
    BY <1>1 DEF StartPull, GetCursor, Fail, Typed, TypeOK
  <2>4. PageIsUp'
    BY <2>1, <2>3 DEF Typed, PageIsUp
  <2> QED  BY <2>1, <2>2, <2>4 DEF Typed, TypeOK, UpFinite
<1>2. CASE Restart
  BY <1>2 DEF Restart, Typed, TypeOK, PageIsUp, UpFinite
<1>3. CASE UNCHANGED vars
  BY <1>3 DEF vars, Typed, TypeOK, PageIsUp, UpFinite
<1> QED
  BY <1>1, <1>2, <1>3, PushTyped, IngestTyped, ListTyped, SetCursorTyped
  DEF Next, PullStep

LEMMA TypedAlways == Spec => []Typed
BY TypedInit, TypedStep, PTL DEF Spec

(* The tables and the pullers keep their types, for any number of pullers;  *)
(* in particular this device has no row that the upstream has not.          *)
THEOREM TypeCorrect == Spec => []TypeOK
BY TypedAlways, PTL DEF Typed

-------------------------------------------------------------------------------
(* One puller, and keys that reach the upstream in order. *)
Alone == \A p, q \in Pullers : p = q

Kept(k, r) == r \in local[k] \/ Failed(k, r)

Covered(k, c) == \A r \in up[k] \cap Good(k) : r <= c => Kept(k, r)

Handled(k, r) == Kept(k, r) \/ ~Ingestible(k, r)

Prefix ==
  \A s, t \in up["sessions"] :
    s <= t /\ t \in local["sessions"] => s \in local["sessions"] \cup missed["sessions"]

Owned == \A e \in up["events"] : SessionOf[e] \in up["sessions"]

SavedIsUp == \A k \in Kinds : saved[k] \in up[k] \cup {0}

(* pullKind's cursor is as safe as the saved one.                           *)
CurIsSafe ==
  \A p \in Pullers : pc[p] \in {"list", "ingest"} =>
    cur[p] \in up[kind[p]] \cup {0} /\ Covered(kind[p], cur[p])

(* What lies below a row still on the page has been ingested or refused.    *)
PageInOrder ==
  \A p \in Pullers : pc[p] = "ingest" =>
    \A r \in page[p], q \in up[kind[p]] : q < r => q \in page[p] \/ Handled(kind[p], q)

InOrder == Prefix /\ Owned /\ SavedIsUp /\ NoneSkipped /\ CurIsSafe /\ PageInOrder

LEMMA InOrderInit == Init => InOrder
BY DEF Init, InOrder, Prefix, Owned, SavedIsUp, NoneSkipped, CurIsSafe, PageInOrder, Kinds, Kept, Failed

LEMMA PushInOrder ==
  ASSUME KeyOrder, Typed, InOrder, NEW k \in Kinds, NEW r \in RowsOf(k), Push(k, r)
  PROVE  InOrder'
<1>1. r \in Nat /\ r # 0 /\ r \notin up[k]
  BY PullAssumption DEF RowsOf, Push
<1>2. \A q \in up[k] : q < r
  BY DEF Push
<1>3. up'[k] = up[k] \cup {r} /\ \A j \in Kinds \ {k} : up'[j] = up[j]
  BY DEF Push, Typed, TypeOK
<1>4. UNCHANGED <<local, saved, pc, kind, cur, page, full, missed>>
  BY DEF Push, puller
<1>5. \A j \in Kinds : up[j] \subseteq Nat /\ local[j] \subseteq up[j] /\ up[j] \subseteq up'[j]
  BY <1>3, PullAssumption DEF Typed, TypeOK
<1>6. ASSUME NEW j \in Kinds, NEW c \in up[j] \cup {0}, Covered(j, c)
      PROVE  Covered(j, c)' /\ c \in up'[j] \cup {0}
  BY <1>1, <1>2, <1>3, <1>4, <1>5, <1>6 DEF Covered, Kept, Failed
<1>7. Prefix'
  BY <1>1, <1>2, <1>3, <1>4, <1>5 DEF Prefix, InOrder, Kinds
<1>8. Owned'
  BY <1>3, <1>5 DEF Owned, InOrder, Kinds, Push
<1>9. SavedIsUp' /\ NoneSkipped'
  <2>1. \A j \in Kinds : Covered(j, saved[j]) /\ saved[j] \in up[j] \cup {0}
    BY DEF InOrder, NoneSkipped, Covered, SavedIsUp, Kept, Failed
  <2>2. \A j \in Kinds : Covered(j, saved[j])' /\ saved[j] \in up'[j] \cup {0}
    BY <1>4, <1>6, <2>1 DEF Covered, Kept, Failed
  <2> QED  BY <1>4, <2>2 DEF NoneSkipped, Covered, SavedIsUp, Kept, Failed
<1>10. CurIsSafe'
  <2> SUFFICES ASSUME NEW p \in Pullers, pc[p] \in {"list", "ingest"}
               PROVE  cur[p] \in up'[kind[p]] \cup {0} /\ Covered(kind[p], cur[p])'
    BY <1>4 DEF CurIsSafe, Covered, Kept, Failed
  <2>1. kind[p] \in Kinds /\ cur[p] \in up[kind[p]] \cup {0} /\ Covered(kind[p], cur[p])
    BY DEF Typed, TypeOK, InOrder, CurIsSafe
  <2> QED  BY <1>4, <1>6, <2>1 DEF Covered, Kept, Failed
<1>11. PageInOrder'
  <2> SUFFICES ASSUME NEW p \in Pullers, pc[p] = "ingest",
                      NEW t \in page[p], NEW q \in up'[kind[p]], q < t
               PROVE  q \in page[p] \/ Handled(kind[p], q)
    BY <1>4 DEF PageInOrder, Handled, Kept, Failed, Ingestible
  <2>1. kind[p] \in Kinds /\ t \in up[kind[p]]
    BY DEF Typed, TypeOK, PageIsUp
  <2>2. q \in up[kind[p]]
    BY <1>1, <1>2, <1>3, <1>5, <2>1
  <2> QED  BY <2>2 DEF InOrder, PageInOrder
<1> QED  BY <1>7, <1>8, <1>9, <1>10, <1>11 DEF InOrder

(* The rows of a page below r are all in the page. *)
LEMMA PageIsInitial ==
  ASSUME Typed, NEW k \in Kinds, NEW c \in Nat, NEW r \in Page(k, c), NEW q \in After(k, c), q < r
  PROVE  q \in Page(k, c)
<1> DEFINE Below(x) == {y \in After(k, c) : y < x}
<1>1. up[k] \subseteq Nat /\ IsFiniteSet(up[k])
  BY PullAssumption DEF Typed, TypeOK, UpFinite
<1>2. Below(q) \subseteq Below(r) /\ Below(r) \subseteq up[k] /\ r \in Nat /\ q \in Nat
  BY <1>1 DEF After, Page
<1>3. IsFiniteSet(Below(r)) /\ IsFiniteSet(Below(q))
  <2>1. IsFiniteSet(Below(r))
    BY <1>1, <1>2, FS_Subset, Zenon
  <2> QED  BY <1>2, <2>1, FS_Subset, Zenon
<1>4. Cardinality(Below(q)) <= Cardinality(Below(r))
  BY <1>2, <1>3, FS_Subset, Zenon
<1>5. Cardinality(Below(q)) \in Nat /\ Cardinality(Below(r)) \in Nat
  BY <1>3, FS_CardinalityType
<1>6. Cardinality(Below(r)) < Limit
  BY DEF Page
<1>7. Cardinality(Below(q)) < Limit
  <2> HIDE DEF Below
  <2> QED  BY <1>4, <1>5, <1>6, PullAssumption
<1> QED  BY <1>7 DEF Page

LEMMA ListInOrder ==
  ASSUME Typed, InOrder, NEW p \in Pullers, List(p)
  PROVE  InOrder'
<1>1. pc[p] = "list" /\ UNCHANGED <<up, local, saved, cur, missed>>
  BY DEF List
<1>2. Prefix' /\ Owned' /\ SavedIsUp' /\ NoneSkipped'
  BY <1>1 DEF InOrder, Prefix, Owned, SavedIsUp, NoneSkipped, Kept, Failed
<1>3. kind[p] \in Kinds /\ cur[p] \in Nat
  BY DEF Typed, TypeOK
<1>4. cur[p] \in up[kind[p]] \cup {0} /\ Covered(kind[p], cur[p])
  BY <1>1 DEF InOrder, CurIsSafe
<1>5. CASE NextKind(p) /\ UNCHANGED page
  <2>1. pc'[p] \notin {"list", "ingest"}
        /\ \A q \in Pullers \ {p} : pc'[q] = pc[q] /\ kind'[q] = kind[q]
    BY <1>5 DEF NextKind, Typed, TypeOK
  <2>2. CurIsSafe' /\ PageInOrder'
    BY <1>1, <1>5, <2>1 DEF InOrder, CurIsSafe, PageInOrder, Covered, Handled, Kept, Failed, Ingestible
  <2> QED  BY <1>2, <2>2 DEF InOrder
<1>6. CASE /\ page' = [page EXCEPT ![p] = Page(kind[p], cur[p])]
           /\ pc' = [pc EXCEPT ![p] = "ingest"]
           /\ UNCHANGED kind
  <2>1. CurIsSafe'
    BY <1>1, <1>4, <1>6 DEF InOrder, CurIsSafe, Covered, Typed, TypeOK, Kept, Failed
  <2>2. \A q \in Pullers \ {p} : page'[q] = page[q] /\ pc'[q] = pc[q]
    BY <1>6 DEF Typed, TypeOK
  <2>3. page'[p] = Page(kind[p], cur[p])
    BY <1>6 DEF Typed, TypeOK
  <2>4. ASSUME NEW r \in Page(kind[p], cur[p]), NEW q \in up[kind[p]], q < r
        PROVE  q \in Page(kind[p], cur[p]) \/ Handled(kind[p], q)
    <3>1. CASE q \in After(kind[p], cur[p])
      BY <1>3, <2>4, <3>1, PageIsInitial
    <3>2. CASE q \notin After(kind[p], cur[p])
      <4>1. q <= cur[p]
        BY <1>3, <3>2, PullAssumption DEF After, Typed, TypeOK
      <4>2. q \in Good(kind[p]) => Kept(kind[p], q)
        BY <1>4, <4>1 DEF Covered
      <4>3. q \notin Good(kind[p]) => ~Ingestible(kind[p], q)
        BY <1>3 DEF Good, Ingestible, Kinds, Typed, TypeOK, RowsOf
      <4> QED  BY <4>2, <4>3 DEF Handled
    <3> QED  BY <3>1, <3>2
  <2>5. PageInOrder'
    <3> SUFFICES ASSUME NEW w \in Pullers, pc'[w] = "ingest",
                        NEW r \in page'[w], NEW q \in up[kind[w]], q < r
                 PROVE  q \in page'[w] \/ Handled(kind[w], q)
      BY <1>1, <1>6 DEF PageInOrder, Handled, Kept, Failed, Ingestible
    <3>1. CASE w = p
      BY <2>3, <2>4, <3>1
    <3>2. CASE w # p
      BY <2>2, <3>2 DEF InOrder, PageInOrder
    <3> QED  BY <3>1, <3>2
  <2> QED  BY <1>2, <2>1, <2>5 DEF InOrder
<1> QED  BY <1>5, <1>6 DEF List

(* The next row of a page, if it can be ingested, has nothing good below    *)
(* it that is not in the tables, but for what a statement failed on.        *)
LEMMA IngestCovers ==
  ASSUME Typed, InOrder, NEW p \in Pullers, NEW r \in page[p], pc[p] = "ingest",
         IsNext(p, r), Ingestible(kind[p], r),
         NEW q \in up[kind[p]] \cap Good(kind[p]), q < r
  PROVE  Kept(kind[p], q)
<1>1. kind[p] \in Kinds /\ r \in up[kind[p]] /\ up[kind[p]] \subseteq Nat
  BY PullAssumption DEF Typed, TypeOK, PageIsUp
<1>2. q \notin page[p]
  BY <1>1 DEF IsNext
<1>3. Handled(kind[p], q)
  BY <1>2 DEF InOrder, PageInOrder
<1>4. Ingestible(kind[p], q) \/ Failed(kind[p], q)
  <2>1. CASE kind[p] = "sessions"
    BY <2>1 DEF Ingestible
  <2>2. CASE kind[p] = "events"
    <3>1. q \in Events /\ r \in Events /\ q \notin Bad /\ SessionOf[r] \in local["sessions"]
      BY <1>1, <2>2 DEF Ingestible, Typed, TypeOK, RowsOf, Good
    <3>2. SessionOf[q] <= SessionOf[r]
      BY <1>1, <3>1, PullAssumption
    <3>3. SessionOf[q] \in up["sessions"] /\ SessionOf[r] \in up["sessions"]
      BY <1>1, <2>2 DEF InOrder, Owned
    <3>4. SessionOf[q] \in local["sessions"] \cup missed["sessions"]
      BY <3>1, <3>2, <3>3 DEF InOrder, Prefix
    <3> QED  BY <2>2, <3>1, <3>4 DEF Ingestible, Failed
  <2> QED  BY <1>1, <2>1, <2>2 DEF Kinds
<1> QED  BY <1>3, <1>4 DEF Handled, Kept

LEMMA IngestInOrder ==
  ASSUME Alone, Typed, InOrder, NEW p \in Pullers, NEW r \in page[p], Ingest(p, r)
  PROVE  InOrder'
<1>1. pc[p] = "ingest" /\ IsNext(p, r) /\ UNCHANGED <<up, saved, pc, kind>>
  BY DEF Ingest
<1>2. /\ kind[p] \in Kinds /\ r \in up[kind[p]] /\ r \in Nat /\ page[p] \subseteq up[kind[p]]
      /\ \A k \in Kinds : up[k] \subseteq Nat
  BY <1>1, PullAssumption DEF Typed, TypeOK, PageIsUp
<1>3. \A w \in Pullers : w = p
  BY DEF Alone
<1>4. page'[p] = page[p] \ {r}
  BY DEF Ingest, Typed, TypeOK
<1>5. Owned' /\ SavedIsUp'
  BY <1>1 DEF InOrder, Owned, SavedIsUp
(* The row is not stored: the cursor stays, and more may have failed.        *)
<1>6. ASSUME UNCHANGED <<local, cur>>, \A k \in Kinds : missed[k] \subseteq missed'[k],
             Handled(kind[p], r)'
      PROVE  InOrder'
  <2>1. \A k \in Kinds : \A q : Kept(k, q) => Kept(k, q)'
    BY <1>6 DEF Kept, Failed, Kinds
  <2>2. \A k \in Kinds : \A q : Handled(k, q) => Handled(k, q)'
    BY <1>6, <2>1 DEF Handled, Ingestible
  <2>3. Prefix'
    BY <1>1, <1>6 DEF InOrder, Prefix, Kinds
  <2>4. NoneSkipped' /\ CurIsSafe'
    <3>1. NoneSkipped'
      <4>1. \A k \in Kinds : \A q \in up[k] \cap Good(k) : q <= saved[k] => Kept(k, q)
        BY DEF InOrder, NoneSkipped, Kept
      <4>2. \A k \in Kinds : \A q \in up[k] \cap Good(k) : q <= saved[k] => Kept(k, q)'
        BY <2>1, <4>1
      <4> QED  BY <1>1, <4>2 DEF NoneSkipped, Kept
    <3>2. CurIsSafe'
      BY <1>1, <1>2, <1>3, <1>6, <2>1 DEF InOrder, CurIsSafe, Covered
    <3> QED  BY <3>1, <3>2
  <2>5. PageInOrder'
    BY <1>1, <1>2, <1>3, <1>4, <1>6, <2>2 DEF InOrder, PageInOrder
  <2> QED  BY <1>5, <2>3, <2>4, <2>5 DEF InOrder
<1>7. CASE /\ Ingestible(kind[p], r)
           /\ local' = [local EXCEPT ![kind[p]] = @ \cup {r}]
           /\ cur' = [cur EXCEPT ![p] = r]
           /\ UNCHANGED missed
  <2>1. /\ local'[kind[p]] = local[kind[p]] \cup {r} /\ cur'[p] = r
        /\ \A k \in Kinds : local[k] \subseteq local'[k]
        /\ \A k \in Kinds \ {kind[p]} : local'[k] = local[k]
    BY <1>2, <1>7 DEF Typed, TypeOK
  <2>2. \A q \in up[kind[p]] \cap Good(kind[p]) : q < r => Kept(kind[p], q)
    BY <1>1, <1>7, IngestCovers
  <2>3. \A k \in Kinds : \A q : Kept(k, q) => Kept(k, q)'
    BY <1>7, <2>1 DEF Kept, Failed
  <2>4. Covered(kind[p], r)'
    <3> SUFFICES ASSUME NEW q \in up[kind[p]] \cap Good(kind[p]), q <= r
                 PROVE  Kept(kind[p], q)'
      BY <1>1 DEF Covered
    <3>1. q < r \/ q = r
      BY <1>2
    <3>2. CASE q < r
      <4>1. Kept(kind[p], q)
        BY <2>2, <3>2
      <4> QED  BY <1>1, <1>2, <2>3, <4>1
    <3>3. CASE q = r
      BY <1>1, <2>1, <3>3 DEF Kept
    <3> QED  BY <3>1, <3>2, <3>3
  <2>5. CurIsSafe'
    BY <1>1, <1>2, <1>3, <2>1, <2>4 DEF CurIsSafe, Covered
  <2>6. NoneSkipped'
    <3>1. \A k \in Kinds : \A q \in up[k] \cap Good(k) : q <= saved[k] => Kept(k, q)'
      BY <2>3 DEF InOrder, NoneSkipped, Kept
    <3> QED  BY <1>1, <3>1 DEF NoneSkipped, Kept
  <2>7. Prefix'
    <3>1. CASE kind[p] = "sessions"
      <4> SUFFICES ASSUME NEW s \in up["sessions"], NEW t \in up["sessions"], s <= t,
                          t \in local'["sessions"]
                   PROVE  s \in local'["sessions"] \cup missed["sessions"]
        BY <1>1, <1>7 DEF Prefix
      <4>1. CASE t \in local["sessions"]
        BY <2>1, <3>1, <4>1 DEF InOrder, Prefix
      <4>2. CASE t = r
        <5>1. s \in Good("sessions")
          BY DEF Typed, TypeOK, RowsOf, Good, Kinds
        <5>2. s < r \/ s = r
          BY <1>2, <3>1, <4>2
        <5>3. s < r => s \in local["sessions"] \cup missed["sessions"]
          BY <2>2, <3>1, <5>1 DEF Kept, Failed
        <5> QED  BY <2>1, <3>1, <5>2, <5>3
      <4> QED  BY <2>1, <3>1, <4>1, <4>2
    <3>2. CASE kind[p] = "events"
      BY <1>1, <1>7, <2>1, <3>2 DEF InOrder, Prefix, Kinds
    <3> QED  BY <1>2, <3>1, <3>2 DEF Kinds
  <2>8. \A q \in up[kind[p]] : Handled(kind[p], q) => Handled(kind[p], q)'
    <3>1. CASE kind[p] = "sessions"
      BY <1>1, <1>2, <2>3, <3>1 DEF Handled, Ingestible
    <3>2. CASE kind[p] = "events"
      <4>1. local'["sessions"] = local["sessions"]
        BY <2>1, <3>2 DEF Kinds
      <4> QED  BY <1>1, <1>2, <2>3, <3>2, <4>1 DEF Handled, Ingestible
    <3> QED  BY <1>2, <3>1, <3>2 DEF Kinds
  <2>9. Handled(kind[p], r)'
    BY <1>1, <2>1 DEF Handled, Kept
  <2>10. PageInOrder'
    <3> SUFFICES ASSUME NEW t \in page'[p], NEW q \in up[kind[p]], q < t
                 PROVE  q \in page'[p] \/ Handled(kind[p], q)'
      BY <1>1, <1>3 DEF PageInOrder, Handled, Kept, Failed, Ingestible
    <3>1. q \in page[p] \/ Handled(kind[p], q)
      BY <1>1, <1>4 DEF InOrder, PageInOrder
    <3> QED  BY <1>4, <2>8, <2>9, <3>1
  <2> QED  BY <1>5, <2>5, <2>6, <2>7, <2>10 DEF InOrder
<1>8. CASE ~Ingestible(kind[p], r) /\ UNCHANGED <<local, cur, missed>>
  BY <1>1, <1>6, <1>8 DEF Handled, Ingestible
<1>9. CASE missed' = [missed EXCEPT ![kind[p]] = @ \cup {r}] /\ UNCHANGED <<local, cur>>
  <2>1. r \in missed'[kind[p]] /\ \A k \in Kinds : missed[k] \subseteq missed'[k]
    BY <1>2, <1>9 DEF Typed, TypeOK
  <2>2. Handled(kind[p], r)'
    BY <1>1, <2>1 DEF Handled, Kept, Failed
  <2> QED  BY <1>6, <1>9, <2>1, <2>2
<1> QED  BY <1>7, <1>8, <1>9 DEF Ingest

LEMMA SetCursorInOrder ==
  ASSUME Typed, InOrder, NEW p \in Pullers, SetCursor(p)
  PROVE  InOrder'
<1>1. pc[p] = "ingest" /\ UNCHANGED <<up, local, cur, page, missed>> /\ kind[p] \in Kinds
  BY DEF SetCursor, Typed, TypeOK
<1>2. saved' = saved \/ saved' = [saved EXCEPT ![kind[p]] = cur[p]]
  BY DEF SetCursor
<1>3. cur[p] \in up[kind[p]] \cup {0} /\ Covered(kind[p], cur[p])
  BY <1>1 DEF InOrder, CurIsSafe
<1>4. SavedIsUp' /\ NoneSkipped'
  BY <1>1, <1>2, <1>3 DEF InOrder, SavedIsUp, NoneSkipped, Covered, Typed, TypeOK, Kept, Failed
<1>5. Prefix' /\ Owned'
  BY <1>1 DEF InOrder, Prefix, Owned
<1>6. /\ \A q \in Pullers \ {p} : pc'[q] = pc[q] /\ kind'[q] = kind[q]
      /\ pc'[p] # "ingest"
      /\ pc'[p] = "list" => kind'[p] = kind[p]
  BY DEF SetCursor, NextKind, Typed, TypeOK
<1>7. CurIsSafe'
  BY <1>1, <1>3, <1>6 DEF InOrder, CurIsSafe, Covered, Kept, Failed
<1>8. PageInOrder'
  BY <1>1, <1>6 DEF InOrder, PageInOrder, Handled, Kept, Failed, Ingestible
<1> QED  BY <1>4, <1>5, <1>7, <1>8 DEF InOrder

LEMMA InOrderStep ==
  ASSUME Alone, KeyOrder, Typed, InOrder, [Next]_vars
  PROVE  InOrder'
<1>1. ASSUME NEW p \in Pullers, StartPull(p) \/ Fail(p)
      PROVE  InOrder'
  <2>1. /\ UNCHANGED <<up, local, saved, cur, missed>>
        /\ pc'[p] \notin {"list", "ingest"}
        /\ \A q \in Pullers \ {p} : pc'[q] = pc[q] /\ kind'[q] = kind[q] /\ page'[q] = page[q]
    BY <1>1 DEF StartPull, Fail, Typed, TypeOK
  <2> QED
    BY <2>1 DEF InOrder, Prefix, Owned, SavedIsUp, NoneSkipped, CurIsSafe, PageInOrder,
                Covered, Handled, Kept, Failed, Ingestible
<1>2. ASSUME NEW p \in Pullers, GetCursor(p)
      PROVE  InOrder'
  <2>1. /\ UNCHANGED <<up, local, saved, kind, page, missed>>
        /\ pc'[p] = "list" /\ cur'[p] = saved[kind[p]] /\ kind[p] \in Kinds
        /\ \A q \in Pullers \ {p} : pc'[q] = pc[q] /\ cur'[q] = cur[q]
    BY <1>2 DEF GetCursor, Typed, TypeOK
  <2>2. CurIsSafe'
    BY <2>1 DEF InOrder, SavedIsUp, NoneSkipped, CurIsSafe, Covered, Kept, Failed
  <2>3. PageInOrder'
    BY <2>1 DEF InOrder, PageInOrder, Handled, Kept, Failed, Ingestible
  <2> QED  BY <2>1, <2>2, <2>3 DEF InOrder, Prefix, Owned, SavedIsUp, NoneSkipped, Kept, Failed
<1>3. CASE Restart
  <2>1. UNCHANGED <<up, local, saved, missed>> /\ \A p \in Pullers : pc'[p] = "idle"
    BY <1>3 DEF Restart
  <2> QED
    BY <2>1 DEF InOrder, Prefix, Owned, SavedIsUp, NoneSkipped, CurIsSafe, PageInOrder, Kept, Failed
<1>4. CASE UNCHANGED vars
  BY <1>4 DEF vars, InOrder, Prefix, Owned, SavedIsUp, NoneSkipped, CurIsSafe, PageInOrder,
              Covered, Handled, Kept, Failed, Ingestible
<1> QED
  BY <1>1, <1>2, <1>3, <1>4, PushInOrder, ListInOrder, IngestInOrder, SetCursorInOrder
  DEF Next, PullStep

(* With one puller and keys that reach the upstream in order, no row that   *)
(* could have been ingested is passed by the saved cursor, for any number   *)
(* of sessions and events, bad rows, page sizes, failures and restarts; the *)
(* exceptions are the rows whose own statement failed, or whose session's   *)
(* did, which the code logs and passes over.                                *)
THEOREM CursorIsSafe ==
  ASSUME Alone, KeyOrder
  PROVE  Spec => []NoneSkipped
<1>1. Init => InOrder
  BY InOrderInit
<1>2. Typed /\ InOrder /\ [Next]_vars => InOrder'
  BY InOrderStep
<1>3. InOrder => NoneSkipped
  BY DEF InOrder
<1> QED  BY <1>1, <1>2, <1>3, TypedAlways, PTL DEF Spec

-------------------------------------------
(* Recursion.  A recursive function is a choice of a function that satisfies *)
(* its equation; there is one if the equation refers to smaller arguments.   *)

LEMMA LeastOf ==
  ASSUME NEW T \in SUBSET Nat, T # {}
  PROVE  \E m \in T : \A t \in T : m <= t
<1> DEFINE LT == OpToRel(<, Nat)
<1>1. \E m \in T : \A t \in Nat : <<t, m>> \in LT => t \notin T
  <2> HIDE DEF LT
  <2>1. IsWellFoundedOn(LT, Nat)
    BY NatLessThanWellFounded DEF LT
  <2>2. QED BY <2>1, WFMin
<1>2. PICK m \in T : \A t \in Nat : <<t, m>> \in LT => t \notin T
  BY <1>1
<1>3. ASSUME NEW t \in T PROVE m <= t
  <2>1. CASE t < m
    BY <1>2, <2>1 DEF OpToRel
  <2>2. QED BY <2>1
<1>4. QED BY <1>3

LEMMA BySize ==
  ASSUME NEW D, NEW size \in [D -> Nat], NEW P \in SUBSET D,
         \A d \in D : (\A c \in D : size[c] < size[d] => c \in P) => d \in P
  PROVE  P = D
<1> SUFFICES ASSUME P # D PROVE FALSE
  OBVIOUS
<1> DEFINE Sizes == {size[d] : d \in D \ P}
<1>1. Sizes \in SUBSET Nat /\ Sizes # {}
  OBVIOUS
<1>2. PICK n \in Sizes : \A t \in Sizes : n <= t
  BY <1>1, LeastOf
<1>3. PICK d \in D \ P : size[d] = n
  OBVIOUS
<1>4. \A c \in D : size[c] < size[d] => c \in P
  <2> TAKE c \in D
  <2> HAVE size[c] < size[d]
  <2> SUFFICES ASSUME c \notin P PROVE FALSE
    OBVIOUS
  <2>1. size[c] \in Sizes
    OBVIOUS
  <2>2. n <= size[c]
    BY <1>2, <2>1
  <2> QED BY <2>2, <1>3
<1> QED BY <1>3, <1>4

Solves(f, D, B) == \A d \in D : f[d] = B[d][f]
SmallerOnly(D, T, size, B) ==
  \A d \in D : \A g, h \in [D -> T] :
    (\A c \in D : size[c] < size[d] => g[c] = h[c]) => B[d][g] = B[d][h]

LEMMA Recursion ==
  ASSUME NEW D, NEW T, T # {}, NEW size \in [D -> Nat], NEW bound \in Nat,
         \A d \in D : size[d] < bound,
         NEW B \in [D -> [[D -> T] -> T]], SmallerOnly(D, T, size, B)
  PROVE  \E f \in [D -> T] : Solves(f, D, B)
<1> DEFINE Upto(n, f) == \A d \in D : size[d] < n => f[d] = B[d][f]
           P == {n \in Nat : \E f \in [D -> T] : Upto(n, f)}
<1>1. \A n \in P : n + 1 \in P
  <2> TAKE n \in P
  <2>1. PICK f \in [D -> T] : Upto(n, f)
    OBVIOUS
  <2> DEFINE g == [d \in D |-> IF size[d] < n THEN f[d] ELSE B[d][f]]
  <2>2. g \in [D -> T]
    OBVIOUS
  <2>3. ASSUME NEW d \in D, size[d] < n + 1 PROVE g[d] = B[d][g]
    <3>1. \A c \in D : size[c] < size[d] => f[c] = g[c]
      <4> TAKE c \in D
      <4> HAVE size[c] < size[d]
      <4>1. size[c] < n
        BY <2>3
      <4> QED BY <4>1
    <3> HIDE DEF g
    <3>2. B[d][f] = B[d][g]
      BY <3>1, <2>2 DEF SmallerOnly
    <3>3. g[d] = B[d][f]
      BY <2>1 DEF g
    <3> QED BY <3>2, <3>3
  <2> HIDE DEF g
  <2>4. Upto(n + 1, g)
    BY <2>3
  <2> QED BY <2>2, <2>4
<1>2. 0 \in P
  <2>1. PICK t \in T : TRUE
    OBVIOUS
  <2>2. [d \in D |-> t] \in [D -> T] /\ Upto(0, [d \in D |-> t])
    OBVIOUS
  <2> QED BY <2>2
<1>3. bound \in P
  <2> HIDE DEF P
  <2> SUFFICES ASSUME bound \notin P PROVE FALSE
    OBVIOUS
  <2>1. Nat \ P \in SUBSET Nat /\ Nat \ P # {}
    OBVIOUS
  <2>2. PICK n \in Nat \ P : \A k \in Nat \ P : n <= k
    BY <2>1, LeastOf
  <2>3. n # 0
    BY <1>2
  <2>4. n - 1 \in P
    BY <2>2, <2>3
  <2>5. (n - 1) + 1 \in P
    BY <2>4, <1>1
  <2> QED BY <2>5
<1>4. PICK f \in [D -> T] : Upto(bound, f)
  BY <1>3
<1>5. Solves(f, D, B)
  BY <1>4 DEF Solves
<1> QED BY <1>4, <1>5

LEMMA UpToEnd ==
  ASSUME NEW n \in Nat, NEW P, 0 \in P, \A i \in 1..n : i - 1 \in P => i \in P
  PROVE  \A i \in 0..n : i \in P
<1> SUFFICES ASSUME NEW k \in 0..n, k \notin P PROVE FALSE
  OBVIOUS
<1> DEFINE Rest == {i \in 0..n : i \notin P}
<1>1. Rest \in SUBSET Nat /\ Rest # {}
  OBVIOUS
<1>2. PICK i \in Rest : \A j \in Rest : i <= j
  <2> HIDE DEF Rest
  <2> QED BY <1>1, LeastOf
<1>3. i \in 1..n /\ i - 1 \in 0..n
  OBVIOUS
<1>4. i - 1 \in P
  BY <1>2, <1>3
<1> QED BY <1>3, <1>4

(* A sequence by its prefixes, as Bumped and FlattenSeq are made. *)
Grown(f, n, b, st) == f[0] = b /\ \A i \in 1..n : f[i] = st[i][f[i - 1]]

LEMMA ByPrefix ==
  ASSUME NEW T, NEW n \in Nat, NEW b \in T, NEW st \in [1..n -> [T -> T]]
  PROVE  \E f \in [0..n -> T] : Grown(f, n, b, st)
<1> DEFINE D == 0..n
           size == [i \in D |-> i]
           B == [i \in D |-> [f \in [D -> T] |-> IF i = 0 THEN b ELSE st[i][f[i - 1]]]]
<1>1. B \in [D -> [[D -> T] -> T]]
  <2> SUFFICES ASSUME NEW i \in D, NEW f \in [D -> T], i # 0 PROVE st[i][f[i - 1]] \in T
    OBVIOUS
  <2>1. i - 1 \in D /\ i \in 1..n
    OBVIOUS
  <2> QED BY <2>1
<1>2. SmallerOnly(D, T, size, B)
  <2> SUFFICES \A i \in D : \A g, h \in [D -> T] :
                 (\A c \in D : size[c] < size[i] => g[c] = h[c]) => B[i][g] = B[i][h]
    BY DEF SmallerOnly
  <2> TAKE i \in D
  <2> TAKE g, h \in [D -> T]
  <2> HAVE \A c \in D : size[c] < size[i] => g[c] = h[c]
  <2>1. i # 0 => i - 1 \in D /\ size[i - 1] < size[i]
    OBVIOUS
  <2> QED BY <2>1
<1>3. size \in [D -> Nat] /\ (\A i \in D : size[i] < n + 1) /\ n + 1 \in Nat /\ T # {}
  OBVIOUS
<1>4. PICK f \in [D -> T] : Solves(f, D, B)
  <2> DEFINE bound == n + 1
  <2>1. bound \in Nat /\ \A i \in D : size[i] < bound
    BY <1>3
  <2> HIDE DEF D, size, B, bound
  <2> QED BY <1>1, <1>2, <1>3, <2>1, Recursion
<1>5. f \in [D -> T] /\ \A i \in D : f[i] = B[i][f]
  BY <1>4 DEF Solves
<1>6. \A i \in D : B[i][f] = IF i = 0 THEN b ELSE st[i][f[i - 1]]
  OBVIOUS
<1>7. Grown(f, n, b, st)
  <2> HIDE DEF B
  <2>1. 0 \in D /\ 0 = 0 /\ \A i \in 1..n : i \in D /\ i # 0
    OBVIOUS
  <2> HIDE DEF D
  <2> QED BY <1>5, <1>6, <2>1 DEF Grown
<1>8. f \in [0..n -> T]
  BY <1>5
<1> HIDE DEF D, size, B
<1> QED BY ONLY <1>7, <1>8

-------------------------------------------------------------------------------
(* Bumped changes seqs only. *)

Raised(e, f) == \E n \in Nat : n >= e.seq /\ f = [e EXCEPT !.seq = n]

LEMMA RaisedTo ==
  ASSUME NEW e, NEW n \in Nat, n >= e.seq
  PROVE  Raised(e, [e EXCEPT !.seq = n])
BY DEF Raised

LEMMA RaisedAppend ==
  ASSUME NEW X, NEW E \in Seq(X), NEW i \in 1..Len(E), NEW done \in Seq(X), Len(done) = i - 1,
         \A j \in 1..(i - 1) : Raised(E[j], done[j]), NEW e \in X, Raised(E[i], e)
  PROVE  /\ Append(done, e) \in Seq(X) /\ Len(Append(done, e)) = i
         /\ \A j \in 1..i : Raised(E[j], Append(done, e)[j])
<1>1. Len(E) \in Nat
  BY LenProperties
<1>2. /\ Append(done, e) \in Seq(X) /\ Len(Append(done, e)) = i
      /\ \A j \in 1..(i - 1) : Append(done, e)[j] = done[j]
      /\ Append(done, e)[i] = e
  BY <1>1, AppendProperties
<1>3. ASSUME NEW j \in 1..i PROVE Raised(E[j], Append(done, e)[j])
  <2>1. CASE j = i
    BY <1>2, <2>1
  <2>2. CASE j # i
    <3>1. j \in 1..(i - 1)
      BY <1>1, <2>2
    <3> QED BY <1>2, <3>1
  <2> QED BY <2>1, <2>2
<1> QED BY <1>2, <1>3

(* The row of an event behind the rows of those before it. *)
BumpRow(E, done, i) ==
  LET lastSeq == IF i = 1 THEN 0 ELSE done[i - 1].seq
  IN IF E[i].seq > lastSeq THEN E[i] ELSE [E[i] EXCEPT !.seq = lastSeq + 1]

LEMMA BumpedIs ==
  ASSUME NEW X, \A e \in X : e.seq \in Nat, \A e \in X : \A n \in Nat : n >= e.seq => [e EXCEPT !.seq = n] \in X,
         \A e \in X : e = [e EXCEPT !.seq = e.seq], NEW E \in Seq(X)
  PROVE  /\ Bumped(E) \in Seq(X) /\ Len(Bumped(E)) = Len(E)
         /\ \A i \in 1..Len(E) : Raised(E[i], Bumped(E)[i])
         /\ cli # "claude" => \A i \in 1..Len(E) : Bumped(E)[i] = BumpRow(E, Bumped(E), i)
<1>0. Len(E) \in Nat /\ \A i \in 1..Len(E) : E[i] \in X
  BY LenProperties, ElementOfSeq
<1>1. CASE cli = "claude"
  <2>1. Bumped(E) = E
    BY <1>1 DEF Bumped
  <2>2. ASSUME NEW i \in 1..Len(E) PROVE Raised(E[i], E[i])
    <3>1. PICK e \in X, n \in Nat : e = E[i] /\ n = e.seq /\ e = [e EXCEPT !.seq = n]
      BY <1>0
    <3>2. n >= e.seq
      BY <3>1
    <3>3. Raised(e, [e EXCEPT !.seq = n])
      BY <3>2, RaisedTo
    <3> QED BY <3>1, <3>3
  <2> QED BY <1>1, <2>1, <2>2
<1>2. CASE cli # "claude"
  <2> DEFINE lastSeq(i, done) == IF i = 1 THEN 0 ELSE done[i - 1].seq
             row(i, done) == IF E[i].seq > lastSeq(i, done) THEN E[i]
                             ELSE [E[i] EXCEPT !.seq = lastSeq(i, done) + 1]
             F(f) == f = [i \in 0..Len(E) |-> IF i = 0 THEN <<>> ELSE Append(f[i - 1], row(i, f[i - 1]))]
             upTo == CHOOSE f : F(f)
             Sofar(i, done) == /\ done \in Seq(X) /\ Len(done) = i
                               /\ \A j \in 1..i : Raised(E[j], done[j])
                               /\ \A j \in 1..i : done[j] = BumpRow(E, done, j)
  <2>1. Bumped(E) = upTo[Len(E)]
    BY <1>2 DEF Bumped
  <2>2. ASSUME NEW i \in 1..Len(E), NEW done, Sofar(i - 1, done)
        PROVE  row(i, done) \in X /\ Raised(E[i], row(i, done)) /\ Sofar(i, Append(done, row(i, done)))
    <3>1. lastSeq(i, done) \in Nat
      <4>1. CASE i = 1
        BY <4>1
      <4>2. CASE i # 1
        <5>1. i - 1 \in 1..Len(done)
          BY <1>0, <2>2, <4>2
        <5>2. done[i - 1] \in X
          BY <2>2, <5>1, ElementOfSeq
        <5> QED BY <4>2, <5>2
      <4> QED BY <4>1, <4>2
    <3>2. row(i, done) \in X /\ Raised(E[i], row(i, done))
      <4> DEFINE l == lastSeq(i, done)
      <4>1. E[i] \in X /\ E[i].seq \in Nat /\ l \in Nat
        BY <1>0, <3>1
      <4> HIDE DEF l
      <4>2. CASE E[i].seq > l
        <5>1. row(i, done) = E[i]
          BY <4>2 DEF l
        <5>2. PICK e \in X, n \in Nat : e = E[i] /\ n = e.seq /\ e = [e EXCEPT !.seq = n]
          BY <4>1
        <5>3. n >= e.seq
          BY <5>2
        <5>4. Raised(e, [e EXCEPT !.seq = n])
          BY <5>3, RaisedTo
        <5> HIDE DEF row
        <5> QED BY <4>1, <5>1, <5>2, <5>4
      <4>3. CASE ~(E[i].seq > l)
        <5>1. row(i, done) = [E[i] EXCEPT !.seq = l + 1]
          BY <4>3 DEF l
        <5>2. PICK e \in X, n \in Nat : e = E[i] /\ n = l + 1 /\ n >= e.seq
          BY <4>1, <4>3
        <5> HIDE DEF row
        <5>3. Raised(e, [e EXCEPT !.seq = n]) /\ [e EXCEPT !.seq = n] \in X
          BY <5>2, RaisedTo
        <5> QED BY <5>1, <5>2, <5>3
      <4> QED BY <4>2, <4>3
    <3>3. row(i, done) = BumpRow(E, done, i)
      BY DEF BumpRow
    <3> DEFINE more == Append(done, row(i, done))
    <3>4. /\ more \in Seq(X) /\ Len(more) = i /\ \A j \in 1..i : Raised(E[j], more[j])
      <4> HIDE DEF row
      <4> QED BY <2>2, <3>2, RaisedAppend
    <3>5. (\A j \in 1..(i - 1) : more[j] = done[j]) /\ more[i] = row(i, done)
      <4> HIDE DEF row
      <4> QED BY <1>0, <2>2, <3>2, AppendProperties
    <3> HIDE DEF more, row
    <3>6. ASSUME NEW j \in 1..i PROVE more[j] = BumpRow(E, more, j)
      <4>1. BumpRow(E, more, j) = BumpRow(E, done, j)
        <5>1. j = 1 \/ j - 1 \in 1..(i - 1)
          BY <1>0
        <5> QED BY <3>5, <5>1 DEF BumpRow
      <4>2. CASE j = i
        BY <3>3, <3>5, <4>1, <4>2
      <4>3. CASE j # i
        <5>1. j \in 1..(i - 1)
          BY <1>0, <4>3
        <5> QED BY <2>2, <3>5, <4>1, <5>1
      <4> QED BY <4>2, <4>3
    <3> QED BY <3>2, <3>4, <3>6 DEF more
  <2>3. ASSUME NEW h, h[0] = <<>>,
               \A i \in 1..Len(E) : Sofar(i - 1, h[i - 1]) => h[i] = Append(h[i - 1], row(i, h[i - 1]))
        PROVE  \A i \in 0..Len(E) : Sofar(i, h[i])
    <3> DEFINE P == {i \in 0..Len(E) : Sofar(i, h[i])}
    <3>1. Sofar(0, h[0])
      BY <2>3, EmptySeq
    <3> HIDE DEF Sofar, row
    <3>2. ASSUME NEW i \in 1..Len(E), i - 1 \in P PROVE i \in P
      <4>1. i - 1 \in 0..Len(E) /\ i \in 0..Len(E) /\ Sofar(i - 1, h[i - 1])
        BY <1>0, <3>2
      <4>2. h[i] = Append(h[i - 1], row(i, h[i - 1]))
        BY <2>3, <4>1
      <4>3. Sofar(i, Append(h[i - 1], row(i, h[i - 1])))
        BY <2>2, <4>1
      <4> QED BY <4>1, <4>2, <4>3
    <3>3. 0 \in P
      BY <3>1, <1>0
    <3>4. \A i \in 0..Len(E) : i \in P
      <4> HIDE DEF P
      <4> QED BY <1>0, <3>2, <3>3, UpToEnd
    <3> QED BY <3>4
  <2>4. \E f : F(f)
    <3> DEFINE T == Seq(X)
               st == [i \in 1..Len(E) |-> [done \in T |->
                        IF row(i, done) \in X THEN Append(done, row(i, done)) ELSE <<>>]]
    <3>1. <<>> \in T /\ st \in [1..Len(E) -> [T -> T]]
      <4> HIDE DEF row
      <4> QED BY EmptySeq, AppendProperties
    <3>2. PICK f \in [0..Len(E) -> T] : Grown(f, Len(E), <<>>, st)
      <4> DEFINE b == <<>>
      <4>1. b \in T
        BY <3>1
      <4> HIDE DEF st, T, b
      <4>2. \E f \in [0..Len(E) -> T] : Grown(f, Len(E), b, st)
        BY <1>0, <3>1, <4>1, ByPrefix
      <4> QED BY <4>2 DEF b
    <3>3. \A i \in 1..Len(E) : f[i - 1] \in T /\
            f[i] = IF row(i, f[i - 1]) \in X THEN Append(f[i - 1], row(i, f[i - 1])) ELSE <<>>
      <4> HIDE DEF row
      <4>1. ASSUME NEW i \in 1..Len(E) PROVE f[i - 1] \in T /\ f[i] = st[i][f[i - 1]]
        <5>1. i - 1 \in 0..Len(E)
          BY <1>0
        <5> QED BY <3>2, <5>1 DEF Grown
      <4> QED BY <4>1
    <3> HIDE DEF row, T, st
    <3>4. \A i \in 1..Len(E) : Sofar(i - 1, f[i - 1]) => f[i] = Append(f[i - 1], row(i, f[i - 1]))
      <4> HIDE DEF Sofar
      <4> QED BY <2>2, <3>3
    <3>5. f[0] = <<>>
      BY <3>2 DEF Grown
    <3>6. \A i \in 0..Len(E) : Sofar(i, f[i])
      <4> HIDE DEF Sofar
      <4> QED BY <2>3, <3>4, <3>5
    <3>7. ASSUME NEW i \in 1..Len(E) PROVE f[i] = Append(f[i - 1], row(i, f[i - 1]))
      <4> HIDE DEF Sofar
      <4> QED BY <1>0, <3>4, <3>6
    <3>8. F(f)
      BY <1>0, <3>2, <3>5, <3>7
    <3> QED BY <3>8
  <2>5. F(upTo)
    <3> HIDE DEF F
    <3> QED BY <2>4
  <2>6. Sofar(Len(E), upTo[Len(E)])
    <3> HIDE DEF upTo, row
    <3>1. upTo[0] = <<>> /\ \A i \in 1..Len(E) : upTo[i] = Append(upTo[i - 1], row(i, upTo[i - 1]))
      <4>1. DOMAIN upTo = 0..Len(E) /\ \A i \in 0..Len(E) : upTo[i] =
                IF i = 0 THEN <<>> ELSE Append(upTo[i - 1], row(i, upTo[i - 1]))
        BY <2>5
      <4>2. 0 \in 0..Len(E) /\ \A i \in 1..Len(E) : i \in 0..Len(E) /\ i # 0
        BY <1>0
      <4> QED BY <4>1, <4>2
    <3> HIDE DEF Sofar
    <3> QED BY <1>0, <2>3, <3>1
  <2> HIDE DEF upTo
  <2> QED BY <2>1, <2>6
<1> QED BY <1>1, <1>2

-------------------------------------------------------------------------------
(* FlattenSeq has the elements of the sequences it is made of, in their      *)
(* order.                                                                    *)

From(s, k, q, i) == \E j \in 1..Len(q[i]) : s[k] = q[i][j]

Flat(s, q, n) ==
  /\ \A i \in 1..n : \A j \in 1..Len(q[i]) : \E k \in 1..Len(s) : s[k] = q[i][j]
  /\ \A k \in 1..Len(s) : \E i \in 1..n : \E j \in 1..Len(q[i]) : s[k] = q[i][j]
  /\ \A k, l \in 1..Len(s) : k < l =>
       \E i, j \in 1..n : i <= j /\ From(s, k, q, i) /\ From(s, l, q, j)

LEMMA FlatConcat ==
  ASSUME NEW X, NEW q \in Seq(Seq(X)), NEW n \in 1..Len(q), NEW s \in Seq(X), Flat(s, q, n - 1)
  PROVE  s \o q[n] \in Seq(X) /\ Flat(s \o q[n], q, n)
<1> DEFINE t == s \o q[n]
<1>1. q[n] \in Seq(X) /\ Len(q[n]) \in Nat /\ Len(s) \in Nat /\ Len(q) \in Nat
  BY ElementOfSeq, LenProperties
<1>2. /\ t \in Seq(X) /\ Len(t) = Len(s) + Len(q[n])
      /\ \A i \in 1..Len(s) + Len(q[n]) : t[i] = IF i <= Len(s) THEN s[i] ELSE q[n][i - Len(s)]
  BY <1>1, ConcatProperties
<1> HIDE DEF t
<1>3. ASSUME NEW i \in 1..n, NEW j \in 1..Len(q[i]) PROVE \E k \in 1..Len(t) : t[k] = q[i][j]
  <2>1. CASE i = n
    <3>1. PICK a \in Nat, b \in Nat : a = Len(s) /\ b = Len(q[n])
      BY <1>1
    <3>2. j \in 1..b
      BY <2>1, <3>1
    <3>3. j + a \in 1..(a + b) /\ ~(j + a <= a) /\ (j + a) - a = j
      BY <3>2
    <3>4. j + a \in 1..Len(t) /\ t[j + a] = q[n][j]
      BY <1>2, <3>1, <3>3
    <3> QED BY <2>1, <3>4
  <2>2. CASE i # n
    <3>1. i \in 1..(n - 1)
      BY <1>1, <2>2
    <3>2. PICK k \in 1..Len(s) : s[k] = q[i][j]
      BY <3>1 DEF Flat
    <3>3. PICK a \in Nat, b \in Nat : a = Len(s) /\ b = Len(q[n])
      BY <1>1
    <3>4. k \in 1..(a + b) /\ k <= a
      BY <3>3
    <3>5. k \in 1..Len(t) /\ t[k] = s[k]
      BY <1>2, <3>3, <3>4
    <3> QED BY <3>2, <3>5
  <2> QED BY <2>1, <2>2
<1>4. ASSUME NEW k \in 1..Len(t) PROVE \E i \in 1..n : \E j \in 1..Len(q[i]) : t[k] = q[i][j]
  <2>1. CASE k <= Len(s)
    <3>1. k \in 1..Len(s) /\ t[k] = s[k]
      BY <1>1, <1>2, <2>1
    <3>2. PICK i \in 1..(n - 1) : \E j \in 1..Len(q[i]) : s[k] = q[i][j]
      BY <3>1 DEF Flat
    <3>3. i \in 1..n
      BY <1>1
    <3> QED BY <3>1, <3>2, <3>3
  <2>2. CASE ~(k <= Len(s))
    <3>a. PICK a \in Nat, b \in Nat : a = Len(s) /\ b = Len(q[n])
      BY <1>1
    <3>b. k \in 1..(a + b) /\ ~(k <= a)
      BY <1>2, <2>2, <3>a
    <3>c. k - a \in 1..b
      BY <3>b
    <3>d. t[k] = q[n][k - a]
      BY <1>2, <3>a, <3>b
    <3>1. k - Len(s) \in 1..Len(q[n]) /\ t[k] = q[n][k - Len(s)]
      BY <3>a, <3>c, <3>d
    <3>2. n \in 1..n
      BY <1>1
    <3> QED BY <3>1, <3>2
  <2> QED BY <2>1, <2>2
<1>5. n \in 1..n /\ \A i \in 1..(n - 1) : i \in 1..n /\ i <= n
  BY <1>1
<1>6. \A k \in 1..Len(t) : k <= Len(s) => k \in 1..Len(s) /\ t[k] = s[k]
  BY <1>1, <1>2
<1>7. ASSUME NEW k \in 1..Len(t), ~(k <= Len(s)) PROVE From(t, k, q, n)
  <2>1. k - Len(s) \in 1..Len(q[n]) /\ t[k] = q[n][k - Len(s)]
    BY <1>1, <1>2, <1>7
  <2> QED BY <2>1 DEF From
<1>8. ASSUME NEW k \in 1..Len(t), NEW l \in 1..Len(t), k < l
      PROVE  \E i, j \in 1..n : i <= j /\ From(t, k, q, i) /\ From(t, l, q, j)
  <2>0. n <= n /\ (l <= Len(s) => k <= Len(s))
    BY <1>1, <1>2, <1>8
  <2>1. CASE l <= Len(s)
    <3>1. k \in 1..Len(s) /\ l \in 1..Len(s) /\ t[k] = s[k] /\ t[l] = s[l]
      BY <1>6, <2>0, <2>1
    <3>2. PICK i \in 1..(n - 1), j \in 1..(n - 1) : i <= j /\ From(s, k, q, i) /\ From(s, l, q, j)
      BY <1>8, <3>1 DEF Flat
    <3>3. From(t, k, q, i) /\ From(t, l, q, j)
      BY <3>1, <3>2 DEF From
    <3> QED BY <1>5, <3>2, <3>3
  <2>2. CASE k <= Len(s) /\ ~(l <= Len(s))
    <3>1. k \in 1..Len(s) /\ t[k] = s[k]
      BY <1>6, <2>2
    <3>2. PICK i \in 1..(n - 1) : From(s, k, q, i)
      BY <3>1 DEF Flat, From
    <3>3. From(t, k, q, i) /\ From(t, l, q, n)
      BY <1>7, <2>2, <3>1, <3>2 DEF From
    <3> QED BY <1>5, <3>3
  <2>3. CASE ~(k <= Len(s))
    <3>1. From(t, k, q, n) /\ From(t, l, q, n)
      BY <1>7, <2>0, <2>3
    <3> QED BY <1>5, <2>0, <3>1
  <2> QED BY <2>1, <2>2, <2>3
<1>9. Flat(t, q, n)
  BY <1>3, <1>4, <1>8 DEF Flat
<1> QED BY <1>2, <1>9 DEF t

LEMMA FlattenBy ==
  ASSUME NEW X, NEW q \in Seq(Seq(X)), NEW P \in [0..Len(q) -> SUBSET Seq(X)], <<>> \in P[0],
         \A i \in 1..Len(q) : \A s \in P[i - 1] : s \o q[i] \in P[i]
  PROVE  FlattenSeq(q) \in P[Len(q)]
<1>0. /\ Len(q) \in Nat /\ \A i \in 1..Len(q) : q[i] \in Seq(X) /\ i - 1 \in 0..Len(q)
      /\ <<>> \in Seq(X)
  BY LenProperties, ElementOfSeq, EmptySeq
<1>1. CASE Len(q) = 0
  <2>1. FlattenSeq(q) = q /\ q = <<>>
    BY <1>1, EmptySeq DEF FlattenSeq
  <2> QED BY <1>1, <2>1
<1>2. CASE Len(q) # 0
  <2> DEFINE F(f) == f = [i \in 1..Len(q) |-> IF i = 1 THEN q[i] ELSE f[i - 1] \o q[i]]
             flatten == CHOOSE f : F(f)
  <2>1. FlattenSeq(q) = flatten[Len(q)]
    BY <1>2 DEF FlattenSeq
  <2>2. \E f : F(f)
    <3> DEFINE T == Seq(X)
               b == <<>>
               st == [i \in 1..Len(q) |-> [s \in T |-> IF i = 1 THEN q[i] ELSE s \o q[i]]]
    <3>1. b \in T /\ st \in [1..Len(q) -> [T -> T]]
      BY <1>0, ConcatProperties
    <3>2. PICK f \in [0..Len(q) -> T] : Grown(f, Len(q), b, st)
      <4> HIDE DEF st, T, b
      <4> QED BY <1>0, <3>1, ByPrefix
    <3> DEFINE g == [i \in 1..Len(q) |-> f[i]]
    <3>3. ASSUME NEW i \in 1..Len(q) PROVE f[i] = IF i = 1 THEN q[i] ELSE f[i - 1] \o q[i]
      <4>1. i - 1 \in 0..Len(q)
        BY <1>0
      <4>2. f[i - 1] \in T /\ f[i] = st[i][f[i - 1]]
        BY <3>2, <4>1 DEF Grown
      <4> QED BY <4>2
    <3> HIDE DEF T, b, st
    <3>4. ASSUME NEW i \in 1..Len(q), i # 1 PROVE g[i - 1] = f[i - 1]
      BY <1>0, <3>4
    <3>5. g = [i \in 1..Len(q) |-> IF i = 1 THEN q[i] ELSE g[i - 1] \o q[i]]
      BY <3>3, <3>4
    <3> HIDE DEF g
    <3> QED BY <3>5
  <2>3. F(flatten)
    <3> HIDE DEF F
    <3> QED BY <2>2
  <2>4. \A i \in 1..Len(q) : flatten[i] \in P[i]
    <3> HIDE DEF flatten
    <3> DEFINE G == {i \in 0..Len(q) : i = 0 \/ flatten[i] \in P[i]}
    <3>1. \A i \in 1..Len(q) : flatten[i] = IF i = 1 THEN q[i] ELSE flatten[i - 1] \o q[i]
      BY <2>3
    <3>2. ASSUME NEW i \in 1..Len(q), i - 1 \in G PROVE i \in G
      <4>1. CASE i = 1
        <5>1. flatten[i] = <<>> \o q[i]
          BY <1>0, <3>1, <4>1, ConcatEmptySeq
        <5>2. i - 1 = 0
          BY <4>1
        <5>3. <<>> \o q[i] \in P[i]
          BY <5>2
        <5> QED BY <1>0, <5>1, <5>3
      <4>2. CASE i # 1
        <5>1. flatten[i - 1] \in P[i - 1]
          BY <1>0, <3>2, <4>2
        <5>2. flatten[i - 1] \o q[i] \in P[i]
          BY <5>1
        <5>3. flatten[i] = flatten[i - 1] \o q[i]
          <6> HIDE DEF F, G
          <6> QED BY <3>1, <4>2
        <5>4. i \in 0..Len(q)
          BY <1>0
        <5> QED BY <5>2, <5>3, <5>4
      <4> QED BY <4>1, <4>2
    <3>3. 0 \in G
      BY <1>0
    <3>4. \A i \in 0..Len(q) : i \in G
      <4> HIDE DEF G
      <4> QED BY <1>0, <3>2, <3>3, UpToEnd
    <3> QED BY <1>0, <3>4
  <2> HIDE DEF flatten, F
  <2>5. Len(q) \in 1..Len(q)
    BY <1>0, <1>2
  <2>6. flatten[Len(q)] \in P[Len(q)]
    BY <2>4, <2>5
  <2> QED BY <2>1, <2>6
<1> QED BY <1>1, <1>2

LEMMA FlattenIs ==
  ASSUME NEW X, NEW q \in Seq(Seq(X))
  PROVE  FlattenSeq(q) \in Seq(X) /\ Flat(FlattenSeq(q), q, Len(q))
<1> DEFINE P == [i \in 0..Len(q) |-> {s \in Seq(X) : Flat(s, q, i)}]
<1>0. Len(q) \in Nat
  BY LenProperties
<1>1. P \in [0..Len(q) -> SUBSET Seq(X)]
  OBVIOUS
<1>2. <<>> \in P[0]
  <2>1. <<>> \in Seq(X) /\ Len(<<>>) = 0
    BY EmptySeq
  <2> QED BY <1>0, <2>1 DEF Flat
<1>3. ASSUME NEW i \in 1..Len(q), NEW s \in P[i - 1] PROVE s \o q[i] \in P[i]
  <2>1. i - 1 \in 0..Len(q) /\ i \in 0..Len(q)
    BY <1>0
  <2>2. s \in Seq(X) /\ Flat(s, q, i - 1)
    BY <2>1
  <2> QED BY <2>1, <2>2, FlatConcat
<1> HIDE DEF P
<1>4. FlattenSeq(q) \in P[Len(q)]
  BY <1>1, <1>2, <1>3, FlattenBy
<1> QED BY <1>0, <1>4 DEF P

(* Where the segments are at most one element each, the place of the last    *)
(* one up to each segment.                                                   *)
Counts(s, q, c, n) ==
  /\ c[0] = 0 /\ c[n] = Len(s)
  /\ \A i \in 1..n : IF q[i] = <<>> THEN c[i] = c[i - 1]
                    ELSE c[i] = c[i - 1] + 1 /\ c[i] \in 1..Len(s) /\ s[c[i]] = q[i][1]

LEMMA CountConcat ==
  ASSUME NEW X, NEW q \in Seq(Seq(X)), NEW n \in 1..Len(q), Len(q[n]) \in {0, 1},
         NEW s \in Seq(X), NEW c \in [0..(n - 1) -> Nat], Counts(s, q, c, n - 1)
  PROVE  /\ s \o q[n] \in Seq(X)
         /\ \E d \in [0..n -> Nat] : Counts(s \o q[n], q, d, n)
<1> DEFINE t == s \o q[n]
           d == [i \in 0..n |-> IF i = n THEN Len(t) ELSE c[i]]
<1>1. /\ q[n] \in Seq(X) /\ Len(q) \in Nat /\ Len(s) \in Nat /\ Len(q[n]) \in Nat
      /\ q[n] = <<>> <=> Len(q[n]) = 0
  BY ElementOfSeq, LenProperties, EmptySeq
<1>2. /\ t \in Seq(X) /\ Len(t) = Len(s) + Len(q[n]) /\ Len(t) \in Nat
      /\ \A i \in 1..Len(s) + Len(q[n]) : t[i] = IF i <= Len(s) THEN s[i] ELSE q[n][i - Len(s)]
  BY <1>1, ConcatProperties, LenProperties
<1> HIDE DEF t
<1>3. /\ d \in [0..n -> Nat] /\ d[n] = Len(t) /\ d[0] = 0
      /\ \A i \in 0..(n - 1) : d[i] = c[i]
  <2>1. n \in Nat /\ n # 0 /\ 0 \in 0..(n - 1) /\ \A i \in 0..(n - 1) : i # n /\ i \in 0..n
    BY <1>1
  <2> QED BY <1>2, <2>1 DEF Counts
<1> HIDE DEF d
<1>4. c[n - 1] = Len(s) /\ n - 1 \in 0..(n - 1) /\ c[0] = 0
  BY <1>1 DEF Counts
<1>5. ASSUME NEW i \in 1..n
      PROVE  IF q[i] = <<>> THEN d[i] = d[i - 1]
             ELSE d[i] = d[i - 1] + 1 /\ d[i] \in 1..Len(t) /\ t[d[i]] = q[i][1]
  <2>1. CASE i = n
    <3>1. d[i - 1] = Len(s)
      BY <1>3, <1>4, <2>1
    <3>2. CASE q[n] = <<>>
      BY <1>1, <1>2, <1>3, <2>1, <3>1, <3>2
    <3>3. CASE q[n] # <<>>
      <4>1. Len(q[n]) = 1
        BY <1>1, <3>3
      <4>2. PICK a \in Nat : a = Len(s)
        BY <1>1
      <4>3. Len(t) = a + 1 /\ a + 1 \in 1..(a + 1) /\ ~(a + 1 <= a) /\ (a + 1) - a = 1
        BY <1>2, <4>1, <4>2
      <4>4. t[a + 1] = IF a + 1 <= a THEN s[a + 1] ELSE q[n][(a + 1) - a]
        BY <1>2, <4>1, <4>2, <4>3
      <4>5. t[a + 1] = q[n][1]
        BY <4>3, <4>4
      <4> QED BY <1>3, <2>1, <3>1, <3>3, <4>2, <4>3, <4>5
    <3> QED BY <3>2, <3>3
  <2>2. CASE i # n
    <3>1. i \in 1..(n - 1) /\ i - 1 \in 0..(n - 1) /\ i \in 0..(n - 1)
      BY <1>1, <2>2
    <3>2. d[i] = c[i] /\ d[i - 1] = c[i - 1]
      BY <1>3, <3>1
    <3>3. ASSUME c[i] \in 1..Len(s) PROVE c[i] \in 1..Len(t) /\ t[c[i]] = s[c[i]]
      <4>1. PICK a \in Nat, b \in Nat, k \in Nat : a = Len(s) /\ b = Len(q[n]) /\ k = c[i]
        BY <1>1, <3>3
      <4>2. k \in 1..(a + b) /\ k <= a
        BY <3>3, <4>1
      <4>3. t[k] = IF k <= a THEN s[k] ELSE q[n][k - a]
        BY <1>2, <4>1, <4>2
      <4> QED BY <1>2, <4>1, <4>2, <4>3
    <3> QED BY <3>1, <3>2, <3>3 DEF Counts
  <2> QED BY <2>1, <2>2
<1>6. Counts(t, q, d, n)
  BY <1>3, <1>5 DEF Counts
<1> QED BY <1>2, <1>3, <1>6 DEF t

LEMMA FlattenShort ==
  ASSUME NEW X, NEW q \in Seq(Seq(X)), \A i \in 1..Len(q) : Len(q[i]) \in {0, 1}
  PROVE  /\ FlattenSeq(q) \in Seq(X)
         /\ \E c \in [0..Len(q) -> Nat] : Counts(FlattenSeq(q), q, c, Len(q))
<1> DEFINE P == [i \in 0..Len(q) |-> {s \in Seq(X) : \E c \in [0..i -> Nat] : Counts(s, q, c, i)}]
<1>0. Len(q) \in Nat
  BY LenProperties
<1>1. P \in [0..Len(q) -> SUBSET Seq(X)]
  OBVIOUS
<1>2. <<>> \in P[0]
  <2>1. <<>> \in Seq(X) /\ Len(<<>>) = 0
    BY EmptySeq
  <2> DEFINE c == [i \in 0..0 |-> 0]
  <2>2. c \in [0..0 -> Nat] /\ c[0] = 0
    OBVIOUS
  <2> HIDE DEF c
  <2>3. Counts(<<>>, q, c, 0)
    BY <2>1, <2>2 DEF Counts
  <2> QED BY <1>0, <2>1, <2>2, <2>3
<1>3. ASSUME NEW i \in 1..Len(q), NEW s \in P[i - 1] PROVE s \o q[i] \in P[i]
  <2>1. i - 1 \in 0..Len(q) /\ i \in 0..Len(q)
    BY <1>0
  <2>2. s \in Seq(X) /\ \E c \in [0..(i - 1) -> Nat] : Counts(s, q, c, i - 1)
    BY <2>1
  <2>3. /\ s \o q[i] \in Seq(X)
        /\ \E d \in [0..i -> Nat] : Counts(s \o q[i], q, d, i)
    BY <2>2, CountConcat
  <2> QED BY <2>1, <2>3
<1> HIDE DEF P
<1>4. FlattenSeq(q) \in P[Len(q)]
  BY <1>1, <1>2, <1>3, FlattenBy
<1> QED BY <1>0, <1>4 DEF P

-------------------------------------------------------------------------------
(* The order of rows: total on rows with keys of their own, so a finite set  *)
(* of them has a first.                                                      *)

Keyed(S) ==
  /\ IsFiniteSet(S)
  /\ \A e \in S : e.key \in EventKeys /\ e.seq \in Nat
  /\ \A a, b \in S : a.key = b.key => a = b

LEMMA KeyedSubset == ASSUME NEW S, Keyed(S), NEW R \in SUBSET S PROVE Keyed(R)
  BY FS_Subset DEF Keyed

LEMMA RankIs ==
  ASSUME NEW a \in EventKeys, NEW b \in EventKeys
  PROVE  /\ Rank(a)[1] \in Nat /\ Rank(a)[2] \in Nat
         /\ Rank(a)[1] = Rank(b)[1] /\ Rank(a)[2] = Rank(b)[2] => a = b
<1> DEFINE K == {"user", "text", "call", "result", "note"}
<1>1. ASSUME NEW k \in EventKeys
      PROVE  \/ k = <<"start", 0>> \/ k = <<"end", 0>>
             \/ \E s \in K, n \in Nat : k = <<s, n>>
  BY DEF EventKeys, StartKey, EndKey
<1>2. ASSUME NEW k \in EventKeys
      PROVE  /\ k = <<k[1], k[2]>> /\ k[1] \in K \cup {"start", "end"} /\ k[2] \in Nat
             /\ k[1] \in {"start", "end"} => k[2] = 0
  BY <1>1
<1>3. ASSUME NEW k \in EventKeys
      PROVE  /\ Rank(k)[2] = k[2]
             /\ Rank(k)[1] = CASE k[1] = "start" -> 0 [] k[1] = "end" -> 9 [] k[1] = "user" -> 1
                                [] k[1] = "text" -> 2 [] k[1] = "call" -> 3 [] k[1] = "result" -> 4 [] OTHER -> 5
  BY <1>2 DEF Rank
<1> HIDE DEF K
<1>4. Rank(a)[1] \in Nat /\ Rank(a)[2] \in Nat
  BY <1>2, <1>3 DEF K
<1>5. ASSUME Rank(a)[1] = Rank(b)[1], Rank(a)[2] = Rank(b)[2] PROVE a = b
  <2>1. a[2] = b[2]
    BY <1>3, <1>5
  <2>2. a[1] = b[1]
    BY <1>2, <1>3, <1>5 DEF K
  <2> QED BY <1>2, <2>1, <2>2
<1> QED BY <1>4, <1>5

(* One of the two ways in which rows of one seq sort. *)
Sooner(a, b) == IF flip THEN Earlier(Rank(b.key), Rank(a.key)) ELSE Earlier(Rank(a.key), Rank(b.key))

LEMMA PrecedesIs ==
  ASSUME flip \in BOOLEAN, NEW S, Keyed(S), NEW a \in S, NEW b \in S
  PROVE  Precedes(a, b) <=> a.seq < b.seq \/ (a.seq = b.seq /\ Sooner(a, b))
<1>1. a.key \in EventKeys /\ b.key \in EventKeys /\ (a.key = b.key => a = b)
  BY DEF Keyed
<1> DEFINE r == Rank(a.key)
           q == Rank(b.key)
<1>2. r[1] \in Nat /\ r[2] \in Nat /\ q[1] \in Nat /\ q[2] \in Nat /\ (r[1] = q[1] /\ r[2] = q[2] => a = b)
  BY <1>1, RankIs
<1>3. Earlier(r, q) \in BOOLEAN /\ Earlier(q, r) \in BOOLEAN
  BY DEF Earlier
<1>4. a = b => ~Earlier(r, q) /\ ~Earlier(q, r)
  <2> HAVE a = b
  <2>1. r = q
    OBVIOUS
  <2> HIDE DEF r, q
  <2> QED BY <1>2, <2>1 DEF Earlier
<1>5. a # b => (Earlier(r, q) <=> ~Earlier(q, r))
  <2> HIDE DEF r, q
  <2> QED BY <1>2 DEF Earlier
<1>6. (a # b /\ (Earlier(r, q) # flip)) <=> IF flip THEN Earlier(q, r) ELSE Earlier(r, q)
  <2> HIDE DEF r, q
  <2>1. CASE flip = TRUE
    BY <1>3, <1>4, <1>5, <2>1
  <2>2. CASE flip = FALSE
    BY <1>3, <1>4, <1>5, <2>2
  <2> QED BY <2>1, <2>2
<1> QED BY <1>6 DEF Precedes, Sooner

LEMMA PrecedesOrders ==
  ASSUME flip \in BOOLEAN, NEW S, Keyed(S), NEW a \in S, NEW b \in S
  PROVE  /\ a # b => Precedes(a, b) \/ Precedes(b, a)
         /\ Precedes(a, b) => a # b
         /\ \A c \in S : Precedes(a, b) /\ Precedes(b, c) => Precedes(a, c)
<1>1. ASSUME NEW e \in S
      PROVE  e.seq \in Nat /\ Rank(e.key)[1] \in Nat /\ Rank(e.key)[2] \in Nat
  BY RankIs DEF Keyed
<1>2. ASSUME NEW d \in S, NEW e \in S, d # e
      PROVE  ~(Rank(d.key)[1] = Rank(e.key)[1] /\ Rank(d.key)[2] = Rank(e.key)[2])
  <2>1. d.key \in EventKeys /\ e.key \in EventKeys /\ d.key # e.key
    BY <1>2 DEF Keyed
  <2> QED BY <2>1, RankIs
<1>3. a # b => Precedes(a, b) \/ Precedes(b, a)
  <2> HAVE a # b
  <2>1. Sooner(a, b) \/ Sooner(b, a)
    BY <1>1, <1>2 DEF Sooner, Earlier
  <2>2. a.seq < b.seq \/ b.seq < a.seq \/ a.seq = b.seq
    BY <1>1
  <2> QED BY <2>1, <2>2, PrecedesIs
<1>4. Precedes(a, b) => a # b
  <2>1. ~(a.seq < a.seq) /\ ~Sooner(a, a)
    BY <1>1 DEF Sooner, Earlier
  <2> QED BY <2>1, PrecedesIs
<1>5. ASSUME NEW c \in S, Precedes(a, b), Precedes(b, c) PROVE Precedes(a, c)
  <2>1. Sooner(a, b) /\ Sooner(b, c) => Sooner(a, c)
    BY <1>1 DEF Sooner, Earlier
  <2>2. a.seq < b.seq \/ (a.seq = b.seq /\ Sooner(a, b))
    BY <1>5, PrecedesIs
  <2>3. b.seq < c.seq \/ (b.seq = c.seq /\ Sooner(b, c))
    BY <1>5, PrecedesIs
  <2>4. a.seq < c.seq \/ (a.seq = c.seq /\ Sooner(a, c))
    BY <1>1, <2>1, <2>2, <2>3
  <2> QED BY <2>4, PrecedesIs
<1> QED BY <1>3, <1>4, <1>5

IsFirst(e, R) == e \in R /\ \A d \in R \ {e} : Precedes(e, d)

LEMMA FirstOf ==
  ASSUME flip \in BOOLEAN, NEW S, Keyed(S), S # {}
  PROVE  \E e \in S : IsFirst(e, S)
<1> DEFINE NoFirst(R) == R # {} /\ ~\E e \in R : IsFirst(e, R)
           Sizes == {Cardinality(R) : R \in {Q \in SUBSET S : NoFirst(Q)}}
<1> SUFFICES ASSUME NoFirst(S) PROVE FALSE
  OBVIOUS
<1>1. ASSUME NEW R \in SUBSET S PROVE IsFiniteSet(R) /\ Cardinality(R) \in Nat
  BY FS_Subset, FS_CardinalityType DEF Keyed
<1>2. Sizes \in SUBSET Nat /\ Sizes # {}
  <2> HIDE DEF NoFirst
  <2> QED BY <1>1
<1>3. PICK n \in Sizes : \A k \in Sizes : n <= k
  <2> HIDE DEF Sizes
  <2> QED BY <1>2, LeastOf
<1>4. PICK R \in SUBSET S : NoFirst(R) /\ Cardinality(R) = n
  <2> HIDE DEF NoFirst
  <2> QED OBVIOUS
<1>5. PICK x \in R : TRUE
  BY <1>4
<1> DEFINE Q == R \ {x}
<1>6. Q \in SUBSET S /\ Cardinality(Q) = n - 1 /\ n \in Nat
  BY <1>1, <1>4, <1>5, FS_RemoveElement
<1>7. ~NoFirst(Q)
  <2> HIDE DEF NoFirst
  <2> SUFFICES ASSUME NoFirst(Q) PROVE FALSE
    OBVIOUS
  <2>1. Cardinality(Q) \in Sizes
    BY <1>6
  <2>2. n <= n - 1
    BY <1>3, <1>6, <2>1
  <2> QED BY <1>6, <2>2
<1>8. CASE Q = {}
  <2>1. IsFirst(x, R)
    BY <1>5, <1>8 DEF IsFirst
  <2> QED BY <1>4, <1>5, <2>1
<1>9. CASE Q # {}
  <2>1. PICK e \in Q : IsFirst(e, Q)
    BY <1>7, <1>9
  <2>2. x # e /\ e \in S /\ x \in S /\ \A d \in Q \ {e} : Precedes(e, d) /\ d \in S
    BY <1>4, <1>5, <2>1 DEF IsFirst
  <2>3. CASE Precedes(e, x)
    <3>1. IsFirst(e, R)
      BY <2>1, <2>2, <2>3 DEF IsFirst
    <3> QED BY <1>4, <2>1, <3>1
  <2>4. CASE Precedes(x, e)
    <3>1. \A d \in Q : Precedes(x, d)
      <4> TAKE d \in Q
      <4>1. CASE d = e
        BY <2>4, <4>1
      <4>2. CASE d # e
        BY <2>2, <2>4, <4>2, PrecedesOrders
      <4> QED BY <4>1, <4>2
    <3>2. IsFirst(x, R)
      BY <1>5, <3>1 DEF IsFirst
    <3> QED BY <1>4, <1>5, <3>2
  <2> QED BY <2>2, <2>3, <2>4, PrecedesOrders
<1> QED BY <1>8, <1>9

-------------------------------------------------------------------------------
(* The table in the order of the rows. *)

InRow(s, R) ==
  /\ s \in Seq(R)
  /\ \A e \in R : \E k \in 1..Len(s) : s[k] = e
  /\ \A i, j \in 1..Len(s) : i < j => Precedes(s[i], s[j])

LEMMA RowCons ==
  ASSUME NEW R, NEW e, IsFirst(e, R), NEW t, InRow(t, R \ {e})
  PROVE  InRow(<<e>> \o t, R)
<1> DEFINE s == <<e>> \o t
<1>1. e \in R /\ t \in Seq(R \ {e}) /\ t \in Seq(R) /\ Len(t) \in Nat
  BY LenProperties, SeqMonotonic DEF IsFirst, InRow
<1>2. <<e>> \in Seq(R) /\ Len(<<e>>) = 1 /\ <<e>>[1] = e
  BY <1>1
<1>3. /\ s \in Seq(R) /\ Len(s) = 1 + Len(t)
      /\ \A i \in 1..1 + Len(t) : s[i] = IF i <= 1 THEN <<e>>[i] ELSE t[i - 1]
  BY <1>1, <1>2, ConcatProperties
<1> HIDE DEF s
<1>4. s[1] = e /\ 1 \in 1..Len(s)
  BY <1>1, <1>2, <1>3
<1>5. ASSUME NEW k \in 1..Len(t) PROVE k + 1 \in 1..Len(s) /\ s[k + 1] = t[k] /\ t[k] \in R \ {e}
  <2>1. k + 1 \in 1..1 + Len(t) /\ ~(k + 1 <= 1) /\ (k + 1) - 1 = k
    BY <1>1
  <2>2. t[k] \in R \ {e}
    BY <1>1, ElementOfSeq
  <2> QED BY <1>3, <2>1, <2>2
<1>6. ASSUME NEW d \in R PROVE \E k \in 1..Len(s) : s[k] = d
  <2>1. CASE d = e
    BY <1>4, <2>1
  <2>2. CASE d # e
    <3>1. PICK k \in 1..Len(t) : t[k] = d
      BY <2>2 DEF InRow
    <3> QED BY <1>5, <3>1
  <2> QED BY <2>1, <2>2
<1>7. ASSUME NEW i \in 1..Len(s), NEW j \in 1..Len(s), i < j PROVE Precedes(s[i], s[j])
  <2>1. j - 1 \in 1..Len(t) /\ s[j] = t[j - 1] /\ t[j - 1] \in R \ {e}
    <3>1. j - 1 \in 1..Len(t) /\ (j - 1) + 1 = j
      BY <1>1, <1>3, <1>7
    <3> QED BY <1>5, <3>1
  <2>2. CASE i = 1
    BY <1>4, <2>1, <2>2 DEF IsFirst
  <2>3. CASE i # 1
    <3>1. i - 1 \in 1..Len(t) /\ (i - 1) + 1 = i /\ i - 1 < j - 1
      BY <1>1, <1>3, <1>7, <2>3
    <3>2. s[i] = t[i - 1]
      BY <1>5, <3>1
    <3>3. Precedes(t[i - 1], t[j - 1])
      BY <2>1, <3>1 DEF InRow
    <3> QED BY <2>1, <3>2, <3>3
  <2> QED BY <2>2, <2>3
<1>8. InRow(s, R)
  BY <1>3, <1>6, <1>7 DEF InRow
<1> QED BY <1>8 DEF s

LEMMA SortedIs ==
  ASSUME flip \in BOOLEAN, NEW S, Keyed(S)
  PROVE  InRow(Sorted(S), S)
<1> DEFINE first(R) == CHOOSE e \in R : \A d \in R \ {e} : Precedes(e, d)
           F(f) == f = [R \in SUBSET S |->
                          IF R = {} THEN <<>> ELSE <<first(R)>> \o f[R \ {first(R)}]]
           sorted == CHOOSE f : F(f)
           size == [R \in SUBSET S |-> Cardinality(R)]
<1>1. Sorted(S) = sorted[S]
  BY DEF Sorted
<1>2. ASSUME NEW R \in SUBSET S, R # {}
      PROVE  IsFirst(first(R), R)
  <2>1. Keyed(R)
    BY KeyedSubset
  <2>2. \E e \in R : \A d \in R \ {e} : Precedes(e, d)
    BY <1>2, <2>1, FirstOf DEF IsFirst
  <2> QED BY <2>2 DEF IsFirst
<1>3. ASSUME NEW R \in SUBSET S
      PROVE  IsFiniteSet(R) /\ Cardinality(R) \in Nat /\ Cardinality(R) < Cardinality(S) + 1
  <2>1. IsFiniteSet(S)
    BY DEF Keyed
  <2>2. IsFiniteSet(R) /\ Cardinality(R) <= Cardinality(S)
    BY <2>1, FS_Subset
  <2> QED BY <2>1, <2>2, FS_CardinalityType
<1>4. ASSUME NEW R \in SUBSET S, R # {}
      PROVE  R \ {first(R)} \in SUBSET S /\ size[R \ {first(R)}] < size[R]
  <2> DEFINE e == first(R)
  <2>1. e \in R
    BY <1>2, <1>4 DEF IsFirst
  <2> HIDE DEF e
  <2>2. Cardinality(R \ {e}) = Cardinality(R) - 1 /\ Cardinality(R) \in Nat
    BY <1>3, <2>1, FS_RemoveElement
  <2>3. R \ {e} \in SUBSET S
    OBVIOUS
  <2>4. size[R \ {e}] < size[R]
    BY <2>2, <2>3
  <2> QED BY <2>3, <2>4 DEF e
<1> HIDE DEF first
<1>5. \E f : F(f)
  <2> DEFINE D == SUBSET S
             T == Seq(S)
             B == [R \in D |-> [f \in [D -> T] |->
                     IF R = {} THEN <<>> ELSE <<first(R)>> \o f[R \ {first(R)}]]]
             bound == Cardinality(S) + 1
  <2>1. B \in [D -> [[D -> T] -> T]]
    <3> SUFFICES ASSUME NEW R \in D, NEW f \in [D -> T], R # {}
                 PROVE  <<first(R)>> \o f[R \ {first(R)}] \in T
      BY EmptySeq
    <3>1. first(R) \in S /\ f[R \ {first(R)}] \in T
      BY <1>2 DEF IsFirst
    <3>2. <<first(R)>> \in Seq(S)
      BY <3>1
    <3> QED BY <3>1, <3>2, ConcatProperties
  <2>2. SmallerOnly(D, T, size, B)
    <3> SUFFICES ASSUME NEW R \in D, NEW g \in [D -> T], NEW h \in [D -> T],
                        \A C \in D : size[C] < size[R] => g[C] = h[C]
                 PROVE  B[R][g] = B[R][h]
      BY DEF SmallerOnly
    <3>1. R # {} => g[R \ {first(R)}] = h[R \ {first(R)}]
      <4> HIDE DEF size
      <4> QED BY <1>4
    <3> QED BY <3>1
  <2>3. size \in [D -> Nat] /\ bound \in Nat /\ T # {} /\ \A R \in D : size[R] < bound
    <3>1. Cardinality(S) \in Nat
      BY <1>3
    <3>2. T # {}
      BY EmptySeq
    <3> QED BY <1>3, <3>1, <3>2
  <2>4. PICK f \in [D -> T] : Solves(f, D, B)
    <3> HIDE DEF D, T, B, size, bound
    <3> QED BY <2>1, <2>2, <2>3, Recursion
  <2>5. F(f)
    <3>1. \A R \in D : f[R] = B[R][f]
      <4> HIDE DEF D, B
      <4> QED BY <2>4 DEF Solves
    <3>2. \A R \in D : B[R][f] = IF R = {} THEN <<>> ELSE <<first(R)>> \o f[R \ {first(R)}]
      BY <2>4
    <3> HIDE DEF B
    <3> QED BY <2>4, <3>1, <3>2
  <2> HIDE DEF F
  <2> QED BY <2>5
<1>6. F(sorted)
  <2> HIDE DEF F
  <2> QED BY <1>5
<1> HIDE DEF sorted
<1>7. ASSUME NEW R \in SUBSET S
      PROVE  sorted[R] = IF R = {} THEN <<>> ELSE <<first(R)>> \o sorted[R \ {first(R)}]
  BY <1>6
<1> DEFINE P == {R \in SUBSET S : InRow(sorted[R], R)}
<1>8. ASSUME NEW R \in SUBSET S, \A C \in SUBSET S : size[C] < size[R] => C \in P PROVE R \in P
  <2>1. CASE R = {}
    <3>1. sorted[R] = <<>>
      BY <1>7, <2>1
    <3>2. <<>> \in Seq(R) /\ Len(<<>>) = 0
      BY EmptySeq
    <3>3. InRow(<<>>, R)
      BY <2>1, <3>2 DEF InRow
    <3> QED BY <3>1, <3>3
  <2>2. CASE R # {}
    <3> HIDE DEF size
    <3>1. InRow(sorted[R \ {first(R)}], R \ {first(R)})
      BY <1>4, <1>8, <2>2
    <3>2. InRow(<<first(R)>> \o sorted[R \ {first(R)}], R)
      BY <1>2, <2>2, <3>1, RowCons
    <3> QED BY <1>7, <2>2, <3>2
  <2> QED BY <2>1, <2>2
<1>9. P = SUBSET S
  <2> DEFINE D == SUBSET S
  <2>1. size \in [D -> Nat]
    BY <1>3
  <2>2. P \in SUBSET D
    OBVIOUS
  <2>3. \A R \in D : (\A C \in D : size[C] < size[R] => C \in P) => R \in P
    BY <1>8
  <2> HIDE DEF P, size, D
  <2>4. P = D
    BY <2>1, <2>2, <2>3, BySize
  <2> QED BY <2>4 DEF D
<1> QED BY <1>1, <1>9

LEMMA RowLength ==
  ASSUME flip \in BOOLEAN, NEW S, Keyed(S), NEW s, InRow(s, S)
  PROVE  Len(s) = Cardinality(S)
<1>1. /\ s \in Seq(S) /\ Len(s) \in Nat /\ \A k \in 1..Len(s) : s[k] \in S
  BY LenProperties, ElementOfSeq DEF InRow
<1>2. PICK n \in Nat : n = Len(s)
  BY <1>1
<1>3. ASSUME NEW i \in 1..n, NEW j \in 1..n, s[i] = s[j] PROVE i = j
  <2>1. ~(i < j) /\ ~(j < i)
    BY <1>1, <1>2, <1>3, PrecedesOrders DEF InRow
  <2> QED BY <2>1
<1>4. PICK f : f = [k \in 1..n |-> s[k]]
  OBVIOUS
<1>5. f \in Bijection(1..n, S)
  <2>1. f \in [1..n -> S] /\ \A k \in 1..n : f[k] = s[k]
    BY <1>1, <1>2, <1>4
  <2>2. \A i, j \in 1..n : f[i] = f[j] => i = j
    BY <1>3, <2>1
  <2>3. \A e \in S : \E k \in 1..n : f[k] = e
    BY <1>2, <2>1 DEF InRow
  <2> QED BY <2>1, <2>2, <2>3 DEF Bijection, Injection, Surjection, IsInjective
<1>6. ExistsBijection(1..n, S)
  BY <1>5 DEF ExistsBijection
<1> QED BY <1>2, <1>6, FS_CountingElements

-------------------------------------------------------------------------------
(* The table page by page: rows of it in their order, and all of them if no  *)
(* two have one seq or one page holds them.                                  *)

Paged(t, S, s, p) ==
  /\ t \in Seq(S)
  /\ \A k \in 1..Len(t) : \E q \in p..Len(s) : t[k] = s[q]
  /\ \A i, j \in 1..Len(t) : i < j => Precedes(t[i], t[j])
  /\ ~Torn(S) => \A q \in p..Len(s) : \E k \in 1..Len(t) : t[k] = s[q]

LEMMA PageConcat ==
  ASSUME NEW S, NEW s, InRow(s, S), NEW p \in 1..Len(s), NEW e \in p..Len(s),
         NEW next \in (e + 1)..(Len(s) + 1), ~Torn(S) => next = e + 1,
         NEW t, Paged(t, S, s, next)
  PROVE  Paged(SubSeq(s, p, e) \o t, S, s, p)
<1> DEFINE a == SubSeq(s, p, e)
           n == e - p + 1
           c == a \o t
<1>1. /\ s \in Seq(S) /\ Len(s) \in Nat /\ \A q \in 1..Len(s) : s[q] \in S
      /\ t \in Seq(S) /\ Len(t) \in Nat
  BY LenProperties, ElementOfSeq DEF InRow, Paged
<1>2. p \in Nat /\ e \in Nat /\ next \in Nat /\ n \in Nat /\ p <= e /\ e <= Len(s)
  BY <1>1
<1>3. a \in Seq(S) /\ Len(a) = n /\ \A i \in 1..n : a[i] = s[p + i - 1]
  <2>1. p \in Int /\ e \in Int /\ \A i \in p..e : s[i] \in S
    BY <1>1, <1>2
  <2>2. /\ SubSeq(s, p, e) \in Seq(S)
        /\ Len(SubSeq(s, p, e)) = IF p <= e THEN e - p + 1 ELSE 0
        /\ \A i \in 1..e - p + 1 : SubSeq(s, p, e)[i] = s[p + i - 1]
    BY ONLY <2>1, SubSeqProperties
  <2> QED BY <1>2, <2>2
<1> HIDE DEF a
<1>4. /\ c \in Seq(S) /\ Len(c) = n + Len(t)
      /\ \A i \in 1..n + Len(t) : c[i] = IF i <= n THEN a[i] ELSE t[i - n]
  <2> HIDE DEF n
  <2> QED BY <1>1, <1>3, ConcatProperties
<1> HIDE DEF c
<1>5. ASSUME NEW k \in 1..Len(c), k <= n
      PROVE  p + k - 1 \in p..e /\ c[k] = s[p + k - 1]
  BY <1>1, <1>2, <1>3, <1>4, <1>5
<1>6. ASSUME NEW k \in 1..Len(c), ~(k <= n)
      PROVE  k - n \in 1..Len(t) /\ c[k] = t[k - n] /\ \E q \in next..Len(s) : c[k] = s[q]
  <2>1. k - n \in 1..Len(t) /\ c[k] = t[k - n]
    BY <1>1, <1>2, <1>4, <1>6
  <2>2. \E q \in next..Len(s) : t[k - n] = s[q]
    BY <2>1 DEF Paged
  <2> QED BY <2>1, <2>2
<1> HIDE DEF n
<1>7. ASSUME NEW k \in 1..Len(c) PROVE \E q \in p..Len(s) : c[k] = s[q]
  <2>1. CASE k <= n
    <3>1. p + k - 1 \in p..Len(s)
      BY <1>1, <1>2, <1>5, <2>1
    <3> QED BY <1>5, <2>1, <3>1
  <2>2. CASE ~(k <= n)
    <3>1. PICK q \in next..Len(s) : c[k] = s[q]
      BY <1>6, <2>2
    <3>2. q \in p..Len(s)
      BY <1>1, <1>2
    <3> QED BY <3>1, <3>2
  <2> QED BY <2>1, <2>2
<1>8. ASSUME NEW i \in 1..Len(c), NEW j \in 1..Len(c), i < j PROVE Precedes(c[i], c[j])
  <2>0. i \in Nat /\ j \in Nat
    BY <1>1, <1>2, <1>4
  <2>1. CASE j <= n
    <3>1. i <= n
      BY <1>2, <1>8, <2>0, <2>1
    <3>2. p + i - 1 \in 1..Len(s) /\ p + j - 1 \in 1..Len(s) /\ p + i - 1 < p + j - 1
      BY <1>1, <1>2, <1>5, <1>8, <2>0, <2>1, <3>1
    <3>3. Precedes(s[p + i - 1], s[p + j - 1])
      BY <3>2 DEF InRow
    <3> QED BY <1>5, <2>1, <3>1, <3>3
  <2>2. CASE i <= n /\ ~(j <= n)
    <3>1. p + i - 1 \in 1..Len(s) /\ p + i - 1 <= e /\ c[i] = s[p + i - 1]
      BY <1>1, <1>2, <1>5, <2>0, <2>2
    <3>2. PICK q \in next..Len(s) : c[j] = s[q]
      BY <1>6, <2>2
    <3>3. q \in 1..Len(s) /\ p + i - 1 < q
      BY <1>1, <1>2, <2>0, <3>1
    <3>4. Precedes(s[p + i - 1], s[q])
      BY <3>1, <3>3 DEF InRow
    <3> QED BY <3>1, <3>2, <3>4
  <2>3. CASE ~(i <= n)
    <3>1. ~(j <= n) /\ i - n < j - n
      BY <1>2, <1>8, <2>0, <2>3
    <3>2. i - n \in 1..Len(t) /\ c[i] = t[i - n] /\ j - n \in 1..Len(t) /\ c[j] = t[j - n]
      BY <1>6, <2>3, <3>1
    <3>3. Precedes(t[i - n], t[j - n])
      BY <3>1, <3>2 DEF Paged
    <3> QED BY <3>2, <3>3
  <2> QED BY <2>1, <2>2, <2>3
<1>9. ASSUME ~Torn(S), NEW q \in p..Len(s) PROVE \E k \in 1..Len(c) : c[k] = s[q]
  <2>1. CASE q <= e
    <3>1. q - p + 1 \in 1..n
      BY <1>1, <1>2, <2>1 DEF n
    <3>2. q - p + 1 \in 1..Len(c) /\ q - p + 1 <= n
      BY <1>1, <1>2, <1>4, <3>1
    <3>3. p + (q - p + 1) - 1 = q
      BY <1>1, <1>2
    <3>4. c[q - p + 1] = s[q]
      BY <1>5, <3>2, <3>3
    <3> QED BY <3>2, <3>4
  <2>2. CASE ~(q <= e)
    <3>1. q \in next..Len(s)
      BY <1>1, <1>2, <1>9, <2>2
    <3>2. PICK k \in 1..Len(t) : t[k] = s[q]
      BY <1>9, <3>1 DEF Paged
    <3>3. k + n \in 1..Len(c) /\ ~(k + n <= n) /\ (k + n) - n = k
      BY <1>1, <1>2, <1>4
    <3>4. c[k + n] = t[k]
      BY <1>6, <3>3
    <3> QED BY <3>2, <3>3, <3>4
  <2> QED BY <2>1, <2>2
<1>10. Paged(c, S, s, p)
  BY <1>4, <1>7, <1>8, <1>9 DEF Paged
<1> QED BY <1>10 DEF c, a

LEMMA LoadIs ==
  ASSUME flip \in BOOLEAN, PageSize \in Nat \ {0}, NEW S, Keyed(S)
  PROVE  Paged(LoadAllEvents(S), S, Sorted(S), 1)
<1> DEFINE s == Sorted(S)
           end(p) == IF p + PageSize - 1 < Len(s) THEN p + PageSize - 1 ELSE Len(s)
           rest(p) == {q \in (end(p) + 1)..Len(s) : s[q].seq > SinceSeq(s, end(p))}
           next(p) == IF rest(p) = {} THEN Len(s) + 1
                      ELSE CHOOSE q \in rest(p) : \A r \in rest(p) : q <= r
           F(f) == f = [p \in 1..(Len(s) + 1) |->
                          IF p > Len(s) THEN <<>> ELSE SubSeq(s, p, end(p)) \o f[next(p)]]
           from == CHOOSE f : F(f)
           D == 1..(Len(s) + 1)
           size == [p \in D |-> Len(s) + 1 - p]
<1>1. LoadAllEvents(S) = from[1]
  BY DEF LoadAllEvents
<1>2. InRow(s, S)
  BY SortedIs
<1> HIDE DEF s
<1>3. s \in Seq(S) /\ Len(s) \in Nat /\ \A q \in 1..Len(s) : s[q] \in S /\ s[q].seq \in Nat
  BY <1>2, LenProperties, ElementOfSeq DEF InRow, Keyed
<1>4. ASSUME NEW p \in 1..Len(s)
      PROVE  /\ end(p) \in p..Len(s) /\ next(p) \in (end(p) + 1)..(Len(s) + 1)
             /\ ~Torn(S) => next(p) = end(p) + 1
  <2>1. end(p) \in p..Len(s) /\ end(p) \in Nat
    BY <1>3
  <2> DEFINE e == end(p)
             R == rest(p)
  <2> HIDE DEF e
  <2>2. R = {q \in (e + 1)..Len(s) : s[q].seq > s[e].seq}
    BY DEF e, SinceSeq
  <2>3. R \in SUBSET Nat
    BY <1>3, <2>1, <2>2 DEF e
  <2>4. R # {} => next(p) \in R /\ \A r \in R : next(p) <= r
    <3> HIDE DEF R, rest
    <3>1. R # {} => \E q \in R : \A r \in R : q <= r
      BY <2>3, LeastOf
    <3>2. R = rest(p)
      BY DEF R
    <3> QED BY <3>1, <3>2
  <2>5. next(p) \in (e + 1)..(Len(s) + 1)
    <3>1. CASE R = {}
      BY <1>3, <2>1, <3>1 DEF e
    <3>2. CASE R # {}
      <4>1. next(p) \in R
        BY <2>4, <3>2
      <4> HIDE DEF R, rest, next
      <4>2. next(p) \in (e + 1)..Len(s)
        BY <2>2, <4>1
      <4> QED BY <1>3, <2>1, <4>2 DEF e
    <3> QED BY <3>1, <3>2
  <2>6. ASSUME ~Torn(S) PROVE next(p) = e + 1
    <3>1. CASE e = Len(s)
      BY <1>3, <2>1, <2>5, <3>1 DEF e
    <3>0. Len(s) <= PageSize => e = Len(s)
      BY <1>3, TransportAssumption DEF e
    <3>2. CASE e # Len(s)
      <4>0. ~\E a, b \in S : a # b /\ a.seq = b.seq
        BY <1>2, <2>6, <3>0, <3>2, RowLength DEF Torn
      <4>1. e \in 1..Len(s) /\ e + 1 \in 1..Len(s) /\ e < e + 1
        BY <1>3, <2>1, <3>2 DEF e
      <4>2. Precedes(s[e], s[e + 1])
        BY <1>2, <4>1 DEF InRow
      <4>3. s[e] # s[e + 1]
        BY <1>3, <4>1, <4>2, PrecedesOrders
      <4>4. s[e].seq # s[e + 1].seq
        BY <1>3, <4>0, <4>1, <4>3
      <4>5. s[e].seq < s[e + 1].seq
        BY <4>2, <4>4 DEF Precedes
      <4>6. e + 1 \in R
        BY <1>3, <2>2, <4>1, <4>5
      <4>7. next(p) \in R /\ next(p) <= e + 1
        BY <2>4, <4>6
      <4> HIDE DEF R, rest, next
      <4>8. PICK a \in Nat, b \in Nat : a = e /\ b = Len(s)
        BY <1>3, <2>1 DEF e
      <4>9. next(p) \in (a + 1)..(b + 1) /\ next(p) <= a + 1
        BY <2>5, <4>7, <4>8
      <4> QED BY <4>8, <4>9
    <3> QED BY <3>1, <3>2
  <2> QED BY <2>1, <2>5, <2>6 DEF e
<1>5. \A p \in 1..Len(s) : p \in D /\ next(p) \in D /\ size[next(p)] < size[p]
  <2> TAKE p \in 1..Len(s)
  <2> DEFINE m == next(p)
             e == end(p)
  <2>1. e \in p..Len(s) /\ m \in (e + 1)..(Len(s) + 1)
    BY <1>4
  <2> HIDE DEF m, e, next, end
  <2>2. p \in D /\ m \in D /\ size[m] < size[p]
    BY <1>3, <2>1
  <2> QED BY <2>2 DEF m
<1>6. \A p \in D : ~(p > Len(s)) => p \in 1..Len(s)
  BY <1>3
<1>7. size \in [D -> Nat] /\ 1 \in D
  BY <1>3
<1> HIDE DEF next, end, rest
<1>8. \E f : F(f)
  <2> DEFINE T == Seq(S)
             B == [p \in D |-> [f \in [D -> T] |->
                     IF p > Len(s) THEN <<>> ELSE SubSeq(s, p, end(p)) \o f[next(p)]]]
             bound == Len(s) + 1
  <2>1. B \in [D -> [[D -> T] -> T]]
    <3> SUFFICES ASSUME NEW p \in D, NEW f \in [D -> T], ~(p > Len(s))
                 PROVE  SubSeq(s, p, end(p)) \o f[next(p)] \in T
      BY EmptySeq
    <3>1. p \in 1..Len(s) /\ end(p) \in p..Len(s) /\ f[next(p)] \in T
      BY <1>4, <1>5, <1>6
    <3>2. p \in Int /\ end(p) \in Int /\ \A i \in p..end(p) : s[i] \in S
      BY <1>3, <3>1
    <3>3. SubSeq(s, p, end(p)) \in Seq(S)
      BY ONLY <3>2, SubSeqProperties
    <3> QED BY <3>1, <3>3, ConcatProperties
  <2>2. SmallerOnly(D, T, size, B)
    <3> SUFFICES ASSUME NEW p \in D, NEW g \in [D -> T], NEW h \in [D -> T],
                        \A c \in D : size[c] < size[p] => g[c] = h[c]
                 PROVE  B[p][g] = B[p][h]
      BY DEF SmallerOnly
    <3>1. ~(p > Len(s)) => g[next(p)] = h[next(p)]
      <4> HIDE DEF size, D
      <4> QED BY <1>5, <1>6
    <3> QED BY <3>1
  <2>3. bound \in Nat /\ T # {} /\ \A p \in D : size[p] < bound
    <3>1. T # {}
      BY EmptySeq
    <3> QED BY <1>3, <3>1
  <2>4. PICK f \in [D -> T] : Solves(f, D, B)
    <3> HIDE DEF D, T, B, size, bound
    <3> QED BY <1>7, <2>1, <2>2, <2>3, Recursion
  <2>5. F(f)
    <3>1. \A p \in D : f[p] = B[p][f]
      <4> HIDE DEF D, B
      <4> QED BY <2>4 DEF Solves
    <3>2. \A p \in D : B[p][f] = IF p > Len(s) THEN <<>> ELSE SubSeq(s, p, end(p)) \o f[next(p)]
      BY <2>4
    <3> HIDE DEF B
    <3> QED BY <2>4, <3>1, <3>2
  <2> HIDE DEF F
  <2> QED BY <2>5
<1>9. F(from)
  <2> HIDE DEF F
  <2> QED BY <1>8
<1> HIDE DEF from
<1>10. ASSUME NEW p \in D
       PROVE  from[p] = IF p > Len(s) THEN <<>> ELSE SubSeq(s, p, end(p)) \o from[next(p)]
  BY <1>9
<1> DEFINE P == {p \in D : Paged(from[p], S, s, p)}
<1>11. ASSUME NEW p \in D, \A c \in D : size[c] < size[p] => c \in P PROVE p \in P
  <2>1. CASE p > Len(s)
    <3>1. from[p] = <<>>
      BY <1>10, <2>1
    <3>2. <<>> \in Seq(S) /\ Len(<<>>) = 0
      BY EmptySeq
    <3>3. p..Len(s) = {}
      BY <1>3, <2>1
    <3>4. Paged(<<>>, S, s, p)
      BY <3>2, <3>3 DEF Paged
    <3> QED BY <3>1, <3>4
  <2>2. CASE ~(p > Len(s))
    <3> HIDE DEF size, D
    <3>1. p \in 1..Len(s) /\ next(p) \in P
      BY <1>5, <1>6, <1>11, <2>2
    <3>2. Paged(from[next(p)], S, s, next(p))
      BY <3>1
    <3> DEFINE e == end(p)
               m == next(p)
    <3>3. e \in p..Len(s) /\ m \in (e + 1)..(Len(s) + 1) /\ (~Torn(S) => m = e + 1)
      BY <1>4, <3>1
    <3> HIDE DEF e, m
    <3>4. Paged(from[m], S, s, m)
      BY <3>2 DEF m
    <3>5. Paged(SubSeq(s, p, e) \o from[m], S, s, p)
      BY <1>2, <3>1, <3>3, <3>4, PageConcat
    <3> QED BY <1>10, <2>2, <3>5 DEF e, m
  <2> QED BY <2>1, <2>2
<1>12. P = D
  <2>1. P \in SUBSET D
    OBVIOUS
  <2>2. \A p \in D : (\A c \in D : size[c] < size[p] => c \in P) => p \in P
    BY <1>11
  <2> HIDE DEF P, size, D
  <2> QED BY <1>7, <2>1, <2>2, BySize
<1>13. Paged(from[1], S, s, 1)
  BY <1>7, <1>12
<1> QED BY <1>1, <1>13 DEF s

-------------------------------------------------------------------------------
(* The invariant: a row has the key that its kind and its record give it.    *)

KeyOf(k, n) ==
  CASE k = "user" -> UserKey(n) [] k = "text" -> OwnKey("text", n, 0) [] k = "call" -> CallKey(n)
    [] k = "result" -> ResultKey(n) [] k = "start" -> StartKey [] k = "end" -> EndKey
    [] OTHER -> IF cli = "claude" THEN <<"note", 0>> ELSE OwnKey("note", n, 0)

KeyedBy(key, n) == key = KeyOf(key[1], n) /\ (key[1] \notin {"start", "end"} => n # 0)

LineOK(l) ==
  /\ l \in Lines
  /\ l.as = "line" => l.n # 0 /\ l.ts = record[l.n].ts
  /\ l.as \in {"line", "meta"} => l.ts # 0

RowOK(e) ==
  /\ e \in EventRows
  /\ KeyedBy(e.key, e.rec)
  /\ LineOK(e.native)
  /\ e.seq + 1 >= Step
  /\ e.native.as # "none" => e.seq >= Step

GoodLines == {l \in Lines : LineOK(l)}
GoodRows == {e \in EventRows : RowOK(e)}

StoreOK(st, X) ==
  /\ st \in [Machines -> SUBSET X]
  /\ \A m \in Machines : IsFiniteSet(st[m]) /\ \A a, b \in st[m] : a.key = b.key => a = b

Settings == cli \in Vendors /\ flip \in BOOLEAN /\ now \in Nat \ {0} /\ resumes \in Nat

ConversationInv ==
  /\ Settings
  /\ record \in Seq(Records)
  /\ file \in [Machines -> Seq(GoodLines)]
  /\ StoreOK(store, GoodRows)
  /\ started \in [Machines -> Nat]
  /\ prime \in [Machines -> Prompts]

LEMMA InvTyped == ASSUME ConversationInv PROVE TransportTypeOK
<1>1. \A m \in Machines : file[m] \in Seq(Lines)
  <2> TAKE m \in Machines
  <2>1. file[m] \in Seq(GoodLines) /\ GoodLines \subseteq Lines
    BY DEF ConversationInv, GoodLines
  <2> QED BY <2>1, SeqMonotonic
<1>2. file \in [Machines -> Seq(Lines)]
  BY <1>1 DEF ConversationInv
<1>3. store \in [Machines -> SUBSET EventRows]
  BY DEF ConversationInv, StoreOK, GoodRows
<1> QED BY <1>2, <1>3 DEF ConversationInv, StoreOK, Settings, TransportTypeOK

LEMMA FcnIsSeq ==
  ASSUME NEW X, NEW n \in Nat, NEW f \in [1..n -> X]
  PROVE  f \in Seq(X) /\ Len(f) = n
<1>1. f \in Seq(X)
  BY SeqDef
<1>2. Len(f) \in Nat /\ DOMAIN f = 1..Len(f) /\ DOMAIN f = 1..n
  BY <1>1, LenProperties
<1> QED BY <1>1, <1>2

LEMMA Bounds ==
  /\ MaxRecords \in Nat /\ Step \in Nat \ {0}
  /\ \A t \in Nat : Ms(t) \in Nat
  /\ \A t \in Nat \ {0} : Ms(t) >= Step
<1>1. MaxRecords \in Nat
  BY TransportAssumption
<1>2. Step \in Nat \ {0}
  BY <1>1 DEF Step
<1>3. ASSUME NEW t \in Nat PROVE Ms(t) \in Nat
  BY <1>2, <1>3 DEF Ms
<1>4. ASSUME NEW t \in Nat \ {0} PROVE Ms(t) >= Step
  <2> DEFINE x == Step
  <2>1. x \in Nat /\ t - 1 \in Nat
    BY <1>2
  <2> HIDE DEF x
  <2>2. x * t = x * (t - 1) + x /\ x * (t - 1) >= 0
    BY <2>1
  <2>3. x * t >= x
    BY <2>1, <2>2
  <2> QED BY <2>3 DEF x, Ms
<1> QED BY <1>1, <1>2, <1>3, <1>4

-------------------------------------------------------------------------------
(* What a transcript is made into. *)

KeysFor(n) == {key \in EventKeys : KeyedBy(key, n)}

LEMMA StartIsKey == ASSUME NEW n PROVE StartKey \in KeysFor(n) /\ EndKey \in KeysFor(n)
  BY DEF KeysFor, KeyedBy, EventKeys, StartKey, EndKey, KeyOf

LEMMA RecordIs ==
  ASSUME record \in Seq(Records), NEW n \in 1..Len(record)
  PROVE  /\ n \in Nat \ {0} /\ record[n].ts \in Nat \ {0}
         /\ record[n].text \in Nat /\ record[n].call \in Nat
<1>1. record[n] \in Records /\ Len(record) \in Nat
  BY ElementOfSeq, LenProperties
<1> QED BY <1>1 DEF Records

LEMMA RecordKeys ==
  ASSUME record \in Seq(Records), NEW n \in 1..Len(record), NEW i
  PROVE  /\ UserKey(n) \in KeysFor(n) /\ CallKey(n) \in KeysFor(n) /\ ResultKey(n) \in KeysFor(n)
         /\ OwnKey("text", n, i) \in KeysFor(n)
         /\ cli = "claude" => <<"note", 0>> \in KeysFor(n)
         /\ cli # "claude" => OwnKey("note", n, i) \in KeysFor(n)
<1>0. n \in Nat \ {0} /\ record[n].ts \in Nat /\ record[n].text \in Nat /\ record[n].call \in Nat
  BY RecordIs
<1>1. UserKey(n) \in KeysFor(n)
  BY <1>0 DEF KeysFor, KeyedBy, EventKeys, KeyOf, UserKey
<1>2. CallKey(n) \in KeysFor(n)
  BY <1>0 DEF KeysFor, KeyedBy, EventKeys, KeyOf, CallKey
<1>3. ResultKey(n) \in KeysFor(n)
  BY <1>0 DEF KeysFor, KeyedBy, EventKeys, KeyOf, ResultKey
<1>4. OwnKey("text", n, i) \in KeysFor(n)
  BY <1>0 DEF KeysFor, KeyedBy, EventKeys, KeyOf, OwnKey
<1>5. cli = "claude" => <<"note", 0>> \in KeysFor(n)
  BY <1>0 DEF KeysFor, KeyedBy, EventKeys, KeyOf
<1>6. cli # "claude" => OwnKey("note", n, i) \in KeysFor(n)
  BY <1>0 DEF KeysFor, KeyedBy, EventKeys, KeyOf, OwnKey
<1> QED BY <1>1, <1>2, <1>3, <1>4, <1>5, <1>6

LEMMA OneKey == ASSUME NEW X, NEW k \in X PROVE <<k>> \in Seq(X)
  OBVIOUS

LEMMA KeysOfIs ==
  ASSUME record \in Seq(Records), NEW l, LineOK(l), NEW i
  PROVE  /\ KeysOf(l, i) \in Seq(KeysFor(l.n))
         /\ KeysOf(l, i) # <<>> => l.as \in {"line", "meta"}
<1> DEFINE n == l.n
           X == KeysFor(n)
<1>0. <<>> \in Seq(X)
  BY EmptySeq
<1>1. CASE l.as = "meta"
  <2>1. KeysOf(l, i) = <<StartKey>>
    BY <1>1 DEF KeysOf
  <2> QED BY <1>1, <2>1, StartIsKey, OneKey
<1>2. CASE l.as = "line"
  <2>1. n \in 1..Len(record)
    <3>1. Len(record) \in Nat
      BY LenProperties
    <3> QED BY <1>2, <3>1 DEF LineOK, Lines
  <2> HIDE DEF n
  <2>2. /\ <<UserKey(n)>> \in Seq(X) /\ <<CallKey(n)>> \in Seq(X) /\ <<ResultKey(n)>> \in Seq(X)
        /\ <<OwnKey("text", n, i)>> \in Seq(X) /\ <<OwnKey("text", n, 0)>> \in Seq(X)
        /\ <<StartKey>> \in Seq(X)
        /\ cli = "claude" => <<<<"note", 0>>>> \in Seq(X)
        /\ cli # "claude" => <<OwnKey("note", n, i)>> \in Seq(X)
    <3> HIDE DEF X
    <3>1. /\ UserKey(n) \in X /\ CallKey(n) \in X /\ ResultKey(n) \in X /\ StartKey \in X
          /\ OwnKey("text", n, i) \in X /\ OwnKey("text", n, 0) \in X
          /\ cli = "claude" => <<"note", 0>> \in X
          /\ cli # "claude" => OwnKey("note", n, i) \in X
      BY <2>1, RecordKeys, StartIsKey DEF X
    <3> QED BY <3>1, OneKey
  <2> HIDE DEF X
  <2>3. CASE cli = "claude"
    <3>1. UserFromJSONL(n) \in Seq(X) /\ SystemFromJSONL(n) \in Seq(X)
      BY <2>2, <2>3 DEF UserFromJSONL, SystemFromJSONL
    <3>2. AssistantFromJSONL(n) \in Seq(X)
      BY <1>0, <2>2, ConcatProperties DEF AssistantFromJSONL
    <3>3. ClaudeFromJSONL(n) \in Seq(X)
      BY <1>0, <3>1, <3>2 DEF ClaudeFromJSONL
    <3> QED BY <1>2, <2>3, <3>3 DEF KeysOf, n, X
  <2>4. CASE cli # "claude"
    <3>1. ResponseItemFromJSONL(n, i) \in Seq(X)
      BY <2>2 DEF ResponseItemFromJSONL, MessageFromResponseItem
    <3>2. EventMsgFromJSONL(n) \in Seq(X) /\ MarkFromJSONL(n, i) \in Seq(X)
      BY <1>0, <2>2, <2>4 DEF EventMsgFromJSONL, MarkFromJSONL
    <3>3. CodexFromJSONL(n, i) \in Seq(X)
      BY <2>2, <3>1, <3>2 DEF CodexFromJSONL
    <3> QED BY <1>2, <2>4, <3>3 DEF KeysOf, n, X
  <2> QED BY <2>3, <2>4
<1>3. CASE l.as \notin {"meta", "line"}
  <2>1. KeysOf(l, i) = <<>>
    BY <1>3 DEF KeysOf
  <2> QED BY <1>0, <2>1
<1> QED BY <1>1, <1>2, <1>3

FileRows == {e \in GoodRows : e.native.as # "none"}

LEMMA RowIs ==
  ASSUME record \in Seq(Records), NEW l, LineOK(l), NEW key \in KeysFor(l.n),
         NEW s \in Nat, s >= Step, l.as # "none"
  PROVE  [key |-> key, rec |-> l.n, seq |-> s, native |-> l] \in FileRows
<1> DEFINE e == [key |-> key, rec |-> l.n, seq |-> s, native |-> l]
<1>1. key \in EventKeys /\ KeyedBy(key, l.n) /\ l \in Lines /\ l.n \in 0..Len(record)
  BY DEF KeysFor, LineOK, Lines
<1>2. e \in EventRows
  BY <1>1 DEF EventRows
<1>3. e.key = key /\ e.rec = l.n /\ e.seq = s /\ e.native = l
  OBVIOUS
<1>4. s + 1 >= Step
  BY Bounds
<1> HIDE DEF e
<1>5. RowOK(e)
  BY <1>1, <1>2, <1>3, <1>4 DEF RowOK
<1>6. e \in FileRows
  BY <1>2, <1>3, <1>5 DEF FileRows, GoodRows
<1> QED BY <1>6 DEF e

LEMMA LineEventsAre ==
  ASSUME record \in Seq(Records), NEW l, LineOK(l), NEW i
  PROVE  LineEvents(l, i) \in Seq(FileRows)
<1> DEFINE K == KeysOf(l, i)
           f == LineEvents(l, i)
<1>1. K \in Seq(KeysFor(l.n)) /\ (K # <<>> => l.as \in {"line", "meta"})
  BY KeysOfIs
<1> HIDE DEF K
<1>2. Len(K) \in Nat /\ DOMAIN K = 1..Len(K) /\ \A k \in 1..Len(K) : K[k] \in KeysFor(l.n)
  BY <1>1, LenProperties, ElementOfSeq
<1>3. ASSUME NEW k \in 1..Len(K)
      PROVE  [key |-> K[k], rec |-> l.n, seq |-> Ms(l.ts) + k - 1, native |-> l] \in FileRows
  <2>1. K # <<>>
    BY <1>2, EmptySeq
  <2>2. l.as # "none" /\ l.ts \in Nat \ {0}
    BY <1>1, <2>1 DEF LineOK, Lines
  <2>3. Ms(l.ts) + k - 1 \in Nat /\ Ms(l.ts) + k - 1 >= Step
    <3> DEFINE x == Ms(l.ts)
               y == Step
    <3>1. x \in Nat /\ y \in Nat /\ x >= y
      BY <2>2, Bounds
    <3> HIDE DEF x, y
    <3>2. x + k - 1 \in Nat /\ x + k - 1 >= y
      BY <1>2, <3>1
    <3> QED BY <3>2 DEF x, y
  <2> QED BY <1>2, <2>2, <2>3, RowIs
<1>4. f \in [1..Len(K) -> FileRows]
  <2> HIDE DEF f
  <2>1. f = [k \in 1..Len(K) |-> [key |-> K[k], rec |-> l.n, seq |-> Ms(l.ts) + k - 1, native |-> l]]
    BY <1>2 DEF f, K, LineEvents
  <2> QED BY <1>3, <2>1
<1> HIDE DEF f
<1>5. f \in Seq(FileRows)
  BY <1>2, <1>4, FcnIsSeq
<1> QED BY <1>5 DEF f

LEMMA FileRowsRaise ==
  /\ \A e \in FileRows : e.seq \in Nat
  /\ \A e \in FileRows : \A n \in Nat : n >= e.seq => [e EXCEPT !.seq = n] \in FileRows
  /\ \A e \in FileRows : e = [e EXCEPT !.seq = e.seq]
<1>1. ASSUME NEW e \in FileRows PROVE e.seq \in Nat /\ e = [e EXCEPT !.seq = e.seq]
  BY DEF FileRows, GoodRows, EventRows
<1>2. ASSUME NEW e \in FileRows, NEW n \in Nat, n >= e.seq
      PROVE  [e EXCEPT !.seq = n] \in FileRows
  <2> DEFINE f == [e EXCEPT !.seq = n]
  <2>1. e \in EventRows /\ RowOK(e) /\ e.native.as # "none"
    BY DEF FileRows, GoodRows
  <2>2. f \in EventRows /\ f.key = e.key /\ f.rec = e.rec /\ f.native = e.native /\ f.seq = n
    BY <2>1 DEF EventRows
  <2> HIDE DEF f
  <2>3. e.seq \in Nat /\ e.seq >= Step /\ Step \in Nat
    BY <2>1, Bounds DEF RowOK, EventRows
  <2>4. n >= Step /\ n + 1 >= Step
    BY <1>2, <2>3
  <2>5. RowOK(f)
    BY <2>1, <2>2, <2>4 DEF RowOK
  <2>6. f \in FileRows
    BY <2>1, <2>2, <2>5 DEF FileRows, GoodRows
  <2> QED BY <2>6 DEF f
<1> QED BY <1>1, <1>2

LEMMA FromFileIs ==
  ASSUME record \in Seq(Records), NEW lines \in Seq(GoodLines)
  PROVE  FromFile(lines) \in Seq(GoodRows)
<1> DEFINE q == [i \in DOMAIN lines |-> LineEvents(lines[i], i)]
           E == Bumped(FlattenSeq(q))
<1>1. /\ Len(lines) \in Nat /\ DOMAIN lines = 1..Len(lines)
      /\ \A i \in 1..Len(lines) : LineOK(lines[i])
  <2>1. \A i \in 1..Len(lines) : lines[i] \in GoodLines
    BY ElementOfSeq
  <2> QED BY <2>1, LenProperties DEF GoodLines
<1>2. q \in Seq(Seq(FileRows))
  <2>1. q \in [1..Len(lines) -> Seq(FileRows)]
    BY <1>1, LineEventsAre
  <2> HIDE DEF q
  <2> QED BY <1>1, <2>1, FcnIsSeq
<1> HIDE DEF q
<1>3. FlattenSeq(q) \in Seq(FileRows)
  BY <1>2, FlattenIs
<1>4. E \in Seq(FileRows)
  <2> DEFINE F == FlattenSeq(q)
             X == FileRows
  <2>1. /\ F \in Seq(X) /\ \A e \in X : e.seq \in Nat
        /\ \A e \in X : \A n \in Nat : n >= e.seq => [e EXCEPT !.seq = n] \in X
        /\ \A e \in X : e = [e EXCEPT !.seq = e.seq]
    BY <1>3, FileRowsRaise
  <2> HIDE DEF F, X
  <2>2. Bumped(F) \in Seq(X)
    BY <2>1, BumpedIs
  <2> QED BY <2>2 DEF F, X
<1>5. FromFile(lines) = IF Starts(E) THEN <<Start(E)>> \o E ELSE E
  BY DEF FromFile, q
<1> HIDE DEF E
<1>6. E \in Seq(GoodRows)
  BY <1>4, SeqMonotonic DEF FileRows
<1>7. ASSUME Starts(E) PROVE Start(E) \in GoodRows
  <2>1. E # <<>>
    <3>1. CASE cli = "codex"
      BY <1>7, <3>1 DEF Starts
    <3>2. CASE cli # "codex"
      <4>1. PICK i \in DOMAIN E : TRUE
        BY <1>7, <3>2 DEF Starts
      <4> QED BY <4>1, EmptySeq
    <3> QED BY <3>1, <3>2
  <2>2. Len(E) \in Nat /\ Len(E) # 0
    BY <1>4, <2>1, LenProperties, EmptySeq
  <2>3. E[1] \in FileRows
    BY <1>4, <2>2, ElementOfSeq
  <2>4. E[1].seq \in Nat /\ E[1].seq >= Step /\ Step \in Nat \ {0}
    BY <2>3, Bounds DEF FileRows, GoodRows, RowOK, EventRows
  <2>5. E[1].seq - 1 \in Nat /\ (E[1].seq - 1) + 1 >= Step
    BY <2>4
  <2>6. NoPayload \in Lines /\ NoPayload.as = "none" /\ LineOK(NoPayload)
    <3>1. Len(record) \in Nat
      BY LenProperties
    <3> QED BY <3>1 DEF NoPayload, Lines, LineOK
  <2>7. 0 \in 0..Len(record) /\ StartKey \in EventKeys /\ KeyedBy(StartKey, 0)
    <3>1. Len(record) \in Nat
      BY LenProperties
    <3> QED BY <3>1, StartIsKey DEF KeysFor
  <2> DEFINE e == Start(E)
  <2>8. e \in EventRows /\ e.key = StartKey /\ e.rec = 0 /\ e.seq = E[1].seq - 1 /\ e.native = NoPayload
    BY <2>5, <2>6, <2>7 DEF EventRows, Start
  <2> HIDE DEF e
  <2>9. RowOK(e)
    BY <2>5, <2>6, <2>7, <2>8 DEF RowOK
  <2> QED BY <2>8, <2>9 DEF GoodRows, e
<1>8. CASE Starts(E)
  <2>1. <<Start(E)>> \in Seq(GoodRows)
    BY <1>7, <1>8, OneKey
  <2> QED BY <1>5, <1>6, <1>8, <2>1, ConcatProperties
<1> QED BY <1>5, <1>6, <1>8

LEMMA TimestampIs ==
  ASSUME NEW e \in GoodRows
  PROVE  Timestamp(e) \in Nat /\ (e.native.as # "envelope" => Timestamp(e) # 0)
<1>1. e \in EventRows /\ RowOK(e) /\ e.seq \in Nat /\ Step \in Nat \ {0} /\ e.seq + 1 >= Step
  BY Bounds DEF GoodRows, RowOK, EventRows
<1>2. CASE e.native.as = "none"
  <2> DEFINE x == Step
             y == e.seq
  <2>1. x \in Nat \ {0} /\ y \in Nat /\ y + 1 >= x
    BY <1>1
  <2> HIDE DEF x, y
  <2>2. (y + 1) \div x \in Nat \ {0}
    BY <2>1
  <2> QED BY <1>2, <2>2 DEF Timestamp, x, y
<1>3. CASE e.native.as # "none"
  <2>1. Timestamp(e) = e.native.ts /\ e.native.ts \in Nat
    BY <1>1, <1>3 DEF Timestamp, EventRows, Lines
  <2>2. e.native.as # "envelope" => e.native.ts # 0
    BY <1>1, <1>3 DEF RowOK, LineOK, EventRows, Lines
  <2> QED BY <2>1, <2>2
<1> QED BY <1>2, <1>3

-------------------------------------------------------------------------------
(* What a table of events keeps. *)

TableOK(S, X) == S \in SUBSET X /\ IsFiniteSet(S) /\ \A a, b \in S : a.key = b.key => a = b

LEMMA StoreTables ==
  ASSUME NEW st, NEW X, StoreOK(st, X), NEW m \in Machines
  PROVE  TableOK(st[m], X)
BY DEF StoreOK, TableOK

LEMMA TableStored ==
  ASSUME NEW st, NEW X, StoreOK(st, X), NEW m \in Machines, NEW S, TableOK(S, X)
  PROVE  StoreOK([st EXCEPT ![m] = S], X)
BY DEF StoreOK, TableOK

LEMMA AddedKeeps ==
  ASSUME NEW X, NEW S, TableOK(S, X), NEW E \in Seq(X)
  PROVE  TableOK(Added(S, E), X) /\ S \subseteq Added(S, E)
<1> DEFINE New == {j \in DOMAIN E : /\ E[j].key \notin KeysIn(S)
                                    /\ \A k \in 1..(j - 1) : E[k].key # E[j].key}
           R == {E[i] : i \in New}
<1>0. Added(S, E) = S \cup R
  BY DEF Added
<1>1. Len(E) \in Nat /\ DOMAIN E = 1..Len(E) /\ \A i \in 1..Len(E) : E[i] \in X
  BY LenProperties, ElementOfSeq
<1>2. R \subseteq X
  BY <1>1
<1>3. IsFiniteSet(R)
  <2> DEFINE f == [i \in New |-> E[i]]
  <2>1. IsFiniteSet(New)
    <3>1. IsFiniteSet(1..Len(E))
      BY <1>1, FS_Interval
    <3>2. New \in SUBSET (1..Len(E))
      BY <1>1
    <3> HIDE DEF New
    <3> QED BY <3>1, <3>2, FS_Subset
  <2>2. f \in Surjection(New, R)
    <3> HIDE DEF New
    <3> QED BY DEF Surjection
  <2> HIDE DEF f, New, R
  <2> QED BY <2>1, <2>2, FS_Surjection
<1>4. IsFiniteSet(S \cup R)
  <2> HIDE DEF R
  <2> QED BY <1>3, FS_Union DEF TableOK
<1>5. ASSUME NEW a \in S \cup R, NEW b \in S \cup R, a.key = b.key PROVE a = b
  <2>1. \A e \in R : e.key \notin KeysIn(S)
    OBVIOUS
  <2>2. \A e \in S : e.key \in KeysIn(S)
    BY DEF KeysIn
  <2>3. CASE a \in S /\ b \in S
    BY <1>5, <2>3 DEF TableOK
  <2>4. CASE a \in R /\ b \in R
    <3>1. PICK i \in New : a = E[i]
      BY <2>4
    <3>2. PICK j \in New : b = E[j]
      BY <2>4
    <3>3. i \in 1..Len(E) /\ j \in 1..Len(E) /\ i \in Nat /\ j \in Nat
      BY <1>1
    <3>4. ~(i < j)
      <4>1. i < j => i \in 1..(j - 1)
        BY <3>3
      <4> QED BY <1>5, <3>1, <3>2, <4>1
    <3>5. ~(j < i)
      <4>1. j < i => j \in 1..(i - 1)
        BY <3>3
      <4> QED BY <1>5, <3>1, <3>2, <4>1
    <3>6. i = j
      BY <3>3, <3>4, <3>5
    <3> QED BY <3>1, <3>2, <3>6
  <2> HIDE DEF R
  <2>5. ~(a \in S /\ b \in R) /\ ~(a \in R /\ b \in S)
    BY <1>5, <2>1, <2>2
  <2> QED BY <2>3, <2>4, <2>5
<1> HIDE DEF R
<1> QED BY <1>0, <1>2, <1>4, <1>5 DEF TableOK

LEMMA MergedKeeps ==
  ASSUME NEW X, NEW S, TableOK(S, X), NEW R, TableOK(R, X)
  PROVE  TableOK(Merged(S, R), X) /\ S \subseteq Merged(S, R)
<1> DEFINE New == {e \in R : e.key \notin KeysIn(S)}
<1>0. Merged(S, R) = S \cup New
  BY DEF Merged
<1>1. New \in SUBSET R /\ New \subseteq X
  BY DEF TableOK
<1>2. ASSUME NEW a \in S \cup New, NEW b \in S \cup New, a.key = b.key PROVE a = b
  BY <1>2 DEF TableOK, KeysIn
<1> HIDE DEF New
<1>3. IsFiniteSet(S \cup New)
  BY <1>1, FS_Subset, FS_Union DEF TableOK
<1> QED BY <1>0, <1>1, <1>2, <1>3 DEF TableOK

LEMMA TableKeyed == ASSUME NEW S, TableOK(S, GoodRows) PROVE Keyed(S)
BY DEF TableOK, Keyed, GoodRows, EventRows

-------------------------------------------------------------------------------
(* What is true of a line or a row stays true when the conversation grows.   *)

Grows ==
  /\ cli' = cli /\ record \in Seq(Records) /\ record' \in Seq(Records)
  /\ Len(record) <= Len(record')
  /\ \A n \in 1..Len(record) : record'[n] = record[n]

LEMMA AppendGrows ==
  ASSUME cli' = cli, record \in Seq(Records), NEW r \in Records, record' = Append(record, r)
  PROVE  Grows /\ Len(record') = Len(record) + 1 /\ record'[Len(record')] = r
<1>1. Len(record) \in Nat
  BY LenProperties
<1>2. /\ record' \in Seq(Records) /\ Len(record') = Len(record) + 1
      /\ \A n \in 1..Len(record) : record'[n] = record[n]
      /\ record'[Len(record) + 1] = r
  BY AppendProperties
<1> QED BY <1>1, <1>2 DEF Grows

LEMMA SameGrows ==
  ASSUME cli' = cli, record \in Seq(Records), record' = record
  PROVE  Grows
<1>1. Len(record) \in Nat
  BY LenProperties
<1> QED BY <1>1 DEF Grows

LEMMA KeyStays ==
  ASSUME Grows, NEW n \in 0..Len(record), NEW key \in EventKeys, KeyedBy(key, n)
  PROVE  KeyedBy(key, n)'
<1>0. Len(record) \in Nat
  BY LenProperties DEF Grows
<1>1. CASE n = 0
  <2>1. key[1] \in {"start", "end"}
    BY <1>1 DEF KeyedBy
  <2>2. KeyOf(key[1], n)' = KeyOf(key[1], n)
    BY <2>1 DEF KeyOf, StartKey, EndKey
  <2> QED BY <2>1, <2>2 DEF KeyedBy
<1>2. CASE n # 0
  <2>1. n \in 1..Len(record)
    BY <1>0, <1>2
  <2>2. record'[n] = record[n] /\ cli' = cli
    BY <2>1 DEF Grows
  <2>3. KeyOf(key[1], n)' = KeyOf(key[1], n)
    BY <2>2 DEF KeyOf, UserKey, OwnKey, CallKey, ResultKey, StartKey, EndKey
  <2> QED BY <1>2, <2>3 DEF KeyedBy
<1> QED BY <1>1, <1>2

LEMMA GoodStays ==
  ASSUME Grows
  PROVE  GoodLines \subseteq GoodLines' /\ GoodRows \subseteq GoodRows'
<1>0. Len(record) \in Nat /\ Len(record') \in Nat /\ Len(record) <= Len(record')
  BY LenProperties DEF Grows
<1>1. \A n \in 0..Len(record) : n \in 0..Len(record')
  BY <1>0
<1>2. Lines \subseteq Lines'
  BY <1>1 DEF Lines
<1>3. ASSUME NEW l \in Lines, LineOK(l) PROVE LineOK(l)'
  <2>1. l.as = "line" => l.n \in 1..Len(record)
    BY <1>0, <1>3 DEF LineOK, Lines
  <2>2. l.as = "line" => record'[l.n] = record[l.n]
    BY <2>1 DEF Grows
  <2> QED BY <1>2, <1>3, <2>2 DEF LineOK
<1>4. GoodLines \subseteq GoodLines'
  BY <1>2, <1>3 DEF GoodLines
<1>5. EventRows \subseteq EventRows'
  BY <1>1, <1>2 DEF EventRows
<1>6. ASSUME NEW e \in EventRows, RowOK(e) PROVE RowOK(e)'
  <2>1. e.rec \in 0..Len(record) /\ e.key \in EventKeys /\ e.native \in Lines
    BY DEF EventRows
  <2>2. KeyedBy(e.key, e.rec)'
    BY <1>6, <2>1, KeyStays DEF RowOK
  <2>3. e \in EventRows' /\ LineOK(e.native)'
    BY <1>3, <1>5, <1>6, <2>1 DEF RowOK
  <2> QED BY <1>6, <2>2, <2>3 DEF RowOK
<1>7. GoodRows \subseteq GoodRows'
  BY <1>5, <1>6 DEF GoodRows
<1> QED BY <1>4, <1>7

LEMMA StoreGrows ==
  ASSUME NEW st, NEW X, StoreOK(st, X), NEW Y, X \subseteq Y
  PROVE  StoreOK(st, Y)
BY DEF StoreOK

LEMMA FileGrows ==
  ASSUME NEW f, NEW X, f \in [Machines -> Seq(X)], NEW Y, X \subseteq Y
  PROVE  f \in [Machines -> Seq(Y)]
<1>1. Seq(X) \subseteq Seq(Y)
  BY SeqMonotonic
<1> QED BY <1>1

-------------------------------------------------------------------------------
(* The steps. *)

LEMMA BatchKeeps ==
  ASSUME NEW X, StoreOK(store, X), started \in [Machines -> Nat],
         NEW m \in Machines, NEW E \in Seq(X), NEW ts \in Nat, IngestBatch(m, E, ts)
  PROVE  StoreOK(store', X) /\ started' \in [Machines -> Nat]
<1>1. TableOK(Added(store[m], E), X)
  BY StoreTables, AddedKeeps
<1>2. store' = [store EXCEPT ![m] = Added(store[m], E)]
  BY DEF IngestBatch
<1>3. StoreOK(store', X)
  BY <1>1, <1>2, TableStored
<1>4. started' \in [Machines -> Nat]
  BY DEF IngestBatch
<1> QED BY <1>3, <1>4

LEMMA HookKeeps ==
  ASSUME NEW X, StoreOK(store, X), started \in [Machines -> Nat],
         NEW m \in Machines, NEW E \in Seq(X), Clock(m) \in Nat, NEW captured, Hook(m, E, captured)
  PROVE  StoreOK(store', X) /\ started' \in [Machines -> Nat]
<1>1. CASE captured
  BY <1>1, BatchKeeps DEF Hook
<1>2. CASE ~captured
  BY <1>2 DEF Hook
<1> QED BY <1>1, <1>2

LEMMA ClockIs ==
  ASSUME Settings, NEW m \in Machines
  PROVE  Clock(m) \in Nat \ {0}
<1>1. now \in Nat \ {0} /\ Ahead[m] \in Nat
  BY TransportAssumption DEF Settings
<1> QED BY <1>1 DEF Clock

LEMMA HookSeqIs ==
  ASSUME Settings, record \in Seq(Records), NEW m \in Machines, NEW after \in {0, 1}
  PROVE  HookSeq(m) + after \in Nat /\ HookSeq(m) + after >= Step
<1> DEFINE x == Ms(Clock(m))
           y == Len(record)
           z == Step
<1>1. x \in Nat /\ x >= z /\ z \in Nat /\ y \in Nat /\ MaxRecords \in Nat
  BY ClockIs, Bounds, LenProperties
<1>2. HookSeq(m) = x + MaxRecords + 3 * y
  BY DEF HookSeq
<1> HIDE DEF x, y, z
<1>3. x + MaxRecords + 3 * y + after \in Nat /\ x + MaxRecords + 3 * y + after >= z
  BY <1>1
<1> QED BY <1>2, <1>3 DEF z

(* The row of a hook is good for the record as it is then. *)
LEMMA HookRowIs ==
  ASSUME Settings, Grows, NEW m \in Machines, NEW n \in 0..Len(record'),
         NEW key \in EventKeys, KeyedBy(key, n)', NEW after \in {0, 1}
  PROVE  HookRow(m, key, n, after) \in GoodRows'
<1>l. PICK l : l = Envelope(n)
  OBVIOUS
<1>s. PICK s : s = HookSeq(m) + after
  OBVIOUS
<1>1. l \in Lines' /\ l.as = "envelope" /\ LineOK(l)'
  BY <1>l DEF Envelope, Lines, LineOK
<1>2. s \in Nat /\ s >= Step
  BY <1>s, HookSeqIs DEF Grows
<1>3. PICK e : e = [key |-> key, rec |-> n, seq |-> s, native |-> l]
  OBVIOUS
<1>e. HookRow(m, key, n, after) = e
  BY <1>l, <1>s, <1>3 DEF HookRow
<1>4. e \in EventRows' /\ e.key = key /\ e.rec = n /\ e.seq = s /\ e.native = l
  BY <1>1, <1>2, <1>3 DEF EventRows
<1>5. s + 1 >= Step
  BY <1>2, Bounds
<1>6. RowOK(e)'
  BY <1>1, <1>2, <1>4, <1>5 DEF RowOK, Step
<1> QED BY <1>e, <1>4, <1>6 DEF GoodRows

LEMMA RecordIsAfter ==
  ASSUME Grows, NEW n \in 1..Len(record')
  PROVE  /\ n \in Nat \ {0} /\ n \in 0..Len(record') /\ record'[n] \in Records
         /\ record'[n].text \in Nat /\ record'[n].call \in Nat
<1>1. Len(record') \in Nat /\ record'[n] \in Records
  BY ElementOfSeq, LenProperties DEF Grows
<1> QED BY <1>1 DEF Records

LEMMA MarkRowIs ==
  ASSUME Settings, Grows, NEW m \in Machines
  PROVE  /\ HookRow(m, StartKey, 0, 0) \in GoodRows'
         /\ HookRow(m, EndKey, 0, 0) \in GoodRows'
<1>1. 0 \in 0..Len(record')
  BY LenProperties DEF Grows
<1>2. /\ StartKey \in EventKeys /\ KeyedBy(StartKey, 0)'
      /\ EndKey \in EventKeys /\ KeyedBy(EndKey, 0)'
  BY DEF KeyedBy, EventKeys, StartKey, EndKey, KeyOf
<1> QED BY <1>1, <1>2, HookRowIs

LEMMA HookEventsAre ==
  ASSUME Settings, Grows, NEW m \in Machines, NEW n \in 1..Len(record'),
         record'[n].kind = "result" => record'[n].call \in 1..Len(record')
  PROVE  HookEvents(m, n) \in Seq(GoodRows')
<1>0. /\ n \in Nat \ {0} /\ n \in 0..Len(record')
      /\ record'[n].text \in Nat /\ record'[n].call \in Nat
  BY RecordIsAfter
<1>1. CASE record'[n].kind \in {"prompt", "blocks"}
  <2>1. PICK key : key = <<"user", IF cli = "claude" THEN n ELSE record'[n].text>>
    OBVIOUS
  <2>2. key \in EventKeys
    BY <1>0, <2>1 DEF EventKeys
  <2>3. KeyedBy(key, n)'
    BY <1>0, <2>1 DEF KeyedBy, KeyOf, UserKey, Grows
  <2>4. HookRow(m, key, n, 0) \in GoodRows'
    BY <1>0, <2>2, <2>3, HookRowIs
  <2>5. HookEvents(m, n) = <<HookRow(m, key, n, 0)>>
    BY <1>1, <2>1 DEF HookEvents
  <2> QED BY <2>4, <2>5
<1>2. CASE record'[n].kind = "result"
  <2>1. PICK c : c = record'[n].call
    OBVIOUS
  <2>2. c \in Nat /\ c \in 0..Len(record') /\ c # 0
    BY <1>0, <1>2, <2>1
  <2>3. CallKey(c) \in EventKeys /\ KeyedBy(CallKey(c), c)'
    BY <2>2 DEF EventKeys, KeyedBy, KeyOf, CallKey
  <2>4. PICK key : key = <<"result", c>>
    OBVIOUS
  <2>5. key \in EventKeys /\ KeyedBy(key, n)'
    BY <1>0, <2>1, <2>2, <2>4 DEF EventKeys, KeyedBy, KeyOf, ResultKey
  <2>6. HookRow(m, CallKey(c), c, 0) \in GoodRows' /\ HookRow(m, key, n, 1) \in GoodRows'
    <3>1. PICK k : k = CallKey(c)
      OBVIOUS
    <3>2. k \in EventKeys /\ KeyedBy(k, c)'
      BY <2>3, <3>1 DEF CallKey
    <3>3. HookRow(m, k, c, 0) \in GoodRows'
      BY <2>2, <3>2, HookRowIs
    <3>4. HookRow(m, key, n, 1) \in GoodRows'
      BY <1>0, <2>5, HookRowIs
    <3> QED BY <3>1, <3>3, <3>4
  <2>7. HookEvents(m, n) = <<HookRow(m, CallKey(c), c, 0), HookRow(m, key, n, 1)>>
    BY <1>2, <2>1, <2>4 DEF HookEvents
  <2> QED BY <2>6, <2>7
<1>3. CASE record'[n].kind \notin {"prompt", "blocks", "result"}
  <2>1. HookEvents(m, n) = <<>>
    BY <1>3 DEF HookEvents
  <2> QED BY <2>1, EmptySeq
<1> QED BY <1>1, <1>2, <1>3

LEMMA ShownIs ==
  ASSUME record \in Seq(Records), NEW lines \in Seq(GoodLines)
  PROVE  Shown(lines) \subseteq 1..Len(record)
<1> SUFFICES ASSUME NEW i \in DOMAIN lines, lines[i].as = "line"
             PROVE  lines[i].n \in 1..Len(record)
  BY DEF Shown
<1>1. DOMAIN lines = 1..Len(lines) /\ Len(record) \in Nat
  BY LenProperties
<1>2. lines[i] \in GoodLines
  BY <1>1, ElementOfSeq
<1> QED BY <1>1, <1>2 DEF GoodLines, LineOK, Lines

LEMMA NewRecordIs ==
  ASSUME ConversationInv, NEW m \in Machines, NEW what \in Written \cup {"meta", "noise"},
         NEW text \in Nat, NEW call \in Nat
  PROVE  NewRecord(m, what, text, call) \in Records
<1>1. Clock(m) \in Nat \ {0}
  BY ClockIs DEF ConversationInv
<1>2. Shown(file[m]) \subseteq Nat
  <2>1. file[m] \in Seq(GoodLines) /\ Len(record) \in Nat
    BY LenProperties DEF ConversationInv
  <2>2. Shown(file[m]) \subseteq 1..Len(record)
    BY <2>1, ShownIs DEF ConversationInv
  <2> QED BY <2>2
<1> QED BY <1>1, <1>2 DEF NewRecord, Records

LEMMA TickKeeps ==
  ASSUME Settings, Tick, cli' = cli, flip' = flip, resumes' = resumes
  PROVE  Settings'
BY DEF Settings, Tick

(* A line that the CLI writes is about the record it just made. *)
LEMMA NewLineIs ==
  ASSUME Grows, NEW n \in 1..Len(record'), NEW ts \in Nat \ {0}, record'[n].ts = ts
  PROVE  [n |-> n, as |-> "line", ts |-> ts] \in GoodLines'
<1>1. n \in 0..Len(record') /\ n # 0
  BY RecordIsAfter
<1> QED BY <1>1 DEF GoodLines, LineOK, Lines

LEMMA WriteKeeps ==
  ASSUME ConversationInv, NEW m \in Machines, NEW what \in Written, NEW text \in Nat,
         NEW call \in Nat, what = "result" => call \in OpenCalls(m),
         NEW captured, Write(m, what, text, call, captured)
  PROVE  ConversationInv'
<1> USE DEF ConversationInv
<1>1. PICK r : r = NewRecord(m, what, text, call)
  OBVIOUS
<1>2. r \in Records /\ r.kind = what /\ r.call = call /\ r.ts = Clock(m)
  BY <1>1, NewRecordIs DEF NewRecord
<1>3. Grows /\ Len(record') = Len(record) + 1 /\ record'[Len(record')] = r
  BY <1>1, <1>2, AppendGrows DEF Write
<1>4. PICK n : n = Len(record')
  OBVIOUS
<1>5. Len(record) \in Nat /\ n \in 1..Len(record') /\ Clock(m) \in Nat \ {0}
  BY <1>3, <1>4, LenProperties, ClockIs
<1>6. GoodLines \subseteq GoodLines' /\ GoodRows \subseteq GoodRows'
  BY <1>3, GoodStays
<1>7. Settings'
  BY TickKeeps DEF Write
<1>8. HookEvents(m, n) \in Seq(GoodRows')
  <2>1. record'[n].kind = "result" => record'[n].call \in 1..Len(record')
    <3> HAVE record'[n].kind = "result"
    <3>1. call \in Shown(file[m])
      BY <1>2, <1>3, <1>4 DEF OpenCalls, Calls
    <3>2. call \in 1..Len(record)
      BY <3>1, ShownIs
    <3> QED BY <1>2, <1>3, <1>4, <1>5, <3>2
  <2> QED BY <1>3, <1>5, <2>1, HookEventsAre
<1>9. StoreOK(store', GoodRows') /\ started' \in [Machines -> Nat]
  <2>1. PICK X : X = GoodRows'
    OBVIOUS
  <2>2. StoreOK(store, X)
    BY <1>6, <2>1, StoreGrows
  <2>3. HookEvents(m, n) \in Seq(X) /\ Hook(m, HookEvents(m, n), captured)
    BY <1>4, <1>8, <2>1 DEF Write
  <2> QED BY <1>5, <2>1, <2>2, <2>3, HookKeeps
<1>10. file' \in [Machines -> Seq(GoodLines')]
  <2>1. PICK X : X = GoodLines'
    OBVIOUS
  <2>2. PICK l : l = [n |-> n, as |-> "line", ts |-> Clock(m)]
    OBVIOUS
  <2>3. l \in X
    BY <1>2, <1>3, <1>4, <1>5, <2>1, <2>2, NewLineIs
  <2>4. file \in [Machines -> Seq(X)]
    BY <1>6, <2>1, FileGrows
  <2>5. Append(file[m], l) \in Seq(X)
    BY <2>3, <2>4, AppendProperties
  <2>6. file' = [file EXCEPT ![m] = Append(file[m], l)]
    BY <1>4, <2>2 DEF Write
  <2> QED BY <2>1, <2>4, <2>5, <2>6
<1>11. record' \in Seq(Records)
  BY <1>3 DEF Grows
<1>12. prime' \in [Machines -> Prompts]
  BY DEF Write
<1> QED BY <1>7, <1>9, <1>10, <1>11, <1>12

LEMMA OpenKeeps ==
  ASSUME ConversationInv, NEW m \in Machines, NEW captured, Open(m, captured)
  PROVE  ConversationInv'
<1> USE DEF ConversationInv
<1>1. PICK r : r \in Records /\ r.ts = Clock(m) /\ record' = Append(record, r)
  <2>1. NewRecord(m, "meta", 0, 0) \in Records /\ NewRecord(m, "noise", 0, 0) \in Records
    BY NewRecordIs
  <2>2. PICK r \in Records : r.ts = Clock(m) /\ record' = <<r>>
    BY <2>1 DEF Open, NewRecord
  <2>3. record = <<>>
    BY DEF Open
  <2>4. Append(<<>>, r) = <<r>>
    OBVIOUS
  <2> QED BY <2>2, <2>3, <2>4
<1>2. cli' = cli
  BY DEF Open
<1>3. Grows /\ Len(record') = Len(record) + 1 /\ record'[Len(record')] = r
  BY <1>1, <1>2, AppendGrows
<1>4. Len(record) \in Nat /\ 1 \in 1..Len(record') /\ Clock(m) \in Nat \ {0}
  BY <1>3, LenProperties, ClockIs
<1>5. GoodLines \subseteq GoodLines' /\ GoodRows \subseteq GoodRows'
  BY <1>3, GoodStays
<1>6. Settings'
  BY TickKeeps DEF Open
<1>7. StoreOK(store', GoodRows') /\ started' \in [Machines -> Nat]
  <2>1. PICK X : X = GoodRows'
    OBVIOUS
  <2>2. StoreOK(store, X)
    BY <1>5, <2>1, StoreGrows
  <2>3. PICK e : e = HookRow(m, StartKey, 0, 0)
    OBVIOUS
  <2>4. e \in X
    BY <1>3, <2>1, <2>3, MarkRowIs
  <2>5. <<e>> \in Seq(X) /\ Hook(m, <<e>>, captured)
    BY <2>3, <2>4 DEF Open
  <2> QED BY <1>4, <2>1, <2>2, <2>5, HookKeeps
<1>8. file' \in [Machines -> Seq(GoodLines')]
  <2>1. PICK X : X = GoodLines'
    OBVIOUS
  <2>2. PICK l : l = [n |-> 1, as |-> "line", ts |-> Clock(m)]
    OBVIOUS
  <2>3. l \in X
    <3>1. record = <<>> /\ Len(<<>>) = 0
      BY DEF Open
    <3>2. record'[1].ts = Clock(m)
      BY <1>1, <1>3, <3>1
    <3> QED BY <1>3, <1>4, <2>1, <2>2, <3>2, NewLineIs
  <2>4. file \in [Machines -> Seq(X)]
    BY <1>5, <2>1, FileGrows
  <2>5. file' = [file EXCEPT ![m] = <<l>>]
    BY <2>2 DEF Open
  <2>6. <<l>> \in Seq(X)
    BY <2>3
  <2> QED BY <2>1, <2>4, <2>5, <2>6
<1>9. record' \in Seq(Records)
  BY <1>3 DEF Grows
<1>10. prime' \in [Machines -> Prompts]
  BY DEF Open
<1> QED BY <1>6, <1>7, <1>8, <1>9, <1>10

(* The steps that leave the conversation as it is. *)
LEMMA RestKeeps ==
  ASSUME ConversationInv, UNCHANGED <<cli, flip, now, record>>, resumes' \in Nat,
         file' \in [Machines -> Seq(GoodLines)], StoreOK(store', GoodRows),
         started' \in [Machines -> Nat], prime' \in [Machines -> Prompts]
  PROVE  ConversationInv'
<1>1. Grows
  BY SameGrows DEF ConversationInv
<1>2. PICK X : X = GoodLines'
  OBVIOUS
<1>3. PICK Y : Y = GoodRows'
  OBVIOUS
<1>4. GoodLines \subseteq X /\ GoodRows \subseteq Y
  BY <1>1, <1>2, <1>3, GoodStays
<1>5. file' \in [Machines -> Seq(X)]
  BY <1>4, FileGrows
<1>6. StoreOK(store', Y)
  BY <1>4, StoreGrows
<1>7. Settings' /\ record' \in Seq(Records)
  BY DEF ConversationInv, Settings
<1> QED BY <1>2, <1>3, <1>5, <1>6, <1>7 DEF ConversationInv

LEMMA StopKeeps ==
  ASSUME ConversationInv, NEW m \in Machines, Stop(m)
  PROVE  ConversationInv'
<1>1. Grows /\ record' = record /\ cli' = cli
  BY SameGrows DEF ConversationInv, Stop
<1>2. HookRow(m, EndKey, 0, 0) \in GoodRows'
  BY <1>1, MarkRowIs DEF ConversationInv
<1>3. GoodRows' = GoodRows
  BY <1>1 DEF GoodRows, EventRows, RowOK, LineOK, Lines, KeyedBy, KeyOf, UserKey, OwnKey,
              CallKey, ResultKey, Step
<1>4. PICK e : e = HookRow(m, EndKey, 0, 0)
  OBVIOUS
<1>5. <<e>> \in Seq(GoodRows) /\ IngestBatch(m, <<e>>, Clock(m)) /\ Clock(m) \in Nat
  BY <1>2, <1>3, <1>4, OneKey, ClockIs DEF Stop, ConversationInv
<1>6. StoreOK(store', GoodRows) /\ started' \in [Machines -> Nat]
  BY <1>5, BatchKeeps DEF ConversationInv
<1>7. UNCHANGED <<cli, flip, now, record, file, prime, resumes>>
  BY DEF Stop
<1>8. /\ file' \in [Machines -> Seq(GoodLines)] /\ prime' \in [Machines -> Prompts]
      /\ resumes' \in Nat
  BY <1>7 DEF ConversationInv, Settings
<1> QED BY <1>6, <1>7, <1>8, RestKeeps

LEMMA SweepKeeps ==
  ASSUME ConversationInv, NEW m \in Machines, Sweep(m)
  PROVE  ConversationInv'
<1>1. PICK E : E = FromFile(file[m])
  OBVIOUS
<1>2. E \in Seq(GoodRows)
  BY <1>1, FromFileIs DEF ConversationInv
<1>3. PICK ts : ts = IF E = <<>> THEN 0 ELSE Timestamp(E[1])
  OBVIOUS
<1>4. ts \in Nat
  <2>1. CASE E = <<>>
    BY <1>3, <2>1
  <2>2. CASE E # <<>>
    <3>1. Len(E) \in Nat /\ Len(E) # 0
      BY <1>2, <2>2, LenProperties, EmptySeq
    <3>2. E[1] \in GoodRows
      BY <1>2, <3>1, ElementOfSeq
    <3>3. Timestamp(E[1]) \in Nat
      BY <3>2, TimestampIs
    <3> QED BY <1>3, <2>2, <3>3
  <2> QED BY <2>1, <2>2
<1>5. IngestBatch(m, E, ts)
  BY <1>1, <1>3 DEF Sweep
<1>6. StoreOK(store', GoodRows) /\ started' \in [Machines -> Nat]
  BY <1>2, <1>4, <1>5, BatchKeeps DEF ConversationInv
<1>7. UNCHANGED <<cli, flip, now, record, file, prime, resumes>>
  BY DEF Sweep
<1>8. /\ file' \in [Machines -> Seq(GoodLines)] /\ prime' \in [Machines -> Prompts]
      /\ resumes' \in Nat
  BY <1>7 DEF ConversationInv, Settings
<1> QED BY <1>6, <1>7, <1>8, RestKeeps

LEMMA PulledIs ==
  ASSUME ConversationInv, NEW m \in Machines, NEW from \in Machines
  PROVE  TableOK(Pulled(m, from), GoodRows)
BY StoreTables, MergedKeeps DEF ConversationInv, Pulled

LEMMA SyncKeeps ==
  ASSUME ConversationInv, NEW m \in Machines, NEW from \in Machines, Sync(m, from)
  PROVE  ConversationInv'
<1>1. PICK S : S = Pulled(m, from)
  OBVIOUS
<1>2. TableOK(S, GoodRows) /\ store' = [store EXCEPT ![m] = S]
  BY <1>1, PulledIs DEF Sync, Pulled
<1>3. StoreOK(store', GoodRows)
  BY <1>2, TableStored DEF ConversationInv
<1>4. started' \in [Machines -> Nat]
  BY DEF Sync, ConversationInv
<1>5. UNCHANGED <<cli, flip, now, record, file, prime, resumes>>
  BY DEF Sync
<1>6. /\ file' \in [Machines -> Seq(GoodLines)] /\ prime' \in [Machines -> Prompts]
      /\ resumes' \in Nat
  BY <1>5 DEF ConversationInv, Settings
<1> QED BY <1>3, <1>4, <1>5, <1>6, RestKeeps

LEMMA ResolveKeeps ==
  ASSUME ConversationInv, NEW m \in Machines, NEW from \in Machines, ResolveSession(m, from)
  PROVE  started' \in [Machines -> Nat] /\ started'[m] # 0 /\ resumes' \in Nat
BY DEF ConversationInv, Settings, ResolveSession

(* What a resume writes out. *)

LEMMA ClaudeReplayIs ==
  ASSUME NEW E \in Seq(GoodRows)
  PROVE  /\ ClaudeHydrate(E) \in Seq(GoodLines)
         /\ \A k \in 1..Len(E) : E[k].native.as # "none" =>
              \E i \in 1..Len(ClaudeHydrate(E)) : ClaudeHydrate(E)[i] = E[k].native
<1> DEFINE q == [i \in DOMAIN E |-> IF E[i].native.as = "none" THEN <<>> ELSE <<E[i].native>>]
           t == FlattenSeq(q)
<1>1. /\ Len(E) \in Nat /\ DOMAIN E = 1..Len(E)
      /\ \A i \in 1..Len(E) : E[i].native \in GoodLines
  <2>1. \A i \in 1..Len(E) : E[i] \in GoodRows
    BY ElementOfSeq
  <2> QED BY <2>1, LenProperties DEF GoodRows, RowOK, EventRows, GoodLines
<1>2. q \in [1..Len(E) -> Seq(GoodLines)]
  <2>1. <<>> \in Seq(GoodLines) /\ \A l \in GoodLines : <<l>> \in Seq(GoodLines)
    BY EmptySeq, OneKey
  <2> QED BY <1>1, <2>1
<1>3. \A k \in 1..Len(E) : E[k].native.as # "none" => q[k] = <<E[k].native>>
  BY <1>1
<1> HIDE DEF q
<1>4. q \in Seq(Seq(GoodLines)) /\ Len(q) = Len(E)
  BY <1>1, <1>2, FcnIsSeq
<1>5. t \in Seq(GoodLines) /\ Flat(t, q, Len(E))
  BY <1>4, FlattenIs
<1>6. ClaudeHydrate(E) = <<>> \o t
  BY DEF ClaudeHydrate, ClaudeReplay, q
<1> HIDE DEF t
<1>7. <<>> \o t = t
  BY <1>5, ConcatEmptySeq
<1>8. ASSUME NEW k \in 1..Len(E), E[k].native.as # "none"
      PROVE  \E i \in 1..Len(t) : t[i] = E[k].native
  <2>1. q[k] = <<E[k].native>> /\ 1 \in 1..Len(q[k]) /\ q[k][1] = E[k].native
    <3>1. PICK l : l = E[k].native
      OBVIOUS
    <3>2. q[k] = <<l>>
      BY <1>3, <1>8, <3>1
    <3>3. Len(<<l>>) = 1 /\ <<l>>[1] = l
      OBVIOUS
    <3> QED BY <3>1, <3>2, <3>3
  <2>2. \E i \in 1..Len(t) : t[i] = q[k][1]
    BY <1>5, <2>1 DEF Flat
  <2> QED BY <2>1, <2>2
<1> QED BY <1>5, <1>6, <1>7, <1>8

LEMMA MetaIs ==
  ASSUME record \in Seq(Records), NEW ts \in Nat \ {0}
  PROVE  Meta(ts) \in GoodLines /\ IsMeta(Meta(ts))
<1>1. 0 \in 0..Len(record)
  BY LenProperties
<1> QED BY <1>1 DEF Meta, GoodLines, LineOK, Lines, IsMeta

LEMMA CodexReplayIs ==
  ASSUME record \in Seq(Records), NEW E \in Seq(GoodRows), NEW ts \in Nat \ {0}
  PROVE  /\ CodexHydrate(E, ts) \in Seq(GoodLines)
         /\ 1 \in 1..Len(CodexHydrate(E, ts)) /\ IsMeta(CodexHydrate(E, ts)[1])
         /\ \A k \in 1..Len(E) : E[k].native.as # "none" =>
              \E i \in 1..Len(CodexHydrate(E, ts)) : CodexHydrate(E, ts)[i] = E[k].native
<1> DEFINE q == CodexReplay(E)
           t == EnsureLeadingSessionMeta(q, ts)
<1>1. /\ Len(E) \in Nat /\ DOMAIN E = 1..Len(E)
      /\ \A i \in 1..Len(E) : E[i] \in GoodRows /\ E[i].native \in GoodLines
  <2>1. \A i \in 1..Len(E) : E[i] \in GoodRows
    BY ElementOfSeq
  <2> QED BY <2>1, LenProperties DEF GoodRows, RowOK, EventRows, GoodLines
<1>2. q = [i \in 1..Len(E) |-> IF E[i].native.as = "none" THEN SynthesizeRolloutLine(E[i])
                               ELSE E[i].native]
  BY <1>1 DEF CodexReplay
<1> HIDE DEF q
<1>3. ASSUME NEW i \in 1..Len(E), E[i].native.as = "none"
      PROVE  SynthesizeRolloutLine(E[i]) \in GoodLines
  BY <1>1, <1>3, TimestampIs, MetaIs DEF SynthesizeRolloutLine
<1>4. q \in [1..Len(E) -> GoodLines]
  BY <1>1, <1>2, <1>3
<1>5. q \in Seq(GoodLines) /\ Len(q) = Len(E)
  BY <1>1, <1>4, FcnIsSeq
<1>6. \A k \in 1..Len(E) : E[k].native.as # "none" => q[k] = E[k].native
  BY <1>2
<1>7. CodexHydrate(E, ts) = <<>> \o t
  BY DEF CodexHydrate, q
<1>8. /\ t \in Seq(GoodLines) /\ 1 \in 1..Len(t) /\ IsMeta(t[1])
      /\ \A k \in 1..Len(E) : \E i \in 1..Len(t) : t[i] = q[k]
  <2>1. CASE q # <<>> /\ IsMeta(q[1])
    <3>1. t = q
      BY <2>1 DEF EnsureLeadingSessionMeta
    <3>2. Len(q) # 0
      BY <1>5, <2>1, EmptySeq
    <3> HIDE DEF t
    <3> QED BY <1>1, <1>5, <2>1, <3>1, <3>2
  <2>2. CASE ~(q # <<>> /\ IsMeta(q[1]))
    <3>1. t = <<Meta(ts)>> \o q
      BY <2>2 DEF EnsureLeadingSessionMeta
    <3> HIDE DEF t
    <3>2. PICK l : l = Meta(ts)
      OBVIOUS
    <3>3. l \in GoodLines /\ IsMeta(l)
      BY <3>2, MetaIs
    <3>4. <<l>> \in Seq(GoodLines) /\ Len(<<l>>) = 1 /\ <<l>>[1] = l
      BY <3>3
    <3>5. /\ t \in Seq(GoodLines) /\ Len(t) = 1 + Len(q)
          /\ \A i \in 1..(1 + Len(q)) : t[i] = IF i <= 1 THEN <<l>>[i] ELSE q[i - 1]
      BY <1>5, <3>1, <3>2, <3>4, ConcatProperties
    <3>6. 1 \in 1..Len(t) /\ t[1] = l
      BY <1>1, <1>5, <3>4, <3>5
    <3>7. ASSUME NEW k \in 1..Len(E) PROVE \E i \in 1..Len(t) : t[i] = q[k]
      <4>1. k + 1 \in 1..Len(t) /\ ~(k + 1 <= 1) /\ (k + 1) - 1 = k
        BY <1>1, <1>5, <3>5
      <4>2. t[k + 1] = q[k]
        BY <1>1, <1>5, <3>5, <4>1
      <4> QED BY <4>1, <4>2
    <3> QED BY <3>3, <3>5, <3>6, <3>7
  <2> QED BY <2>1, <2>2
<1> HIDE DEF t
<1>9. <<>> \o t = t
  BY <1>8, ConcatEmptySeq
<1> QED BY <1>6, <1>7, <1>8, <1>9

LEMMA GreatestOf ==
  ASSUME NEW n \in Nat, NEW I \in SUBSET (1..n), I # {}
  PROVE  \E i \in I : \A j \in I : j <= i
<1> DEFINE T == {n - i : i \in I}
<1>0. \A i \in I : i \in 1..n
  OBVIOUS
<1>1. T \in SUBSET Nat /\ T # {}
  <2>1. \A i \in I : n - i \in Nat
    BY <1>0
  <2>2. PICK i \in I : TRUE
    OBVIOUS
  <2>3. n - i \in T
    OBVIOUS
  <2> QED BY <2>1, <2>3
<1>2. PICK t \in T : \A u \in T : t <= u
  <2> HIDE DEF T
  <2> QED BY <1>1, LeastOf
<1>3. PICK i \in I : t = n - i
  OBVIOUS
<1>4. ASSUME NEW j \in I PROVE j <= i
  <2>1. n - j \in T
    OBVIOUS
  <2> HIDE DEF T
  <2>2. n - i <= n - j
    BY <1>2, <1>3, <2>1
  <2>3. i \in Nat /\ j \in Nat
    BY <1>0
  <2> QED BY ONLY <2>2, <2>3, n \in Nat
<1> QED BY <1>4

LEMMA RenderIs ==
  ASSUME NEW E \in Seq(GoodRows)
  PROVE  /\ RenderRows(E) \in Seq(EventKeys)
         /\ \A k \in 1..Len(RenderRows(E)) : \E i \in 1..Len(E) : RenderRows(E)[k] = E[i].key
<1> DEFINE q == [i \in DOMAIN E |->
                   IF E[i].key[1] \in {"user", "text", "call"} THEN <<E[i].key>> ELSE <<>>]
           t == FlattenSeq(q)
<1>1. /\ Len(E) \in Nat /\ DOMAIN E = 1..Len(E)
      /\ \A i \in 1..Len(E) : E[i].key \in EventKeys
  <2>1. \A i \in 1..Len(E) : E[i] \in GoodRows
    BY ElementOfSeq
  <2> QED BY <2>1, LenProperties DEF GoodRows, EventRows
<1>2. q \in [1..Len(E) -> Seq(EventKeys)]
  <2>1. <<>> \in Seq(EventKeys) /\ \A l \in EventKeys : <<l>> \in Seq(EventKeys)
    BY EmptySeq, OneKey
  <2> QED BY <1>1, <2>1
<1>3. ASSUME NEW i \in 1..Len(E), NEW j \in 1..Len(q[i]) PROVE q[i][j] = E[i].key
  <2>1. PICK key : key = E[i].key
    OBVIOUS
  <2>2. q[i] = <<key>> \/ q[i] = <<>>
    BY <1>1, <2>1
  <2> HIDE DEF q
  <2>3. Len(<<key>>) = 1 /\ <<key>>[1] = key /\ Len(<<>>) = 0
    OBVIOUS
  <2>4. q[i] # <<>>
    <3>1. Len(q[i]) # 0
      BY <1>3
    <3> QED BY <2>3, <3>1
  <2>5. q[i] = <<key>>
    BY <2>2, <2>4
  <2>6. j \in 1..Len(<<key>>)
    BY <2>5
  <2>7. j = 1
    BY <2>3, <2>6
  <2> QED BY <2>1, <2>3, <2>5, <2>7
<1> HIDE DEF q
<1>4. q \in Seq(Seq(EventKeys)) /\ Len(q) = Len(E)
  BY <1>1, <1>2, FcnIsSeq
<1>5. t \in Seq(EventKeys) /\ Flat(t, q, Len(E))
  BY <1>4, FlattenIs
<1>6. RenderRows(E) = t
  BY DEF RenderRows, q
<1> HIDE DEF t
<1>7. ASSUME NEW k \in 1..Len(t) PROVE \E i \in 1..Len(E) : t[k] = E[i].key
  <2>1. PICK i \in 1..Len(E) : \E j \in 1..Len(q[i]) : t[k] = q[i][j]
    BY <1>5 DEF Flat
  <2> QED BY <1>3, <2>1
<1> QED BY <1>5, <1>6, <1>7

LEMMA KeyNumber ==
  ASSUME NEW key \in EventKeys PROVE key[2] \in Nat
BY DEF EventKeys, StartKey, EndKey

PromptRows(E) == {i \in DOMAIN E : EventKind(E[i]) = "user"}
OpenRows(E) == {i \in DOMAIN E : E[i].key[1] = "call" /\ E[i].key[2] \notin ResultsByCall(E)}

LEMMA PickNextIs ==
  ASSUME NEW E \in Seq(GoodRows)
  PROVE  \/ PickNext(E) = NoKey
         \/ \E i \in PromptRows(E) \cup OpenRows(E) : PickNext(E) = E[i].key
<1> DEFINE prompts == PromptRows(E)
           open == OpenRows(E)
           last(I) == E[CHOOSE i \in I : \A j \in I : j <= i].key
<1>1. PickNext(E) = IF prompts # {} THEN last(prompts) ELSE IF open # {} THEN last(open) ELSE NoKey
  BY DEF PickNext, PromptRows, OpenRows
<1>2. ASSUME NEW I \in SUBSET DOMAIN E, I # {} PROVE \E i \in I : last(I) = E[i].key
  <2>1. Len(E) \in Nat /\ DOMAIN E = 1..Len(E)
    BY LenProperties
  <2>2. \E i \in I : \A j \in I : j <= i
    BY <1>2, <2>1, GreatestOf
  <2> QED BY <2>2
<1>3. prompts \in SUBSET DOMAIN E /\ open \in SUBSET DOMAIN E
  BY DEF PromptRows, OpenRows
<1> HIDE DEF prompts, open, last
<1>4. PickNext(E) = NoKey \/ \E i \in prompts \cup open : PickNext(E) = E[i].key
  BY <1>1, <1>2, <1>3
<1> QED BY <1>4 DEF prompts, open

LEMMA PrimeIs ==
  ASSUME NEW E \in Seq(GoodRows), RecentN \in Nat \ {0}
  PROVE  SynthesizePrime(E) \in Prompts
<1> DEFINE rows == RenderRows(E)
           first == IF Len(rows) > RecentN THEN Len(rows) - RecentN + 1 ELSE 1
<1>1. SynthesizePrime(E) = [recent |-> SubSeq(rows, first, Len(rows)), pairs |-> ResultsByCall(E),
                            next |-> PickNext(E)]
  BY DEF SynthesizePrime
<1>2. DOMAIN E = 1..Len(E) /\ \A i \in 1..Len(E) : E[i].key \in EventKeys
  <2>1. \A i \in 1..Len(E) : E[i] \in GoodRows
    BY ElementOfSeq
  <2> QED BY <2>1, LenProperties DEF GoodRows, EventRows
<1>3. SubSeq(rows, first, Len(rows)) \in Seq(EventKeys)
  <2>1. rows \in Seq(EventKeys)
    BY RenderIs
  <2> HIDE DEF rows
  <2>2. Len(rows) \in Nat /\ first \in 1..(Len(rows) + 1)
    BY <2>1, LenProperties
  <2>3. \A i \in first..Len(rows) : i \in 1..Len(rows)
    BY <2>2
  <2>4. first \in Int /\ Len(rows) \in Int /\ \A i \in first..Len(rows) : rows[i] \in EventKeys
    BY <2>1, <2>2, <2>3, ElementOfSeq
  <2> HIDE DEF first
  <2> QED BY ONLY <2>4, SubSeqProperties
<1>4. ResultsByCall(E) \in SUBSET Nat
  BY <1>2, KeyNumber DEF ResultsByCall
<1>5. PickNext(E) \in EventKeys \cup {NoKey}
  <2>1. PromptRows(E) \cup OpenRows(E) \subseteq 1..Len(E)
    BY <1>2 DEF PromptRows, OpenRows
  <2> QED BY <1>2, <2>1, PickNextIs
<1> HIDE DEF rows, first
<1> QED BY <1>1, <1>3, <1>4, <1>5 DEF Prompts

LEMMA LoadedIs ==
  ASSUME flip \in BOOLEAN, NEW S, TableOK(S, GoodRows), NEW E, E = LoadAllEvents(S)
  PROVE  /\ E \in Seq(GoodRows) /\ Len(E) \in Nat /\ DOMAIN E = 1..Len(E)
         /\ \A k \in 1..Len(E) : E[k] \in S
         /\ \A i, j \in 1..Len(E) : i < j => E[i].seq <= E[j].seq /\ Precedes(E[i], E[j])
         /\ ~Torn(S) => \A e \in S : \E k \in 1..Len(E) : E[k] = e
<1>1. Keyed(S) /\ S \subseteq GoodRows
  BY TableKeyed DEF TableOK
<1>2. PICK s : s = Sorted(S)
  OBVIOUS
<1>3. Paged(E, S, s, 1) /\ InRow(s, S)
  BY <1>1, <1>2, LoadIs, SortedIs, TransportAssumption
<1>4. E \in Seq(S)
  BY <1>3 DEF Paged
<1>5. E \in Seq(GoodRows) /\ Len(E) \in Nat /\ DOMAIN E = 1..Len(E) /\ \A k \in 1..Len(E) : E[k] \in S
  BY <1>1, <1>4, SeqMonotonic, LenProperties, ElementOfSeq
<1>6. ASSUME ~Torn(S), NEW e \in S PROVE \E k \in 1..Len(E) : E[k] = e
  <2>1. PICK q \in 1..Len(s) : s[q] = e
    BY <1>3 DEF InRow
  <2>2. PICK k \in 1..Len(E) : E[k] = s[q]
    BY <1>3, <1>6, <2>1 DEF Paged
  <2> QED BY <2>1, <2>2
<1>7. ASSUME NEW i \in 1..Len(E), NEW j \in 1..Len(E), i < j
      PROVE  E[i].seq <= E[j].seq /\ Precedes(E[i], E[j])
  <2>1. Precedes(E[i], E[j])
    BY <1>3, <1>7 DEF Paged
  <2>2. E[i].seq \in Nat /\ E[j].seq \in Nat
    BY <1>1, <1>5 DEF Keyed
  <2> QED BY <2>1, <2>2 DEF Precedes
<1> QED BY <1>5, <1>6, <1>7

LEMMA ReplayKeeps ==
  ASSUME ConversationInv, NEW m \in Machines, NEW from \in Machines, NEW captured,
         ResolveSession(m, from), Replay(m, from, captured)
  PROVE  ConversationInv'
<1>1. started' \in [Machines -> Nat] /\ started'[m] # 0 /\ resumes' \in Nat
  BY ResolveKeeps
<1>2. PICK S : S = Pulled(m, from)
  OBVIOUS
<1>3. TableOK(S, GoodRows)
  BY <1>2, PulledIs
<1>4. PICK E : E = LoadAllEvents(S)
  OBVIOUS
<1>5. E \in Seq(GoodRows)
  BY <1>3, <1>4, LoadedIs DEF ConversationInv, Settings
<1>6. UNCHANGED <<cli, flip, now, record, prime>>
  BY DEF Replay
<1>7. file' \in [Machines -> Seq(GoodLines)]
  <2>1. PICK lines : lines = IF cli = "claude" THEN ClaudeHydrate(E) ELSE CodexHydrate(E, started'[m])
    OBVIOUS
  <2>2. lines \in Seq(GoodLines)
    <3>1. started'[m] \in Nat \ {0} /\ record \in Seq(Records)
      BY <1>1 DEF ConversationInv
    <3> QED BY <1>5, <2>1, <3>1, ClaudeReplayIs, CodexReplayIs
  <2>3. file' = [file EXCEPT ![m] = lines]
    BY <1>2, <1>4, <2>1 DEF Replay
  <2> QED BY <2>2, <2>3 DEF ConversationInv
<1>8. StoreOK(store', GoodRows)
  <2>1. PICK e : e = HookRow(m, StartKey, 0, 0)
    OBVIOUS
  <2>2. e \in GoodRows
    <3>1. Grows
      BY <1>6, SameGrows DEF ConversationInv
    <3>2. e \in GoodRows'
      BY <2>1, <3>1, MarkRowIs DEF ConversationInv
    <3>3. GoodRows' = GoodRows
      BY <1>6 DEF GoodRows, EventRows, RowOK, LineOK, Lines, KeyedBy, KeyOf, UserKey, OwnKey,
                  CallKey, ResultKey, Step
    <3> QED BY <3>2, <3>3
  <2>3. PICK T : T = ExecOrPrint(m, S, captured)
    OBVIOUS
  <2>4. TableOK(T, GoodRows)
    <3>1. <<e>> \in Seq(GoodRows)
      BY <2>2, OneKey
    <3>2. TableOK(Added(S, <<e>>), GoodRows)
      BY <1>3, <3>1, AddedKeeps
    <3> QED BY <1>3, <2>1, <2>3, <3>2 DEF ExecOrPrint
  <2>5. store' = [store EXCEPT ![m] = T]
    BY <1>2, <2>3 DEF Replay
  <2> QED BY <2>4, <2>5, TableStored DEF ConversationInv
<1>9. prime' \in [Machines -> Prompts]
  BY <1>6 DEF ConversationInv
<1> QED BY <1>1, <1>6, <1>7, <1>8, <1>9, RestKeeps

LEMMA PrimeKeeps ==
  ASSUME ConversationInv, NEW m \in Machines, NEW from \in Machines,
         ResolveSession(m, from), Prime(m, from)
  PROVE  ConversationInv'
<1>1. started' \in [Machines -> Nat] /\ resumes' \in Nat
  BY ResolveKeeps
<1>2. PICK S : S = Pulled(m, from)
  OBVIOUS
<1>3. TableOK(S, GoodRows)
  BY <1>2, PulledIs
<1>4. PICK E : E = LoadAllEvents(S)
  OBVIOUS
<1>5. E \in Seq(GoodRows)
  BY <1>3, <1>4, LoadedIs DEF ConversationInv, Settings
<1>6. PICK p : p = SynthesizePrime(E)
  OBVIOUS
<1>7. p \in Prompts
  BY <1>5, <1>6, PrimeIs, TransportAssumption
<1>8. prime' \in [Machines -> Prompts]
  BY <1>2, <1>4, <1>6, <1>7 DEF Prime, ConversationInv
<1>9. StoreOK(store', GoodRows)
  <2>1. store' = [store EXCEPT ![m] = S]
    BY <1>2 DEF Prime
  <2> QED BY <1>3, <2>1, TableStored DEF ConversationInv
<1>10. UNCHANGED <<cli, flip, now, record, file>>
  BY DEF Prime
<1>11. file' \in [Machines -> Seq(GoodLines)]
  BY <1>10 DEF ConversationInv
<1> QED BY <1>1, <1>8, <1>9, <1>10, <1>11, RestKeeps

LEMMA OpenCallsAre ==
  ASSUME ConversationInv, NEW m \in Machines, NEW what,
         NEW call \in IF what = "result" THEN OpenCalls(m) ELSE {0}
  PROVE  call \in Nat /\ (what = "result" => call \in OpenCalls(m))
<1>1. CASE what = "result"
  <2>1. call \in Shown(file[m])
    BY <1>1 DEF OpenCalls, Calls
  <2>2. Shown(file[m]) \subseteq 1..Len(record) /\ Len(record) \in Nat
    BY ShownIs, LenProperties DEF ConversationInv
  <2> QED BY <1>1, <2>1, <2>2
<1>2. CASE what # "result"
  BY <1>2
<1> QED BY <1>1, <1>2

LEMMA NextKeeps ==
  ASSUME ConversationInv, [TransportNext]_transportVars
  PROVE  ConversationInv'
<1>1. CASE UNCHANGED transportVars
  <2>1. UNCHANGED <<cli, flip, now, record, file, store, started, prime, resumes>>
    BY <1>1 DEF transportVars
  <2>2. /\ file' \in [Machines -> Seq(GoodLines)] /\ StoreOK(store', GoodRows)
        /\ started' \in [Machines -> Nat] /\ prime' \in [Machines -> Prompts] /\ resumes' \in Nat
    BY <2>1 DEF ConversationInv, Settings
  <2> QED BY <2>1, <2>2, RestKeeps
<1>2. ASSUME NEW m \in Machines, NEW captured, Open(m, captured) PROVE ConversationInv'
  BY <1>2, OpenKeeps
<1>3. ASSUME NEW m \in Machines, NEW what \in Written, NEW captured,
             NEW text \in IF what = "prompt" THEN Texts ELSE {0},
             NEW call \in IF what = "result" THEN OpenCalls(m) ELSE {0},
             Write(m, what, text, call, captured)
      PROVE  ConversationInv'
  <2>1. text \in Nat
    BY TransportAssumption
  <2>2. call \in Nat /\ (what = "result" => call \in OpenCalls(m))
    BY OpenCallsAre
  <2> QED BY <1>3, <2>1, <2>2, WriteKeeps
<1>4. ASSUME NEW m \in Machines, Stop(m) PROVE ConversationInv'
  BY <1>4, StopKeeps
<1>5. ASSUME NEW m \in Machines, Sweep(m) PROVE ConversationInv'
  BY <1>5, SweepKeeps
<1>6. ASSUME NEW m \in Machines, NEW from \in Machines, Sync(m, from) PROVE ConversationInv'
  BY <1>6, SyncKeeps
<1>7. ASSUME NEW m \in Machines, NEW from \in Machines, Resume(m, from) PROVE ConversationInv'
  <2>1. CASE Prime(m, from)
    BY <1>7, <2>1, PrimeKeeps DEF Resume
  <2>2. ASSUME NEW captured, Replay(m, from, captured) PROVE ConversationInv'
    BY <1>7, <2>2, ReplayKeeps DEF Resume
  <2> QED BY <1>7, <2>1, <2>2 DEF Resume
<1> QED BY <1>1, <1>2, <1>3, <1>4, <1>5, <1>6, <1>7 DEF TransportNext

LEMMA InitIs == ASSUME TransportInit PROVE ConversationInv
<1>1. 0 \in Nat /\ <<>> \in Seq(Records) /\ <<>> \in Seq(EventKeys) /\ record = <<>>
  BY EmptySeq DEF TransportInit
<1>2. NoFile \in Seq(GoodLines)
  <2>1. PICK l : l = [n |-> 0, as |-> "none", ts |-> 0]
    OBVIOUS
  <2>2. Len(record) = 0
    BY <1>1
  <2>3. l \in GoodLines
    BY <2>1, <2>2 DEF GoodLines, LineOK, Lines
  <2> QED BY <2>1, <2>3 DEF NoFile
<1>3. NoPrime \in Prompts
  BY <1>1 DEF NoPrime, Prompts
<1>4. StoreOK(store, GoodRows)
  BY FS_EmptySet DEF TransportInit, StoreOK
<1>5. Settings
  BY DEF Settings, TransportInit
<1> QED BY <1>1, <1>2, <1>3, <1>4, <1>5 DEF TransportInit, ConversationInv

(* In every state a row has the key that its kind and its record give it,     *)
(* whichever path stored it, and no table has a key twice; a transcript has   *)
(* lines of records that were written, with their times.                      *)
THEOREM ConversationKept == TransportSpec => []ConversationInv
<1>1. TransportInit => ConversationInv
  BY InitIs
<1>2. ConversationInv /\ [TransportNext]_transportVars => ConversationInv'
  BY NextKeeps
<1> QED BY <1>1, <1>2, PTL DEF TransportSpec

(* Transcripts, tables and prompts keep their types, for any number of        *)
(* machines, records and resumes: what a sweep, a hook, a pull and a resume   *)
(* put there are lines and rows, and a table has a key once.                  *)
THEOREM TransportTypeCorrect == TransportSpec => []TransportTypeOK
<1>1. ConversationInv => TransportTypeOK
  BY InvTyped
<1> QED BY <1>1, ConversationKept, PTL

(* One event has one key on all machines, whether the hook or a sweep of the  *)
(* transcript of one machine or of another stored it, but for a prompt of     *)
(* blocks, which has two: the hook's by the prompt's id and the transcript's  *)
(* by the record's.                                                           *)
THEOREM EventsStoredOnce == TransportSpec => []NothingTwice
<1>1. ConversationInv => NothingTwice
  <2> SUFFICES ASSUME ConversationInv, NEW m \in Machines, NEW k \in Machines,
                      NEW a \in store[m], NEW b \in store[k], a.rec = b.rec,
                      EventKind(a) = EventKind(b)
               PROVE  a.key = b.key \/ (record[a.rec].kind = "blocks" /\ a.key[1] # b.key[1])
    BY DEF NothingTwice
  <2>1. RowOK(a) /\ RowOK(b)
    BY DEF ConversationInv, StoreOK, GoodRows
  <2>2. a.key = KeyOf(a.key[1], a.rec) /\ b.key = KeyOf(b.key[1], b.rec)
    BY <2>1 DEF RowOK, KeyedBy
  <2>3. CASE a.key[1] = b.key[1]
    BY <2>2, <2>3
  <2>4. CASE a.key[1] # b.key[1]
    <3>1. record[a.rec].kind = "blocks" \/ record[b.rec].kind = "blocks"
      BY <2>4 DEF EventKind
    <3> QED BY <2>4, <3>1
  <2> QED BY <2>3, <2>4
<1> QED BY <1>1, ConversationKept, PTL

LEMMA ReplayIsWhole ==
  ASSUME ConversationInv, NEW m \in Machines, NEW from \in Machines, NEW captured,
         ResolveSession(m, from), Replay(m, from, captured)
  PROVE  /\ cli = "codex" => IsMeta(file'[m][1])
         /\ ~Torn(store'[m]) => \A e \in store'[m] :
              e.native.as = "line" => \E i \in DOMAIN file'[m] : file'[m][i] = e.native
<1>1. PICK S : S = Pulled(m, from)
  OBVIOUS
<1>2. TableOK(S, GoodRows)
  BY <1>1, PulledIs
<1>3. PICK E : E = LoadAllEvents(S)
  OBVIOUS
<1>4. /\ E \in Seq(GoodRows)
      /\ ~Torn(S) => \A e \in S : \E k \in 1..Len(E) : E[k] = e
  BY <1>2, <1>3, LoadedIs DEF ConversationInv, Settings
<1>5. PICK lines : lines = IF cli = "claude" THEN ClaudeHydrate(E) ELSE CodexHydrate(E, started'[m])
  OBVIOUS
<1>6. file'[m] = lines
  BY <1>1, <1>3, <1>5 DEF Replay, ConversationInv
<1>7. started'[m] \in Nat \ {0} /\ record \in Seq(Records)
  BY ResolveKeeps DEF ConversationInv
<1>8. /\ lines \in Seq(GoodLines)
      /\ cli = "codex" => IsMeta(lines[1])
      /\ \A k \in 1..Len(E) : E[k].native.as # "none" => \E i \in 1..Len(lines) : lines[i] = E[k].native
  <2>1. CASE cli = "claude"
    BY <1>4, <1>5, <2>1, ClaudeReplayIs
  <2>2. CASE cli # "claude"
    BY <1>4, <1>5, <1>7, <2>2, CodexReplayIs
  <2> QED BY <2>1, <2>2
<1>9. DOMAIN lines = 1..Len(lines)
  BY <1>8, LenProperties
<1>10. PICK h : h = HookRow(m, StartKey, 0, 0)
  OBVIOUS
<1>11. h.native.as = "envelope"
  BY <1>10 DEF HookRow, Envelope
<1>12. store'[m] = ExecOrPrint(m, S, captured)
  BY <1>1 DEF Replay, ConversationInv, StoreOK
<1>13. S \subseteq store'[m] /\ store'[m] \subseteq S \cup {h}
  <2>1. ToSet(<<h>>) = {h} /\ Added(S, <<h>>) \subseteq S \cup {h} /\ S \subseteq Added(S, <<h>>)
    BY DEF Added, ToSet
  <2> QED BY <1>10, <1>12, <2>1 DEF ExecOrPrint
<1>14. ASSUME ~Torn(store'[m]), NEW e \in store'[m], e.native.as = "line"
       PROVE  \E i \in DOMAIN lines : lines[i] = e.native
  <2>1. e \in S
    BY <1>11, <1>13, <1>14
  <2>2. ~Torn(S)
    <3>1. /\ IsFiniteSet(S) /\ IsFiniteSet({h})
          /\ S \subseteq S \cup {h} /\ store'[m] \subseteq S \cup {h}
      BY <1>2, <1>13, FS_Singleton DEF TableOK
    <3>2. IsFiniteSet(store'[m])
      BY <3>1, FS_Union, FS_Subset
    <3>3. Cardinality(S) \in Nat /\ Cardinality(store'[m]) \in Nat /\ Cardinality(S) <= Cardinality(store'[m])
      BY <1>13, <3>1, <3>2, FS_CardinalityType, FS_Subset
    <3> QED BY <1>13, <1>14, <3>3, TransportAssumption DEF Torn
  <2>3. PICK k \in 1..Len(E) : E[k] = e
    BY <1>4, <2>1, <2>2
  <2> QED BY <1>8, <1>9, <1>14, <2>3
<1> QED BY <1>6, <1>8, <1>14

(* The transcript that `resleeve resume` writes has every captured line of    *)
(* the table, however many pages it was read in, unless rows of one seq fall  *)
(* between two pages, and codex finds a session_meta in front.                *)
THEOREM ResumeWritesAll == TransportSpec => ResumeIsWhole
<1>1. ConversationInv => \A m \in Machines : Replayed(m) =>
        /\ cli = "codex" => IsMeta(file'[m][1])
        /\ ~Torn(store'[m]) => \A e \in store'[m] :
             e.native.as = "line" => \E i \in DOMAIN file'[m] : file'[m][i] = e.native
  BY ReplayIsWhole DEF Replayed
<1> QED BY <1>1, ConversationKept, PTL DEF ResumeIsWhole

PairAt(m, c) ==
  LET has == <<"result", c>> \in KeysIn(store'[m])
  IN /\ <<"call", c>> \in ToSet(prime'[m].recent) => (c \in prime'[m].pairs <=> has)
     /\ prime'[m].next = <<"call", c>> => ~has

Pairs(m) == prime'[m] # prime[m] /\ ~Torn(store'[m]) => \A c \in 1..Len(record) : PairAt(m, c)

LEMMA KeyIs ==
  ASSUME NEW key \in EventKeys, NEW c, key[1] = "result", key[2] = c
  PROVE  key = <<"result", c>>
BY DEF EventKeys, StartKey, EndKey

LEMMA PrimeHasPairs ==
  ASSUME ConversationInv, NEW m \in Machines, NEW from \in Machines, Prime(m, from),
         ~Torn(store'[m]), NEW c
  PROVE  /\ c \in prime'[m].pairs <=> <<"result", c>> \in KeysIn(store'[m])
         /\ prime'[m].next = <<"call", c>> => <<"result", c>> \notin KeysIn(store'[m])
<1>1. PICK S : S = Pulled(m, from)
  OBVIOUS
<1>2. TableOK(S, GoodRows)
  BY <1>1, PulledIs
<1>3. PICK E : E = LoadAllEvents(S)
  OBVIOUS
<1>4. store'[m] = S /\ prime'[m] = SynthesizePrime(E)
  BY <1>1, <1>3 DEF Prime, ConversationInv, StoreOK
<1>5. /\ E \in Seq(GoodRows) /\ DOMAIN E = 1..Len(E)
      /\ \A k \in 1..Len(E) : E[k] \in S
      /\ \A e \in S : \E k \in 1..Len(E) : E[k] = e
  <2>1. flip \in BOOLEAN
    BY DEF ConversationInv, Settings
  <2>2. ~Torn(S)
    BY <1>4
  <2> QED BY <1>2, <1>3, <2>1, <2>2, LoadedIs
<1>6. \A e \in S : e.key \in EventKeys
  BY <1>2 DEF TableOK, GoodRows, EventRows
<1>7. prime'[m].pairs = ResultsByCall(E) /\ prime'[m].next = PickNext(E)
  BY <1>4 DEF SynthesizePrime
<1>8. c \in ResultsByCall(E) <=> <<"result", c>> \in KeysIn(S)
  <2>1. ASSUME c \in ResultsByCall(E) PROVE <<"result", c>> \in KeysIn(S)
    <3>1. PICK i \in DOMAIN E : E[i].key[1] = "result" /\ E[i].key[2] = c
      BY <2>1 DEF ResultsByCall
    <3>2. E[i] \in S /\ E[i].key \in EventKeys
      BY <1>5, <1>6
    <3>3. E[i].key = <<"result", c>>
      BY <3>1, <3>2, KeyIs
    <3> QED BY <3>2, <3>3 DEF KeysIn
  <2>2. ASSUME <<"result", c>> \in KeysIn(S) PROVE c \in ResultsByCall(E)
    <3>1. PICK e \in S : e.key = <<"result", c>>
      BY <2>2 DEF KeysIn
    <3>2. PICK i \in DOMAIN E : E[i] = e
      BY <1>5
    <3>3. E[i].key[1] = "result" /\ E[i].key[2] = c
      BY <3>1, <3>2
    <3> QED BY <3>3 DEF ResultsByCall
  <2> QED BY <2>1, <2>2
<1>9. ASSUME PickNext(E) = <<"call", c>> PROVE c \notin ResultsByCall(E)
  <2>1. PickNext(E) # NoKey
    BY <1>9 DEF NoKey
  <2>2. PICK i \in PromptRows(E) \cup OpenRows(E) : E[i].key = <<"call", c>>
    <3>1. \/ PickNext(E) = NoKey
          \/ \E i \in PromptRows(E) \cup OpenRows(E) : PickNext(E) = E[i].key
      BY <1>5, PickNextIs
    <3> QED BY <1>9, <2>1, <3>1
  <2>3. E[i].key[1] = "call" /\ E[i].key[2] = c
    BY <2>2
  <2>4. EventKind(E[i]) = "call"
    BY <2>3 DEF EventKind
  <2> QED BY <2>2, <2>3, <2>4 DEF PromptRows, OpenRows
<1> QED BY <1>4, <1>7, <1>8, <1>9

LEMMA OnlyPrime ==
  ASSUME [TransportNext]_transportVars, prime' # prime
  PROVE  \E k, from \in Machines : Prime(k, from)
<1>1. ~UNCHANGED transportVars
  BY DEF transportVars
<1>2. \A m, captured : ~Open(m, captured)
  BY DEF Open
<1>3. \A m, what, text, call, captured : ~Write(m, what, text, call, captured)
  BY DEF Write
<1>4. \A m : ~Stop(m) /\ ~Sweep(m)
  BY DEF Stop, Sweep
<1>5. \A m, from : ~Sync(m, from)
  BY DEF Sync
<1>6. \A m, from : Resume(m, from) => Prime(m, from)
  <2>1. \A m, from, captured : ~Replay(m, from, captured)
    BY DEF Replay
  <2> QED BY <2>1 DEF Resume
<1> QED BY <1>1, <1>2, <1>3, <1>4, <1>5, <1>6 DEF TransportNext

LEMMA PairsKept ==
  ASSUME ConversationInv, [TransportNext]_transportVars, NEW m \in Machines
  PROVE  Pairs(m)
<1> SUFFICES ASSUME prime'[m] # prime[m], ~Torn(store'[m]), NEW c \in 1..Len(record)
             PROVE  PairAt(m, c)
  BY DEF Pairs
<1>1. PICK k \in Machines : \E from \in Machines : Prime(k, from)
  BY OnlyPrime
<1>2. PICK from \in Machines : Prime(k, from)
  BY <1>1
<1>3. k = m
  BY <1>2 DEF Prime, ConversationInv
<1>4. /\ c \in prime'[m].pairs <=> <<"result", c>> \in KeysIn(store'[m])
      /\ prime'[m].next = <<"call", c>> => <<"result", c>> \notin KeysIn(store'[m])
  BY <1>2, <1>3, PrimeHasPairs
<1> QED BY ONLY <1>4, Zenon DEF PairAt

(* A prompt of prime mode shows a call with its result if the machine has it, *)
(* and does not name a call as open that has one.                             *)
THEOREM PrimesPair == TransportSpec => PrimePairs
<1>1. ConversationInv /\ [TransportNext]_transportVars => \A m \in Machines : Pairs(m)
  BY PairsKept
<1> QED BY <1>1, ConversationKept, PTL DEF PrimePairs, TransportSpec, Pairs, PairAt

-------------------------------------------------------------------------------
(* The order of a transcript of claude: without lastSeq a row has the time   *)
(* of its line, so that a transcript that was written out is in the order of *)
(* the times, and one that the CLI goes on with in that of the writing.      *)

Timely(e) == e.native.as = "line" => e.seq \in {Ms(e.native.ts), Ms(e.native.ts) + 1}
TimelyRows == {e \in GoodRows : Timely(e)}

InTime(lines) ==
  \A i, j \in 1..Len(lines) : i < j /\ lines[i].as = "line" /\ lines[j].as = "line"
    => lines[i].ts <= lines[j].ts \/ lines[j].n \notin record[lines[i].n].after

CausalAfter == \A n \in 1..Len(record) : record[n].after \subseteq 1..(n - 1)

ClaudeInv == StoreOK(store, TimelyRows) /\ CausalAfter /\ \A m \in Machines : InTime(file[m])

LEMMA MsOrder ==
  ASSUME NEW t \in Nat, NEW u \in Nat, u < t
  PROVE  Ms(u) + 1 < Ms(t)
<1>1. PICK x \in Nat : x = Step /\ x > 1
  <2>1. MaxRecords \in Nat
    BY TransportAssumption
  <2>2. Step \in Nat /\ Step > 1
    BY <2>1 DEF Step
  <2> QED BY <2>2
<1>2. PICK d \in Nat : t = u + 1 + d
  <2>1. t - u - 1 \in Nat /\ t = u + 1 + (t - u - 1)
    OBVIOUS
  <2> QED BY <2>1
<1>3. x * t = x * u + x + x * d /\ x * d \in Nat /\ x * u \in Nat
  BY <1>1, <1>2
<1>4. Ms(t) = x * t /\ Ms(u) = x * u
  BY <1>1 DEF Ms
<1>5. x * u + 1 < x * t
  BY <1>1, <1>3
<1> QED BY <1>4, <1>5

LEMMA ShortKeys ==
  ASSUME cli = "claude", NEW l, NEW i
  PROVE  Len(KeysOf(l, i)) \in 0..2
<1>1. /\ Len(UserFromJSONL(l.n)) \in 0..2 /\ Len(AssistantFromJSONL(l.n)) \in 0..2
      /\ Len(SystemFromJSONL(l.n)) \in 0..2
  <2>1. Len(AssistantFromJSONL(l.n)) \in 0..2
    <3>1. PICK a : a = OwnKey("text", l.n, 0)
      OBVIOUS
    <3>2. PICK b : b = CallKey(l.n)
      OBVIOUS
    <3>3. Len(<<a>> \o <<b>>) = 2 /\ Len(<<a>> \o <<>>) = 1
      OBVIOUS
    <3>4. AssistantFromJSONL(l.n) \in {<<a>> \o <<b>>, <<a>> \o <<>>}
      BY <3>1, <3>2 DEF AssistantFromJSONL
    <3> QED BY <3>3, <3>4
  <2>2. \A k : Len(<<k>>) = 1
    OBVIOUS
  <2>3. (\E k : UserFromJSONL(l.n) = <<k>>) /\ (\E k : SystemFromJSONL(l.n) = <<k>>)
    BY DEF UserFromJSONL, SystemFromJSONL
  <2> QED BY <2>1, <2>2, <2>3
<1>2. Len(<<>>) = 0 /\ Len(<<StartKey>>) = 1
  OBVIOUS
<1>3. ClaudeFromJSONL(l.n) \in
        {UserFromJSONL(l.n), AssistantFromJSONL(l.n), SystemFromJSONL(l.n), <<>>}
  BY DEF ClaudeFromJSONL
<1>4. KeysOf(l, i) \in {<<StartKey>>, ClaudeFromJSONL(l.n), <<>>}
  BY DEF KeysOf
<1> QED BY <1>1, <1>2, <1>3, <1>4

LEMMA FromFileTimely ==
  ASSUME cli = "claude", record \in Seq(Records), NEW lines \in Seq(GoodLines)
  PROVE  FromFile(lines) \in Seq(TimelyRows)
<1>1. PICK q : q = [i \in DOMAIN lines |-> LineEvents(lines[i], i)]
  OBVIOUS
<1>2. /\ Len(lines) \in Nat /\ DOMAIN lines = 1..Len(lines)
      /\ \A i \in 1..Len(lines) : LineOK(lines[i])
  <2>1. \A i \in 1..Len(lines) : lines[i] \in GoodLines
    BY ElementOfSeq
  <2> QED BY <2>1, LenProperties DEF GoodLines
<1>3. ASSUME NEW l, LineOK(l), NEW i PROVE LineEvents(l, i) \in Seq(TimelyRows)
  <2>1. PICK f : f = LineEvents(l, i)
    OBVIOUS
  <2>2. PICK K : K = KeysOf(l, i)
    OBVIOUS
  <2>3. f \in Seq(FileRows) /\ Len(f) \in Nat /\ DOMAIN f = 1..Len(f)
        /\ \A k \in 1..Len(f) : f[k] \in FileRows
    BY <1>3, <2>1, LineEventsAre, LenProperties, ElementOfSeq
  <2>4. DOMAIN K = 1..Len(K) /\ Len(K) \in 0..2
    BY <1>3, <2>2, KeysOfIs, LenProperties, ShortKeys
  <2>5. f = [k \in 1..Len(K) |-> [key |-> K[k], rec |-> l.n, seq |-> Ms(l.ts) + k - 1, native |-> l]]
    BY <2>1, <2>2, <2>4 DEF LineEvents
  <2>6. ASSUME NEW k \in 1..Len(K) PROVE f[k] \in TimelyRows
    <3>1. k \in {1, 2}
      BY <2>4
    <3>2. Ms(l.ts) \in Nat
      BY <1>3, Bounds DEF LineOK, Lines
    <3>3. Ms(l.ts) + k - 1 \in {Ms(l.ts), Ms(l.ts) + 1}
      BY <3>1, <3>2
    <3>4. f[k].seq = Ms(l.ts) + k - 1 /\ f[k].native = l
      BY <2>5
    <3>5. f[k] \in FileRows
      BY <2>3, <2>5
    <3> QED BY <3>3, <3>4, <3>5 DEF FileRows, TimelyRows, Timely
  <2>7. f \in [1..Len(K) -> TimelyRows] /\ Len(K) \in Nat
    BY <2>4, <2>5, <2>6
  <2> QED BY <2>1, <2>7, FcnIsSeq
<1>4. q \in Seq(Seq(TimelyRows))
  <2>1. q \in [1..Len(lines) -> Seq(TimelyRows)]
    BY <1>1, <1>2, <1>3
  <2> QED BY <1>2, <2>1, FcnIsSeq
<1>5. PICK E : E = FlattenSeq(q)
  OBVIOUS
<1>6. E \in Seq(TimelyRows)
  BY <1>4, <1>5, FlattenIs
<1>7. Bumped(E) = E
  BY DEF Bumped
<1>8. FromFile(lines) = IF Starts(E) THEN <<Start(E)>> \o E ELSE E
  BY <1>1, <1>5, <1>7 DEF FromFile
<1>9. ASSUME Starts(E) PROVE Start(E) \in TimelyRows
  <2>1. FromFile(lines) \in Seq(GoodRows) /\ FromFile(lines) = <<Start(E)>> \o E
    BY <1>8, <1>9, FromFileIs
  <2>2. PICK e : e = Start(E)
    OBVIOUS
  <2>3. Len(E) \in Nat
    BY <1>6, LenProperties
  <2>4. Len(<<e>> \o E) = 1 + Len(E) /\ (<<e>> \o E)[1] = e
    BY <1>6
  <2>5. e \in GoodRows
    BY <2>1, <2>2, <2>3, <2>4, ElementOfSeq
  <2>6. e.native.as = "none"
    BY <2>2 DEF Start, NoPayload
  <2> QED BY <2>2, <2>5, <2>6 DEF TimelyRows, Timely
<1>10. CASE Starts(E)
  <2>1. <<Start(E)>> \in Seq(TimelyRows)
    BY <1>9, <1>10, OneKey
  <2> QED BY <1>6, <1>8, <1>10, <2>1, ConcatProperties
<1> QED BY <1>6, <1>8, <1>10

(* A transcript that is written out. *)
LEMMA ReplayInTime ==
  ASSUME NEW S, TableOK(S, TimelyRows), NEW E \in Seq(GoodRows),
         \A k \in 1..Len(E) : E[k] \in S,
         \A i, j \in 1..Len(E) : i < j => E[i].seq <= E[j].seq
  PROVE  InTime(ClaudeHydrate(E))
<1>1. PICK q : q = [i \in DOMAIN E |-> IF E[i].native.as = "none" THEN <<>> ELSE <<E[i].native>>]
  OBVIOUS
<1>2. /\ Len(E) \in Nat /\ DOMAIN E = 1..Len(E)
      /\ \A i \in 1..Len(E) : E[i] \in TimelyRows /\ E[i].native \in GoodLines /\ E[i].seq \in Nat
  <2>1. \A i \in 1..Len(E) : E[i] \in TimelyRows
    BY DEF TableOK
  <2> QED BY <2>1, LenProperties DEF TimelyRows, GoodRows, RowOK, EventRows, GoodLines
<1>3. q \in [1..Len(E) -> Seq(GoodLines)]
  <2>1. <<>> \in Seq(GoodLines) /\ \A l \in GoodLines : <<l>> \in Seq(GoodLines)
    BY EmptySeq, OneKey
  <2> QED BY <1>1, <1>2, <2>1
<1>4. ASSUME NEW i \in 1..Len(E), NEW j \in 1..Len(q[i]) PROVE q[i][j] = E[i].native
  <2>1. PICK l : l = E[i].native
    OBVIOUS
  <2>2. q[i] = <<l>> \/ q[i] = <<>>
    BY <1>1, <1>2, <2>1
  <2>3. Len(<<l>>) = 1 /\ <<l>>[1] = l /\ Len(<<>>) = 0
    OBVIOUS
  <2>4. q[i] # <<>>
    <3>1. Len(q[i]) # 0
      BY <1>4
    <3> QED BY <2>3, <3>1
  <2>5. q[i] = <<l>>
    BY <2>2, <2>4
  <2>6. j \in 1..Len(<<l>>)
    BY <2>5
  <2>7. j = 1
    BY <2>3, <2>6
  <2> QED BY <2>1, <2>3, <2>5, <2>7
<1>5. q \in Seq(Seq(GoodLines)) /\ Len(q) = Len(E)
  BY <1>2, <1>3, FcnIsSeq
<1>6. PICK t : t = FlattenSeq(q)
  OBVIOUS
<1>7. t \in Seq(GoodLines) /\ Flat(t, q, Len(E))
  BY <1>5, <1>6, FlattenIs
<1>8. ClaudeHydrate(E) = <<>> \o t
  BY <1>1, <1>6 DEF ClaudeHydrate, ClaudeReplay
<1>9. <<>> \o t = t
  BY <1>7, ConcatEmptySeq
<1>10. ASSUME NEW k \in 1..Len(t), NEW l \in 1..Len(t), k < l, t[k].as = "line", t[l].as = "line"
       PROVE  t[k].ts <= t[l].ts
  <2>1. PICK i \in 1..Len(E), j \in 1..Len(E) : i <= j /\ From(t, k, q, i) /\ From(t, l, q, j)
    BY <1>7, <1>10 DEF Flat
  <2>2. t[k] = E[i].native /\ t[l] = E[j].native
    BY <1>4, <2>1 DEF From
  <2>3. PICK a \in Nat, b \in Nat : a = t[k].ts /\ b = t[l].ts
    BY <1>2, <2>2 DEF GoodLines, Lines
  <2>4. CASE i = j
    <3>1. a = b
      BY <2>2, <2>3, <2>4
    <3> QED BY <2>3, <3>1
  <2>5. CASE i # j
    <3>1. PICK u \in Nat, v \in Nat : u = E[i].seq /\ v = E[j].seq
      BY <1>2
    <3>2. i < j
      BY <1>2, <2>1, <2>5
    <3>3. u <= v
      BY <3>1, <3>2
    <3>4. u \in {Ms(a), Ms(a) + 1} /\ v \in {Ms(b), Ms(b) + 1}
      BY <1>2, <1>10, <2>2, <2>3, <3>1 DEF TimelyRows, Timely
    <3>5. PICK x \in Nat, y \in Nat : x = Ms(a) /\ y = Ms(b)
      BY Bounds
    <3>6. ~(y + 1 < x)
      <4>1. (u = x \/ u = x + 1) /\ (v = y \/ v = y + 1)
        BY <3>4, <3>5
      <4> QED BY <3>3, <4>1
    <3>7. ~(b < a)
      BY <3>5, <3>6, MsOrder
    <3>8. a <= b
      BY <3>7
    <3> QED BY <2>3, <3>8
  <2> QED BY <2>4, <2>5
<1> QED BY <1>8, <1>9, <1>10 DEF InTime

LEMMA TimelyStays ==
  ASSUME Grows
  PROVE  TimelyRows \subseteq TimelyRows'
BY GoodStays DEF TimelyRows, Timely, Ms, Step

LEMMA EnvelopeTimely ==
  ASSUME NEW m, NEW key, NEW n, NEW after, HookRow(m, key, n, after) \in GoodRows'
  PROVE  HookRow(m, key, n, after) \in TimelyRows'
<1>1. PICK e : e = HookRow(m, key, n, after)
  OBVIOUS
<1>2. e.native.as = "envelope"
  BY <1>1 DEF HookRow, Envelope
<1> QED BY <1>1, <1>2 DEF TimelyRows, Timely

LEMMA HookEventsTimely ==
  ASSUME NEW m, NEW n, HookEvents(m, n) \in Seq(GoodRows')
  PROVE  HookEvents(m, n) \in Seq(TimelyRows')
<1>1. PICK E : E = HookEvents(m, n)
  OBVIOUS
<1>2. E \in Seq(GoodRows') /\ Len(E) \in Nat /\ DOMAIN E = 1..Len(E)
  BY <1>1, LenProperties
<1>3. PICK X : X = GoodRows'
  OBVIOUS
<1>4. ASSUME NEW k \in 1..Len(E) PROVE E[k] \in TimelyRows'
  <2>1. E[k] \in X
    BY <1>2, <1>3, ElementOfSeq
  <2>2. E[k].native.as = "envelope"
    <3>1. \A a : Len(<<a>>) = 1 /\ <<a>>[1] = a
      OBVIOUS
    <3>2. \A a, b : Len(<<a, b>>) = 2 /\ <<a, b>>[1] = a /\ <<a, b>>[2] = b
      OBVIOUS
    <3>3. \A key, r, after : HookRow(m, key, r, after).native.as = "envelope"
      BY DEF HookRow, Envelope
    <3>4. Len(<<>>) = 0
      OBVIOUS
    <3>5. \/ E = <<>>
          \/ \E a : E = <<a>> /\ a.native.as = "envelope"
          \/ \E a, b : E = <<a, b>> /\ a.native.as = "envelope" /\ b.native.as = "envelope"
      BY <1>1, <3>3 DEF HookEvents
    <3> QED BY <3>1, <3>2, <3>4, <3>5
  <2> QED BY <1>3, <2>1, <2>2 DEF TimelyRows, Timely
<1>5. PICK Y : Y = TimelyRows'
  OBVIOUS
<1>6. E \in [1..Len(E) -> Y]
  BY <1>2, <1>4, <1>5
<1>7. E \in Seq(Y)
  BY <1>2, <1>6, FcnIsSeq
<1> QED BY <1>1, <1>5, <1>7

LEMMA StaysInTime ==
  ASSUME Grows, NEW lines \in Seq(GoodLines), InTime(lines)
  PROVE  InTime(lines)'
<1>1. ASSUME NEW i \in 1..Len(lines), lines[i].as = "line" PROVE record'[lines[i].n] = record[lines[i].n]
  <2>1. lines[i] \in GoodLines /\ Len(record) \in Nat
    BY ElementOfSeq, LenProperties DEF Grows
  <2>2. lines[i].n \in 1..Len(record)
    BY <1>1, <2>1 DEF GoodLines, LineOK, Lines
  <2> QED BY <2>2 DEF Grows
<1> QED BY <1>1 DEF InTime

LEMMA WriteInOrder ==
  ASSUME ConversationInv, ClaudeInv, NEW m \in Machines, NEW lines, lines \in Seq(GoodLines),
         InTime(lines), NEW r \in Records, cli' = cli, record' = Append(record, r),
         NEW l, l.n = Len(record')
  PROVE  InTime(Append(lines, l))'
<1>1. Grows /\ Len(record') = Len(record) + 1
  BY AppendGrows DEF ConversationInv
<1>2. Len(record) \in Nat /\ Len(lines) \in Nat
  BY LenProperties DEF ConversationInv
<1>3. InTime(lines)'
  BY <1>1, StaysInTime
<1>4. PICK t : t = Append(lines, l)
  OBVIOUS
<1>5. Len(t) = Len(lines) + 1 /\ t[Len(lines) + 1] = l /\ \A i \in 1..Len(lines) : t[i] = lines[i]
  <2>1. lines \in Seq(GoodLines \cup {l})
    BY SeqMonotonic
  <2> QED BY <1>4, <2>1, AppendProperties
<1>6. ASSUME NEW i \in 1..Len(lines), lines[i].as = "line" PROVE l.n \notin record'[lines[i].n].after
  <2>1. lines[i] \in GoodLines
    BY ElementOfSeq
  <2>2. lines[i].n \in 1..Len(record)
    BY <1>2, <1>6, <2>1 DEF GoodLines, LineOK, Lines
  <2>3. record'[lines[i].n] = record[lines[i].n]
    BY <1>1, <2>2 DEF Grows
  <2>4. record[lines[i].n].after \subseteq 1..(lines[i].n - 1)
    BY <2>2 DEF ClaudeInv, CausalAfter
  <2>5. Len(record') \notin 1..(lines[i].n - 1)
    BY <1>1, <1>2, <2>2
  <2> QED BY <2>3, <2>4, <2>5
<1>7. ASSUME NEW i \in 1..Len(t), NEW j \in 1..Len(t), i < j, t[i].as = "line", t[j].as = "line"
      PROVE  t[i].ts <= t[j].ts \/ t[j].n \notin record'[t[i].n].after
  <2>1. i \in 1..Len(lines) /\ t[i] = lines[i]
    BY <1>2, <1>5, <1>7
  <2>2. CASE j \in 1..Len(lines)
    <3>1. t[j] = lines[j]
      BY <1>5, <2>2
    <3> QED BY <1>3, <1>7, <2>1, <2>2, <3>1 DEF InTime
  <2>3. CASE j \notin 1..Len(lines)
    <3>1. t[j] = l
      BY <1>2, <1>5, <2>3
    <3> QED BY <1>6, <1>7, <2>1, <3>1
  <2> QED BY <2>2, <2>3
<1>8. InTime(t)'
  BY <1>7 DEF InTime
<1> QED BY <1>4, <1>8

LEMMA AfterGrows ==
  ASSUME ConversationInv, CausalAfter, NEW m \in Machines, NEW what, NEW text, NEW call,
         NEW r \in Records, r = NewRecord(m, what, text, call),
         cli' = cli, record' = Append(record, r)
  PROVE  CausalAfter'
<1>1. Grows /\ Len(record') = Len(record) + 1 /\ record'[Len(record')] = r /\ Len(record) \in Nat
  BY AppendGrows, LenProperties DEF ConversationInv
<1>2. r.after \subseteq 1..Len(record)
  <2>1. Shown(file[m]) \subseteq 1..Len(record)
    BY ShownIs DEF ConversationInv
  <2> QED BY <2>1 DEF NewRecord
<1>3. ASSUME NEW n \in 1..Len(record') PROVE record'[n].after \subseteq 1..(n - 1)
  <2>1. CASE n = Len(record')
    BY <1>1, <1>2, <2>1
  <2>2. CASE n # Len(record')
    <3>1. n \in 1..Len(record)
      BY <1>1, <2>2
    <3> QED BY <1>1, <3>1 DEF Grows, CausalAfter
  <2> QED BY <2>1, <2>2
<1> QED BY <1>3 DEF CausalAfter

(* The other transcripts when one machine writes a line. *)
LEMMA OthersInTime ==
  ASSUME ConversationInv, Grows, ClaudeInv, NEW m \in Machines, NEW lines,
         file' = [file EXCEPT ![m] = lines], InTime(lines)'
  PROVE  (\A k \in Machines : InTime(file[k]))'
<1> SUFFICES ASSUME NEW k \in Machines PROVE InTime(file[k])'
  OBVIOUS
<1>1. PICK t : t = file[k]
  OBVIOUS
<1>2. t \in Seq(GoodLines) /\ InTime(t)
  BY <1>1 DEF ConversationInv, ClaudeInv
<1>3. InTime(t)'
  BY <1>2, StaysInTime
<1>4. file'[k] = lines \/ file'[k] = t
  BY <1>1 DEF ConversationInv
<1> QED BY <1>3, <1>4

LEMMA WriteOrders ==
  ASSUME ConversationInv, ClaudeInv, NEW m \in Machines, NEW what \in Written, NEW text \in Nat,
         NEW call \in Nat, what = "result" => call \in OpenCalls(m),
         NEW captured, Write(m, what, text, call, captured)
  PROVE  ClaudeInv'
<1>1. PICK r : r = NewRecord(m, what, text, call)
  OBVIOUS
<1>2. r \in Records /\ r.kind = what /\ r.call = call /\ cli' = cli /\ record' = Append(record, r)
  BY <1>1, NewRecordIs DEF NewRecord, Write
<1>3. Grows /\ Len(record') = Len(record) + 1 /\ record'[Len(record')] = r
  BY <1>2, AppendGrows DEF ConversationInv
<1>4. PICK n : n = Len(record')
  OBVIOUS
<1>5. Len(record) \in Nat /\ n \in 1..Len(record') /\ Clock(m) \in Nat
  BY <1>3, <1>4, LenProperties, ClockIs DEF ConversationInv
<1>6. HookEvents(m, n) \in Seq(TimelyRows')
  <2>1. record'[n].kind = "result" => record'[n].call \in 1..Len(record')
    <3> HAVE record'[n].kind = "result"
    <3>1. call \in Shown(file[m])
      BY <1>2, <1>3, <1>4 DEF OpenCalls, Calls
    <3>2. call \in 1..Len(record)
      BY <3>1, ShownIs DEF ConversationInv
    <3> QED BY <1>2, <1>3, <1>4, <1>5, <3>2
  <2>2. HookEvents(m, n) \in Seq(GoodRows')
    BY <1>3, <1>5, <2>1, HookEventsAre DEF ConversationInv
  <2> QED BY <2>2, HookEventsTimely
<1>7. StoreOK(store', TimelyRows')
  <2>1. PICK X : X = TimelyRows'
    OBVIOUS
  <2>2. StoreOK(store, X)
    BY <1>3, <2>1, TimelyStays, StoreGrows DEF ClaudeInv
  <2>3. HookEvents(m, n) \in Seq(X) /\ Hook(m, HookEvents(m, n), captured)
    BY <1>4, <1>6, <2>1 DEF Write
  <2> QED BY <1>5, <2>1, <2>2, <2>3, HookKeeps DEF ConversationInv
<1>8. CausalAfter'
  BY <1>1, <1>2, AfterGrows DEF ClaudeInv
<1>9. (\A k \in Machines : InTime(file[k]))'
  <2>1. PICK l : l = [n |-> n, as |-> "line", ts |-> Clock(m)]
    OBVIOUS
  <2>2. PICK t : t = file[m]
    OBVIOUS
  <2>3. t \in Seq(GoodLines) /\ InTime(t) /\ l.n = Len(record')
    BY <1>4, <2>1, <2>2 DEF ConversationInv, ClaudeInv
  <2>4. InTime(Append(t, l))'
    BY <1>2, <2>3, WriteInOrder
  <2>5. PICK lines : lines = Append(t, l)
    OBVIOUS
  <2>6. file' = [file EXCEPT ![m] = lines]
    BY <1>4, <2>1, <2>2, <2>5 DEF Write
  <2>7. InTime(lines)'
    BY <2>4, <2>5
  <2> QED BY <1>3, <2>6, <2>7, OthersInTime
<1> QED BY <1>7, <1>8, <1>9 DEF ClaudeInv

LEMMA OpenOrders ==
  ASSUME ConversationInv, ClaudeInv, NEW m \in Machines, NEW captured, Open(m, captured)
  PROVE  ClaudeInv'
<1>1. PICK what \in {"meta", "noise"} : record' = <<NewRecord(m, what, 0, 0)>>
  BY DEF Open
<1>2. PICK r : r = NewRecord(m, what, 0, 0)
  OBVIOUS
<1>3. r \in Records /\ cli' = cli /\ record' = Append(record, r)
  <2>1. record = <<>> /\ Append(<<>>, r) = <<r>>
    BY DEF Open
  <2> QED BY <1>1, <1>2, <2>1, NewRecordIs DEF Open
<1>4. Grows
  BY <1>3, AppendGrows DEF ConversationInv
<1>5. StoreOK(store', TimelyRows')
  <2>1. PICK X : X = TimelyRows'
    OBVIOUS
  <2>2. StoreOK(store, X)
    BY <1>4, <2>1, TimelyStays, StoreGrows DEF ClaudeInv
  <2>3. PICK e : e = HookRow(m, StartKey, 0, 0)
    OBVIOUS
  <2>4. e \in X
    BY <1>4, <2>1, <2>3, MarkRowIs, EnvelopeTimely DEF ConversationInv
  <2>5. <<e>> \in Seq(X) /\ Hook(m, <<e>>, captured) /\ Clock(m) \in Nat
    BY <2>3, <2>4, ClockIs DEF Open, ConversationInv
  <2> QED BY <2>1, <2>2, <2>5, HookKeeps DEF ConversationInv
<1>6. CausalAfter'
  BY <1>2, <1>3, AfterGrows DEF ClaudeInv
<1>7. (\A k \in Machines : InTime(file[k]))'
  <2>1. PICK l : l = [n |-> 1, as |-> "line", ts |-> Clock(m)]
    OBVIOUS
  <2>2. PICK lines : lines = <<l>>
    OBVIOUS
  <2>3. file' = [file EXCEPT ![m] = lines]
    BY <2>1, <2>2 DEF Open
  <2>4. Len(lines) = 1
    BY <2>2
  <2>5. InTime(lines)'
    BY <2>4 DEF InTime
  <2> QED BY <1>4, <2>3, <2>5, OthersInTime
<1> QED BY <1>5, <1>6, <1>7 DEF ClaudeInv

LEMMA SameRecord ==
  ASSUME ClaudeInv, UNCHANGED <<cli, record>>, StoreOK(store', TimelyRows),
         (\A k \in Machines : InTime(file[k]))', record \in Seq(Records)
  PROVE  ClaudeInv'
<1>1. Grows
  BY SameGrows
<1>2. PICK X : X = TimelyRows'
  OBVIOUS
<1>3. StoreOK(store', X)
  BY <1>1, <1>2, TimelyStays, StoreGrows
<1>4. CausalAfter'
  BY DEF ClaudeInv, CausalAfter
<1> QED BY <1>2, <1>3, <1>4 DEF ClaudeInv

LEMMA SameFiles ==
  ASSUME ClaudeInv, UNCHANGED <<cli, record, file>>, StoreOK(store', TimelyRows),
         record \in Seq(Records)
  PROVE  ClaudeInv'
<1>1. (\A k \in Machines : InTime(file[k]))'
  BY DEF ClaudeInv, InTime
<1> QED BY <1>1, SameRecord

LEMMA MarkTimely ==
  ASSUME ConversationInv, UNCHANGED <<cli, record>>, NEW m \in Machines
  PROVE  HookRow(m, StartKey, 0, 0) \in TimelyRows /\ HookRow(m, EndKey, 0, 0) \in TimelyRows
<1>1. Grows
  BY SameGrows DEF ConversationInv
<1>2. TimelyRows' = TimelyRows
  BY DEF TimelyRows, Timely, Ms, GoodRows, EventRows, RowOK, LineOK, Lines, KeyedBy, KeyOf,
         UserKey, OwnKey, CallKey, ResultKey, Step
<1>3. HookRow(m, StartKey, 0, 0) \in TimelyRows' /\ HookRow(m, EndKey, 0, 0) \in TimelyRows'
  BY <1>1, MarkRowIs, EnvelopeTimely DEF ConversationInv
<1> QED BY <1>2, <1>3

LEMMA StopOrders ==
  ASSUME ConversationInv, ClaudeInv, NEW m \in Machines, Stop(m)
  PROVE  ClaudeInv'
<1>1. UNCHANGED <<cli, record, file>> /\ record \in Seq(Records)
  BY DEF Stop, ConversationInv
<1>2. PICK e : e = HookRow(m, EndKey, 0, 0)
  OBVIOUS
<1>3. <<e>> \in Seq(TimelyRows) /\ IngestBatch(m, <<e>>, Clock(m)) /\ Clock(m) \in Nat
  BY <1>1, <1>2, MarkTimely, OneKey, ClockIs DEF Stop, ConversationInv
<1>4. StoreOK(store', TimelyRows)
  BY <1>3, BatchKeeps DEF ConversationInv, ClaudeInv
<1> QED BY <1>1, <1>4, SameFiles

LEMMA SweepOrders ==
  ASSUME ConversationInv, ClaudeInv, cli = "claude", NEW m \in Machines, Sweep(m)
  PROVE  ClaudeInv'
<1>1. UNCHANGED <<cli, record, file>> /\ record \in Seq(Records)
  BY DEF Sweep, ConversationInv
<1>2. PICK E : E = FromFile(file[m])
  OBVIOUS
<1>3. E \in Seq(TimelyRows)
  BY <1>2, FromFileTimely DEF ConversationInv
<1>4. PICK S : S = Added(store[m], E)
  OBVIOUS
<1>5. TableOK(S, TimelyRows)
  BY <1>3, <1>4, StoreTables, AddedKeeps DEF ClaudeInv
<1>6. store' = [store EXCEPT ![m] = S]
  BY <1>2, <1>4 DEF Sweep, IngestBatch
<1>7. StoreOK(store', TimelyRows)
  BY <1>5, <1>6, TableStored DEF ClaudeInv
<1> QED BY <1>1, <1>7, SameFiles

LEMMA PulledTimely ==
  ASSUME ClaudeInv, NEW m \in Machines, NEW from \in Machines
  PROVE  TableOK(Pulled(m, from), TimelyRows)
BY StoreTables, MergedKeeps DEF ClaudeInv, Pulled

(* Sync and prime mode store what was pulled. *)
LEMMA PullOrders ==
  ASSUME ConversationInv, ClaudeInv, NEW m \in Machines, NEW from \in Machines,
         UNCHANGED <<cli, record, file>>, store' = [store EXCEPT ![m] = Pulled(m, from)]
  PROVE  ClaudeInv'
<1>1. PICK S : S = Pulled(m, from)
  OBVIOUS
<1>2. TableOK(S, TimelyRows)
  BY <1>1, PulledTimely
<1>3. StoreOK(store', TimelyRows)
  BY <1>1, <1>2, TableStored DEF ClaudeInv
<1> QED BY <1>3, SameFiles DEF ConversationInv

LEMMA ReplayOrders ==
  ASSUME ConversationInv, ClaudeInv, cli = "claude", NEW m \in Machines, NEW from \in Machines,
         NEW captured, Replay(m, from, captured)
  PROVE  ClaudeInv'
<1>1. UNCHANGED <<cli, record>> /\ record \in Seq(Records) /\ flip \in BOOLEAN
  BY DEF Replay, ConversationInv, Settings
<1>2. PICK S : S = Pulled(m, from)
  OBVIOUS
<1>3. TableOK(S, GoodRows) /\ TableOK(S, TimelyRows)
  BY <1>2, PulledIs, PulledTimely
<1>4. PICK E : E = LoadAllEvents(S)
  OBVIOUS
<1>5. /\ E \in Seq(GoodRows) /\ \A k \in 1..Len(E) : E[k] \in S
      /\ \A i, j \in 1..Len(E) : i < j => E[i].seq <= E[j].seq
  BY <1>1, <1>3, <1>4, LoadedIs
<1>6. PICK lines : lines = ClaudeHydrate(E)
  OBVIOUS
<1>7. InTime(lines)
  BY <1>3, <1>5, <1>6, ReplayInTime
<1>8. file' = [file EXCEPT ![m] = lines]
  BY <1>2, <1>4, <1>6 DEF Replay
<1>9. InTime(lines)'
  BY <1>1, <1>7 DEF InTime
<1>10. (\A k \in Machines : InTime(file[k]))'
  BY <1>1, <1>8, <1>9, SameGrows, OthersInTime
<1>11. PICK e : e = HookRow(m, StartKey, 0, 0)
  OBVIOUS
<1>12. PICK T : T = ExecOrPrint(m, S, captured)
  OBVIOUS
<1>13. TableOK(T, TimelyRows)
  <2>1. <<e>> \in Seq(TimelyRows)
    BY <1>1, <1>11, MarkTimely, OneKey
  <2>2. TableOK(Added(S, <<e>>), TimelyRows)
    BY <1>3, <2>1, AddedKeeps
  <2> QED BY <1>3, <1>11, <1>12, <2>2 DEF ExecOrPrint
<1>14. store' = [store EXCEPT ![m] = T]
  BY <1>2, <1>12 DEF Replay
<1>15. StoreOK(store', TimelyRows)
  BY <1>13, <1>14, TableStored DEF ClaudeInv
<1> QED BY <1>1, <1>10, <1>15, SameRecord

OrderInv == ConversationInv /\ (cli = "claude" => ClaudeInv)

LEMMA CliStays ==
  ASSUME [TransportNext]_transportVars
  PROVE  cli' = cli
<1>1. CASE UNCHANGED transportVars
  BY <1>1 DEF transportVars
<1>2. \A m, captured : Open(m, captured) => cli' = cli
  BY DEF Open
<1>3. \A m, what, text, call, captured : Write(m, what, text, call, captured) => cli' = cli
  BY DEF Write
<1>4. \A m : Stop(m) \/ Sweep(m) => cli' = cli
  BY DEF Stop, Sweep
<1>5. \A m, from : Sync(m, from) => cli' = cli
  BY DEF Sync
<1>6. \A m, from : Resume(m, from) => cli' = cli
  <2>1. \A m, from, captured : Replay(m, from, captured) => cli' = cli
    BY DEF Replay
  <2>2. \A m, from : Prime(m, from) => cli' = cli
    BY DEF Prime
  <2> QED BY <2>1, <2>2 DEF Resume
<1> QED BY <1>1, <1>2, <1>3, <1>4, <1>5, <1>6 DEF TransportNext

LEMMA NextOrders ==
  ASSUME OrderInv, [TransportNext]_transportVars
  PROVE  OrderInv'
<1>1. ConversationInv /\ ConversationInv'
  BY NextKeeps DEF OrderInv
<1>2. cli' = cli
  BY CliStays
<1> SUFFICES ASSUME cli = "claude" PROVE ClaudeInv'
  BY <1>1, <1>2 DEF OrderInv
<1>3. ClaudeInv
  BY DEF OrderInv
<1>4. CASE UNCHANGED transportVars
  <2>1. UNCHANGED <<cli, record, file>> /\ StoreOK(store', TimelyRows) /\ record \in Seq(Records)
    BY <1>1, <1>3, <1>4 DEF transportVars, ClaudeInv, ConversationInv
  <2> QED BY <1>3, <2>1, SameFiles
<1>5. ASSUME NEW m \in Machines, NEW captured, Open(m, captured) PROVE ClaudeInv'
  BY <1>1, <1>3, <1>5, OpenOrders
<1>6. ASSUME NEW m \in Machines, NEW what \in Written, NEW captured,
             NEW text \in IF what = "prompt" THEN Texts ELSE {0},
             NEW call \in IF what = "result" THEN OpenCalls(m) ELSE {0},
             Write(m, what, text, call, captured)
      PROVE  ClaudeInv'
  <2>1. text \in Nat
    BY TransportAssumption
  <2>2. call \in Nat /\ (what = "result" => call \in OpenCalls(m))
    BY <1>1, OpenCallsAre
  <2> QED BY <1>1, <1>3, <1>6, <2>1, <2>2, WriteOrders
<1>7. ASSUME NEW m \in Machines, Stop(m) PROVE ClaudeInv'
  BY <1>1, <1>3, <1>7, StopOrders
<1>8. ASSUME NEW m \in Machines, Sweep(m) PROVE ClaudeInv'
  BY <1>1, <1>3, <1>8, SweepOrders
<1>9. ASSUME NEW m \in Machines, NEW from \in Machines, Sync(m, from) PROVE ClaudeInv'
  <2>1. UNCHANGED <<cli, record, file>> /\ store' = [store EXCEPT ![m] = Pulled(m, from)]
    BY <1>9 DEF Sync, Pulled
  <2> QED BY <1>1, <1>3, <2>1, PullOrders
<1>10. ASSUME NEW m \in Machines, NEW from \in Machines, Resume(m, from) PROVE ClaudeInv'
  <2>1. CASE Prime(m, from)
    <3>1. UNCHANGED <<cli, record, file>> /\ store' = [store EXCEPT ![m] = Pulled(m, from)]
      BY <2>1 DEF Prime
    <3> QED BY <1>1, <1>3, <3>1, PullOrders
  <2>2. ASSUME NEW captured, Replay(m, from, captured) PROVE ClaudeInv'
    BY <1>1, <1>3, <2>2, ReplayOrders
  <2> QED BY <1>10, <2>1, <2>2 DEF Resume
<1> QED BY <1>4, <1>5, <1>6, <1>7, <1>8, <1>9, <1>10 DEF TransportNext

LEMMA OrderFromInv == ASSUME OrderInv, cli = "claude" PROVE OrderKept
<1> SUFFICES ASSUME NEW m \in Machines, NEW i \in DOMAIN file[m], NEW j \in DOMAIN file[m], i < j,
                    file[m][i].as = "line", file[m][j].as = "line",
                    OutOfOrder(file[m][i], file[m][j])
             PROVE  FALSE
  BY DEF OrderKept
<1>1. file[m] \in Seq(GoodLines) /\ record \in Seq(Records) /\ InTime(file[m])
  BY DEF OrderInv, ConversationInv, ClaudeInv
<1>2. i \in 1..Len(file[m]) /\ j \in 1..Len(file[m])
  BY <1>1, LenProperties
<1>3. PICK a : a = file[m][i]
  OBVIOUS
<1>4. PICK b : b = file[m][j]
  OBVIOUS
<1>5. a \in GoodLines /\ b \in GoodLines
  BY <1>1, <1>2, <1>3, <1>4, ElementOfSeq
<1>6. a.ts = record[a.n].ts /\ b.ts = record[b.n].ts /\ a.ts \in Nat /\ b.ts \in Nat
  BY <1>3, <1>4, <1>5 DEF GoodLines, LineOK, Lines
<1>7. a.ts <= b.ts \/ b.n \notin record[a.n].after
  BY <1>1, <1>2, <1>3, <1>4 DEF InTime
<1>8. b.n \in record[a.n].after /\ record[b.n].ts < record[a.n].ts
  BY <1>3, <1>4 DEF OutOfOrder
<1> QED BY <1>6, <1>7, <1>8

LEMMA InitOrders == ASSUME TransportInit PROVE OrderInv
<1>1. ConversationInv
  BY InitIs
<1>2. StoreOK(store, TimelyRows)
  BY FS_EmptySet DEF TransportInit, StoreOK
<1>3. CausalAfter
  BY DEF TransportInit, CausalAfter
<1>4. \A m \in Machines : InTime(file[m])
  <2> SUFFICES ASSUME NEW m \in Machines PROVE InTime(NoFile)
    BY DEF TransportInit
  <2>1. PICK l : l = [n |-> 0, as |-> "none", ts |-> 0]
    OBVIOUS
  <2>2. Len(<<l>>) = 1
    OBVIOUS
  <2> QED BY <2>1, <2>2 DEF NoFile, InTime
<1> QED BY <1>1, <1>2, <1>3, <1>4 DEF OrderInv, ClaudeInv

-------------------------------------------------------------------------------
(* The order of codex.  "v" is what the invariant depends on of the          *)
(* conversation: its records, the key of each, and how two of one seq sort;  *)
(* "L" the rows of a table that are about records behind the first.          *)
View == [rec |-> record, key |-> [n \in 1..Len(record) |-> CodexFromJSONL(n, 0)], flip |-> flip]

Base(v) == Ms(v.rec[1].ts)
LineOf(v, n) == [n |-> n, as |-> "line", ts |-> v.rec[n].ts]
IsHead(l) == (l.as = "meta" /\ l.n = 0) \/ (l.as = "line" /\ l.n = 1)

(* Where a transcript shows a record behind the first. *)
Places(v, f) == {i \in 2..Len(f) : f[i].n \in 2..Len(v.rec) /\ f[i] = LineOf(v, f[i].n)}

Before(v, a, b) ==
  \/ a.seq < b.seq
  \/ a.seq = b.seq /\ a # b /\ (Earlier(Rank(a.key), Rank(b.key)) # v.flip)

Swept(v, e) ==
  /\ e.rec \in 2..Len(v.rec) /\ e.native = LineOf(v, e.rec)
  /\ v.key[e.rec] = <<e.key>> /\ e.seq \in Nat /\ e.seq > Base(v)

(* A row is a mark of a hook, the session_meta, or a line that was swept. *)
Shape(v, e) ==
  \/ e.key \in {StartKey, EndKey} /\ e.rec = 0 /\ e.native.as = "envelope"
  \/ /\ e.key = StartKey /\ e.rec \in {0, 1} /\ e.seq = Base(v)
     /\ IsHead(e.native) /\ e.native.ts = v.rec[1].ts
  \/ Swept(v, e)

Long(S) == {e \in S : e.rec >= 2}
Has(L, n) == \E e \in L : e.rec = n

(* What a record's author had read is in the table with it, before it. *)
AfterIn(v, L) ==
  \A e \in L : \A b \in v.rec[e.rec].after :
    b >= 2 /\ v.key[b] # <<>> => \E d \in L : d.rec = b /\ d.seq < e.seq

(* A seq is no more than the time of a line, or the start, and the rows that *)
(* are between: so sweeping the rows in their order gives no smaller one.    *)
Explains(v, L, w) ==
  \A e \in L :
    /\ e.seq <= w[e]
    /\ \/ w[e] <= Ms(v.rec[e.rec].ts)
       \/ w[e] <= Base(v) + 1
       \/ \E d \in L : Before(v, d, e) /\ w[e] <= w[d] + 1

Explained(v, L) == \E w \in [L -> Nat] : Explains(v, L, w)

TableShape(v, L) == (\A e \in L : Swept(v, e)) /\ AfterIn(v, L) /\ Explained(v, L)

FileShape(v, f) ==
  /\ IsHead(f[1]) /\ f[1].ts = v.rec[1].ts
  /\ \A i \in 2..Len(f) : f[i].as = "envelope" \/ i \in Places(v, f)
  /\ \A i, j \in Places(v, f) : f[i].n = f[j].n => i = j

(* The seqs that a sweep gives the lines. *)
Bump(t, last) == IF t > last THEN t ELSE last + 1

Numbered(v, f, q) ==
  /\ q[1] = Base(v)
  /\ \A i \in 2..Len(f) :
       q[i] = IF i \in Places(v, f) /\ v.key[f[i].n] # <<>> THEN Bump(Ms(f[i].ts), q[i - 1])
              ELSE q[i - 1]

Reaches(v, f, L, q) == \A i \in Places(v, f) : \A e \in L : e.rec = f[i].n => e.seq <= q[i]

SeqsReached(v, f, L) ==
  \E q \in [1..Len(f) -> Nat] : Numbered(v, f, q) /\ Reaches(v, f, L, q)

(* The rows of two lines are in the order of the lines. *)
InSeq(v, f, L) ==
  \A i, j \in Places(v, f) : i < j /\ v.key[f[i].n] # <<>> =>
    \A e \in L : e.rec = f[j].n => \E d \in L : d.rec = f[i].n /\ Before(v, d, e)

(* A line that was not swept is behind all that its author had read. *)
Unswept(v, f, L) ==
  \A j \in Places(v, f) : ~Has(L, f[j].n) =>
    \A b \in v.rec[f[j].n].after : b >= 2 => \E i \in Places(v, f) : i < j /\ f[i].n = b

Silent(v, f) ==
  \A i, j \in Places(v, f) :
    f[j].n \in v.rec[f[i].n].after /\ v.key[f[j].n] = <<>> => j < i

FileTable(v, f, L) ==
  /\ Len(f) \in Nat \ {0}
  /\ SeqsReached(v, f, L) /\ InSeq(v, f, L) /\ Unswept(v, f, L) /\ Silent(v, f)

OneRow(ls) ==
  \A m, k \in Machines : \A a \in ls[m], b \in ls[k] : a.rec = b.rec => a = b

(* A line that was not swept is in no table and no other transcript. *)
Known(v, ls, fl) ==
  \A m \in Machines : \A i \in Places(v, fl[m]) : ~Has(ls[m], fl[m][i].n) =>
    \A k \in Machines : /\ ~Has(ls[k], fl[m][i].n)
                        /\ k # m => \A j \in Places(v, fl[k]) : fl[k][j].n # fl[m][i].n

Ordered(v, ls, fl) ==
  /\ \A m \in Machines : /\ TableShape(v, ls[m])
                         /\ fl[m] = NoFile \/ FileShape(v, fl[m])
                         /\ FileTable(v, fl[m], ls[m])
  /\ OneRow(ls) /\ Known(v, ls, fl)

ViewOK(v) ==
  /\ v.flip \in BOOLEAN /\ v.rec \in Seq(Records) /\ v.rec # <<>>
  /\ v.rec[1].kind = "meta" /\ \A n \in 2..Len(v.rec) : v.rec[n].kind # "meta"
  /\ \A n \in 1..Len(v.rec) : v.rec[n].after \subseteq 1..(n - 1)

Nothing ==
  \A m \in Machines : file[m] = NoFile /\ store[m] = {} /\ started[m] = 0

(* What the invariant says of all tables and transcripts. *)
TablesOK(v, st, fl) ==
  /\ \A m \in Machines : \A e \in st[m] : Shape(v, e)
  /\ Ordered(v, [m \in Machines |-> Long(st[m])], fl)

CodexInv ==
  /\ record = <<>> => Nothing
  /\ record # <<>> =>
       /\ ViewOK(View)
       /\ ~LinesMissing /\ ~StartMoved => TablesOK(View, store, file)

LEMMA ViewIs ==
  ASSUME NEW v, ViewOK(v)
  PROVE  /\ Len(v.rec) \in Nat \ {0} /\ Base(v) \in Nat \ {0} /\ v.rec[1].ts \in Nat \ {0}
         /\ \A n \in 1..Len(v.rec) : Ms(v.rec[n].ts) \in Nat /\ v.rec[n].after \subseteq 1..(n - 1)
<1>1. v.rec \in Seq(Records) /\ v.rec # <<>>
  BY DEF ViewOK
<1>2. Len(v.rec) \in Nat \ {0}
  BY <1>1, LenProperties, EmptySeq
<1>3. \A n \in 1..Len(v.rec) : v.rec[n].ts \in Nat \ {0}
  <2> TAKE n \in 1..Len(v.rec)
  <2>1. v.rec[n] \in Records
    BY <1>1, ElementOfSeq
  <2> QED BY <2>1 DEF Records
<1>4. 1 \in 1..Len(v.rec)
  BY <1>2
<1>5. \A t \in Nat \ {0} : Ms(t) \in Nat \ {0}
  <2> TAKE t \in Nat \ {0}
  <2> DEFINE x == Ms(t)
             y == Step
  <2>1. x \in Nat /\ x >= y /\ y \in Nat \ {0}
    BY Bounds
  <2> HIDE DEF x, y
  <2>2. x \in Nat \ {0}
    BY <2>1
  <2> QED BY <2>2 DEF x
<1> QED BY <1>2, <1>3, <1>4, <1>5 DEF ViewOK, Base

LEMMA PlaceIs ==
  ASSUME NEW v, NEW f, Len(f) \in Nat, NEW i \in Places(v, f)
  PROVE  i \in 2..Len(f) /\ i \in 1..Len(f) /\ i \in Nat /\ f[i].n \in 2..Len(v.rec) /\ f[i] = LineOf(v, f[i].n)
BY DEF Places

LEMMA NumbersGrow ==
  ASSUME NEW v, ViewOK(v), NEW f, Len(f) \in Nat \ {0}, NEW q \in [1..Len(f) -> Nat], Numbered(v, f, q)
  PROVE  /\ \A j \in 1..Len(f) : \A i \in 1..j : q[i] <= q[j]
         /\ \A j \in Places(v, f) : v.key[f[j].n] # <<>> =>
              /\ \A i \in 1..(j - 1) : q[i] < q[j]
              /\ q[j] >= Ms(f[j].ts) /\ q[j] > Base(v)
<1>1. PICK n \in Nat \ {0} : n = Len(f)
  OBVIOUS
<1>2. \A t \in Nat, l \in Nat : Bump(t, l) \in Nat /\ Bump(t, l) > l /\ Bump(t, l) >= t
  BY DEF Bump
<1>3. ASSUME NEW j \in Places(v, f), v.key[f[j].n] # <<>>
      PROVE  /\ j \in 2..n /\ j - 1 \in 1..n /\ q[j] > q[j - 1] /\ q[j] >= Ms(f[j].ts)
  <2>1. j \in 2..n /\ j - 1 \in 1..n /\ f[j].n \in 2..Len(v.rec) /\ f[j].ts = v.rec[f[j].n].ts
    <3>1. f[j] = LineOf(v, f[j].n) /\ j \in 2..n /\ f[j].n \in 2..Len(v.rec)
      BY <1>1, PlaceIs
    <3>2. PICK k : k = f[j].n
      OBVIOUS
    <3>3. f[j].ts = v.rec[k].ts
      BY <3>1, <3>2 DEF LineOf
    <3> QED BY <3>1, <3>2, <3>3
  <2>2. f[j].n \in 1..Len(v.rec)
    BY <2>1, ViewIs
  <2>3. PICK t \in Nat : t = Ms(f[j].ts)
    BY <2>1, <2>2, ViewIs
  <2>4. q[j] = Bump(t, q[j - 1]) /\ q[j - 1] \in Nat
    BY <1>1, <1>3, <2>1, <2>3 DEF Numbered
  <2> QED BY <1>2, <2>1, <2>3, <2>4
<1>4. ASSUME NEW j \in 2..n PROVE q[j - 1] <= q[j]
  <2>1. CASE j \in Places(v, f) /\ v.key[f[j].n] # <<>>
    <3>1. q[j] > q[j - 1] /\ q[j] \in Nat /\ q[j - 1] \in Nat
      BY <1>1, <1>3, <2>1
    <3> QED BY <3>1
  <2>2. CASE ~(j \in Places(v, f) /\ v.key[f[j].n] # <<>>)
    <3>1. q[j] = q[j - 1] /\ q[j - 1] \in Nat
      BY <1>1, <2>2 DEF Numbered
    <3> QED BY <3>1
  <2> QED BY <2>1, <2>2
<1>5. \A j \in 1..n : \A i \in 1..j : q[i] <= q[j]
  <2> DEFINE P == {j \in 0..n : j = 0 \/ \A i \in 1..j : q[i] <= q[j]}
  <2>1. 0 \in P
    OBVIOUS
  <2>2. ASSUME NEW j \in 1..n, j - 1 \in P PROVE j \in P
    <3>1. CASE j = 1
      BY <1>1, <3>1
    <3>2. CASE j # 1
      <4>1. j \in 2..n /\ j - 1 \in 1..n /\ \A i \in 1..j : i = j \/ i \in 1..(j - 1)
        BY <3>2
      <4>2. \A i \in 1..(j - 1) : q[i] <= q[j - 1]
        BY <2>2, <3>2
      <4>3. ASSUME NEW i \in 1..j PROVE q[i] <= q[j]
        <5>1. i \in 1..n
          OBVIOUS
        <5>2. q[i] \in Nat /\ q[j] \in Nat /\ q[j - 1] \in Nat /\ q[j - 1] <= q[j]
          BY <1>1, <1>4, <4>1, <5>1
        <5>3. i = j \/ q[i] <= q[j - 1]
          BY <4>1, <4>2
        <5> QED BY <5>2, <5>3
      <4> QED BY <4>3
    <3> QED BY <3>1, <3>2
  <2> HIDE DEF P
  <2>3. \A j \in 0..n : j \in P
    BY <2>1, <2>2, UpToEnd
  <2> QED BY <2>3 DEF P
<1>6. ASSUME NEW j \in Places(v, f), v.key[f[j].n] # <<>>
      PROVE  /\ \A i \in 1..(j - 1) : q[i] < q[j]
             /\ q[j] >= Ms(f[j].ts) /\ q[j] > Base(v)
  <2>1. j \in 2..n /\ j - 1 \in 1..n /\ q[j] > q[j - 1] /\ q[j] >= Ms(f[j].ts)
    BY <1>3, <1>6
  <2>2. ASSUME NEW i \in 1..(j - 1) PROVE q[i] < q[j]
    <3>1. i \in 1..n /\ q[i] <= q[j - 1]
      BY <1>5, <2>1
    <3>2. q[i] \in Nat /\ q[j] \in Nat /\ q[j - 1] \in Nat
      BY <1>1, <2>1, <3>1
    <3> QED BY <2>1, <3>1, <3>2
  <2>3. q[j] > Base(v)
    <3>1. q[1] = Base(v) /\ 1 \in 1..(j - 1)
      BY <2>1 DEF Numbered
    <3>2. q[1] < q[j] /\ q[1] \in Nat /\ q[j] \in Nat
      BY <1>1, <2>1, <2>2, <3>1
    <3> QED BY <3>1, <3>2
  <2> QED BY <2>1, <2>2, <2>3
<1> QED BY <1>1, <1>5, <1>6

LEMMA NumbersExist ==
  ASSUME NEW v, ViewOK(v), NEW f, Len(f) \in Nat \ {0}
  PROVE  \E q \in [1..Len(f) -> Nat] : Numbered(v, f, q)
<1>1. PICK n \in Nat \ {0} : n = Len(f)
  OBVIOUS
<1> DEFINE told(i) == i \in Places(v, f) /\ v.key[f[i].n] # <<>>
           st == [i \in 1..n |-> [x \in Nat |-> IF i = 1 THEN Base(v)
                                                ELSE IF told(i) THEN Bump(Ms(f[i].ts), x) ELSE x]]
<1>2. st \in [1..n -> [Nat -> Nat]]
  <2> SUFFICES ASSUME NEW i \in 1..n, NEW x \in Nat, told(i) PROVE Bump(Ms(f[i].ts), x) \in Nat
    BY ViewIs
  <2>1. f[i] = LineOf(v, f[i].n) /\ f[i].n \in 1..Len(v.rec)
    BY <1>1, PlaceIs, ViewIs
  <2>2. PICK k \in 1..Len(v.rec) : f[i] = LineOf(v, k)
    BY <2>1
  <2>3. Ms(f[i].ts) \in Nat
    BY <2>2, ViewIs DEF LineOf
  <2> QED BY <2>3 DEF Bump
<1>3. PICK g \in [0..n -> Nat] : Grown(g, n, 0, st)
  <2> HIDE DEF st
  <2> QED BY <1>2, ByPrefix
<1>4. PICK q : q = [i \in 1..n |-> g[i]]
  OBVIOUS
<1>5. q \in [1..n -> Nat] /\ \A i \in 1..n : q[i] = g[i]
  BY <1>3, <1>4
<1>6. \A i \in 1..n : g[i] = st[i][g[i - 1]] /\ g[i - 1] \in Nat
  <2>1. \A i \in 1..n : i - 1 \in 0..n
    OBVIOUS
  <2> QED BY <1>3, <2>1 DEF Grown
<1>7. q[1] = Base(v)
  <2>1. 1 \in 1..n
    OBVIOUS
  <2>2. PICK x \in Nat : x = g[1 - 1] /\ q[1] = st[1][x]
    BY <1>5, <1>6, <2>1
  <2> QED BY <2>1, <2>2
<1>8. ASSUME NEW i \in 2..n
      PROVE  q[i] = IF told(i) THEN Bump(Ms(f[i].ts), q[i - 1]) ELSE q[i - 1]
  <2>1. i \in 1..n /\ i # 1 /\ i - 1 \in 1..n
    OBVIOUS
  <2>2. g[i] = st[i][g[i - 1]] /\ g[i - 1] \in Nat /\ q[i] = g[i] /\ q[i - 1] = g[i - 1]
    BY <1>5, <1>6, <2>1
  <2>3. st[i][g[i - 1]] = IF told(i) THEN Bump(Ms(f[i].ts), g[i - 1]) ELSE g[i - 1]
    <3> HIDE DEF told
    <3> QED BY <2>1, <2>2
  <2> QED BY <2>2, <2>3
<1> QED BY <1>1, <1>5, <1>7, <1>8 DEF Numbered

-------------------------------------------------------------------------------
(* Rows come from another machine. *)

LEMMA UnionExplained ==
  ASSUME NEW v, NEW L, NEW R, Explained(v, L), Explained(v, R)
  PROVE  Explained(v, L \cup R)
<1>1. PICK a \in [L -> Nat] : Explains(v, L, a)
  BY DEF Explained
<1>2. PICK b \in [R -> Nat] : Explains(v, R, b)
  BY DEF Explained
<1> DEFINE most(e) == IF a[e] >= b[e] THEN a[e] ELSE b[e]
<1>3. PICK w : w = [e \in L \cup R |-> IF e \in L THEN IF e \in R THEN most(e) ELSE a[e] ELSE b[e]]
  OBVIOUS
<1>4. /\ w \in [L \cup R -> Nat]
      /\ \A e \in L : w[e] >= a[e] /\ a[e] \in Nat
      /\ \A e \in R : w[e] >= b[e] /\ b[e] \in Nat
      /\ \A e \in L \cup R : (e \in L /\ w[e] = a[e]) \/ (e \in R /\ w[e] = b[e])
  BY <1>1, <1>2, <1>3
<1>5. ASSUME NEW e \in L, w[e] = a[e]
      PROVE  /\ e.seq <= w[e]
             /\ \/ w[e] <= Ms(v.rec[e.rec].ts)
                \/ w[e] <= Base(v) + 1
                \/ \E d \in L \cup R : Before(v, d, e) /\ w[e] <= w[d] + 1
  <2>1. \A d \in L : a[e] <= a[d] + 1 => a[e] <= w[d] + 1
    <3> TAKE d \in L
    <3>1. w[d] \in Nat /\ a[d] \in Nat /\ a[e] \in Nat /\ w[d] >= a[d]
      BY <1>4
    <3> QED BY <3>1
  <2> QED BY <1>1, <1>5, <2>1 DEF Explains
<1>6. ASSUME NEW e \in R, w[e] = b[e]
      PROVE  /\ e.seq <= w[e]
             /\ \/ w[e] <= Ms(v.rec[e.rec].ts)
                \/ w[e] <= Base(v) + 1
                \/ \E d \in L \cup R : Before(v, d, e) /\ w[e] <= w[d] + 1
  <2>1. \A d \in R : b[e] <= b[d] + 1 => b[e] <= w[d] + 1
    <3> TAKE d \in R
    <3>1. w[d] \in Nat /\ b[d] \in Nat /\ b[e] \in Nat /\ w[d] >= b[d]
      BY <1>4
    <3> QED BY <3>1
  <2> QED BY <1>2, <1>6, <2>1 DEF Explains
<1>7. Explains(v, L \cup R, w)
  BY <1>4, <1>5, <1>6 DEF Explains
<1> QED BY <1>4, <1>7 DEF Explained

LEMMA UnionShape ==
  ASSUME NEW v, NEW L, NEW R, TableShape(v, L), TableShape(v, R)
  PROVE  TableShape(v, L \cup R)
<1>1. AfterIn(v, L \cup R)
  <2> SUFFICES ASSUME NEW e \in L \cup R, NEW b \in v.rec[e.rec].after, b >= 2, v.key[b] # <<>>
               PROVE  \E d \in L \cup R : d.rec = b /\ d.seq < e.seq
    BY DEF AfterIn
  <2> QED BY DEF TableShape, AfterIn
<1> QED BY <1>1, UnionExplained DEF TableShape

(* A table whose new rows are of no line of the transcript. *)
LEMMA OthersArrive ==
  ASSUME NEW v, NEW f, NEW L, FileTable(v, f, L), NEW T, L \subseteq T,
         \A i \in Places(v, f) : \A e \in T : e.rec = f[i].n => e \in L
  PROVE  FileTable(v, f, T)
<1>1. SeqsReached(v, f, T)
  <2>1. PICK q \in [1..Len(f) -> Nat] : Numbered(v, f, q) /\ Reaches(v, f, L, q)
    BY DEF FileTable, SeqsReached
  <2>2. Reaches(v, f, T, q)
    BY <2>1 DEF Reaches
  <2> QED BY <2>1, <2>2 DEF SeqsReached
<1>2. InSeq(v, f, T)
  BY DEF FileTable, InSeq
<1>3. Unswept(v, f, T)
  BY DEF FileTable, Unswept, Has
<1> QED BY <1>1, <1>2, <1>3 DEF FileTable

LEMMA PullOrdered ==
  ASSUME NEW v, NEW ls, NEW fl, Ordered(v, ls, fl), NEW m \in Machines, NEW from \in Machines,
         NEW l2, l2 = [k \in Machines |-> IF k = m THEN ls[m] \cup ls[from] ELSE ls[k]]
  PROVE  Ordered(v, l2, fl)
<1>1. /\ \A k \in Machines : TableShape(v, ls[k]) /\ FileTable(v, fl[k], ls[k])
      /\ OneRow(ls) /\ Known(v, ls, fl)
  BY DEF Ordered
<1>2. l2[m] = ls[m] \cup ls[from] /\ \A k \in Machines : k # m => l2[k] = ls[k]
  OBVIOUS
<1>3. \A k \in Machines : TableShape(v, l2[k])
  BY <1>1, <1>2, UnionShape
<1>4. ASSUME NEW i \in Places(v, fl[m]), NEW e \in ls[m] \cup ls[from], e.rec = fl[m][i].n
      PROVE  e \in ls[m]
  <2> SUFFICES ASSUME e \in ls[from] PROVE e \in ls[m]
    OBVIOUS
  <2>1. Has(ls[from], fl[m][i].n)
    BY <1>4 DEF Has
  <2>2. Has(ls[m], fl[m][i].n)
    BY <1>1, <2>1 DEF Known
  <2>3. PICK d \in ls[m] : d.rec = fl[m][i].n
    BY <2>2 DEF Has
  <2>4. d = e
    BY <1>1, <1>4, <2>3 DEF OneRow
  <2> QED BY <2>3, <2>4
<1>5. \A k \in Machines : FileTable(v, fl[k], l2[k])
  <2>1. FileTable(v, fl[m], ls[m] \cup ls[from])
    BY <1>1, <1>4, OthersArrive
  <2> QED BY <1>1, <1>2, <2>1
<1>6. \A k \in Machines : \A e \in l2[k] : \E h \in Machines : e \in ls[h]
  BY <1>2
<1>7. OneRow(l2)
  BY <1>1, <1>6 DEF OneRow
<1>8. Known(v, l2, fl)
  <2> SUFFICES ASSUME NEW k \in Machines, NEW i \in Places(v, fl[k]), ~Has(l2[k], fl[k][i].n),
                      NEW h \in Machines
               PROVE  /\ ~Has(l2[h], fl[k][i].n)
                      /\ h # k => \A j \in Places(v, fl[h]) : fl[h][j].n # fl[k][i].n
    BY DEF Known
  <2>1. ~Has(ls[k], fl[k][i].n)
    BY <1>2 DEF Has
  <2>2. \A g \in Machines : ~Has(ls[g], fl[k][i].n)
    BY <1>1, <2>1 DEF Known
  <2>3. ~Has(l2[h], fl[k][i].n)
    BY <1>6, <2>2 DEF Has
  <2>4. h # k => \A j \in Places(v, fl[h]) : fl[h][j].n # fl[k][i].n
    BY <1>1, <2>1 DEF Known
  <2> QED BY <2>3, <2>4
<1> QED BY <1>3, <1>5, <1>7, <1>8 DEF Ordered

-------------------------------------------------------------------------------
(* A table is written out as a transcript. *)

(* The transcript has a line for each row, in the order of the rows. *)
Listing(v, g, L) ==
  /\ Len(g) \in Nat \ {0} /\ FileShape(v, g)
  /\ \A i \in Places(v, g) : Has(L, g[i].n)
  /\ \A e \in L : \E i \in Places(v, g) : g[i].n = e.rec
  /\ \A i, j \in Places(v, g) : \A d, e \in L :
       d.rec = g[i].n /\ e.rec = g[j].n => (i < j <=> Before(v, d, e))

LEMMA ListingReaches ==
  ASSUME NEW v, ViewOK(v), NEW L, TableShape(v, L), NEW g, Listing(v, g, L)
  PROVE  SeqsReached(v, g, L)
<1>1. PICK w \in [L -> Nat] : Explains(v, L, w)
  BY DEF TableShape, Explained
<1>2. PICK q \in [1..Len(g) -> Nat] : Numbered(v, g, q)
  BY NumbersExist DEF Listing
<1>3. PICK n \in Nat : n = Len(g)
  BY DEF Listing
<1>4. ASSUME NEW i \in Places(v, g), NEW e \in L, e.rec = g[i].n
      PROVE  /\ i \in 2..n /\ i \in 1..n /\ q[i] \in Nat /\ q[i] >= Ms(v.rec[e.rec].ts)
             /\ q[i] >= Base(v) + 1 /\ \A h \in 1..(i - 1) : q[h] < q[i]
  <2>1. i \in 2..n /\ g[i] = LineOf(v, g[i].n) /\ g[i].n \in 2..Len(v.rec)
    BY <1>3, PlaceIs
  <2>2. v.key[g[i].n] # <<>>
    <3>1. v.key[e.rec] = <<e.key>>
      BY DEF TableShape, Swept
    <3>2. PICK x : x = e.key
      OBVIOUS
    <3>3. <<x>> # <<>>
      OBVIOUS
    <3> QED BY <1>4, <3>1, <3>2, <3>3
  <2>3. /\ \A h \in 1..(i - 1) : q[h] < q[i]
        /\ q[i] >= Ms(g[i].ts) /\ q[i] > Base(v)
    BY <1>2, <2>2, NumbersGrow DEF Listing
  <2>4. PICK r : r = e.rec
    OBVIOUS
  <2>5. g[i].ts = v.rec[r].ts
    BY <1>4, <2>1, <2>4 DEF LineOf
  <2>6. q[i] \in Nat /\ Base(v) \in Nat
    BY <1>2, <1>3, <2>1, ViewIs
  <2> QED BY <2>1, <2>3, <2>4, <2>5, <2>6
<1> DEFINE Short == {i \in Places(v, g) : \E e \in L : e.rec = g[i].n /\ ~(w[e] <= q[i])}
<1>5. Short = {}
  <2> SUFFICES ASSUME Short # {} PROVE FALSE
    OBVIOUS
  <2>1. Short \in SUBSET Nat
    BY <1>3, PlaceIs
  <2>2. PICK i \in Short : \A j \in Short : i <= j
    <3> HIDE DEF Short
    <3> QED BY <2>1, LeastOf
  <2>3. PICK e \in L : e.rec = g[i].n /\ ~(w[e] <= q[i])
    OBVIOUS
  <2>4. i \in Places(v, g)
    OBVIOUS
  <2>5. /\ q[i] \in Nat /\ q[i] >= Ms(v.rec[e.rec].ts) /\ q[i] >= Base(v) + 1
        /\ \A h \in 1..(i - 1) : q[h] < q[i]
    BY <1>4, <2>3, <2>4
  <2>6. PICK x \in Nat, y \in Nat, z \in Nat, b \in Nat :
          x = q[i] /\ y = w[e] /\ z = Ms(v.rec[e.rec].ts) /\ b = Base(v)
    <3>1. e.rec \in 1..Len(v.rec)
      <4>1. e.rec \in 2..Len(v.rec)
        BY DEF TableShape, Swept
      <4> QED BY <4>1, ViewIs
    <3> QED BY <1>1, <2>5, <3>1, ViewIs
  <2>7. PICK d \in L : Before(v, d, e) /\ w[e] <= w[d] + 1
    <3>1. ~(y <= z) /\ ~(y <= b + 1)
      BY <2>3, <2>5, <2>6
    <3> QED BY <1>1, <2>6, <3>1 DEF Explains
  <2>8. PICK j \in Places(v, g) : g[j].n = d.rec
    BY DEF Listing
  <2>9. j < i
    BY <2>3, <2>4, <2>7, <2>8 DEF Listing
  <2>10. j \in Nat /\ i \in Nat /\ j \in 1..(i - 1) /\ q[j] < q[i]
    <3>1. j \in 2..n /\ i \in 2..n
      <4>1. j \in 2..n
        BY <1>4, <2>8
      <4>2. i \in 2..n
        BY <1>4, <2>3, <2>4
      <4> QED BY <4>1, <4>2
    <3>2. j \in 1..(i - 1)
      BY <2>9, <3>1
    <3> QED BY <2>5, <3>1, <3>2
  <2>11. w[d] <= q[j]
    <3>1. j \notin Short
      <4> HIDE DEF Short
      <4>1. j \in Short => i <= j
        BY <2>2
      <4> QED BY ONLY <2>9, <2>10, <4>1
    <3> QED BY <2>8, <3>1
  <2>12. PICK u \in Nat, s \in Nat : u = w[d] /\ s = q[j]
    <3>1. q[j] \in Nat
      BY <1>4, <2>8
    <3> QED BY <1>1, <3>1
  <2> QED BY <2>3, <2>6, <2>7, <2>10, <2>11, <2>12
<1>6. Reaches(v, g, L, q)
  <2> SUFFICES ASSUME NEW i \in Places(v, g), NEW e \in L, e.rec = g[i].n PROVE e.seq <= q[i]
    BY DEF Reaches
  <2>1. w[e] <= q[i] /\ e.seq <= w[e]
    BY <1>1, <1>5 DEF Explains
  <2>2. e.seq \in Nat /\ w[e] \in Nat /\ q[i] \in Nat
    BY <1>1, <1>4 DEF TableShape, Swept
  <2> QED BY <2>1, <2>2
<1> QED BY <1>2, <1>6 DEF SeqsReached

LEMMA ListingIs ==
  ASSUME NEW v, ViewOK(v), NEW L, TableShape(v, L), NEW g, Listing(v, g, L)
  PROVE  FileTable(v, g, L)
<1>1. InSeq(v, g, L)
  <2> SUFFICES ASSUME NEW i \in Places(v, g), NEW j \in Places(v, g), i < j, NEW e \in L, e.rec = g[j].n
               PROVE  \E d \in L : d.rec = g[i].n /\ Before(v, d, e)
    BY DEF InSeq
  <2>1. PICK d \in L : d.rec = g[i].n
    BY DEF Listing, Has
  <2> QED BY <2>1 DEF Listing
<1>2. Unswept(v, g, L)
  BY DEF Unswept, Listing
<1>3. Silent(v, g)
  <2> SUFFICES ASSUME NEW j \in Places(v, g), v.key[g[j].n] = <<>> PROVE FALSE
    BY DEF Silent
  <2>1. PICK e \in L : e.rec = g[j].n
    BY DEF Listing, Has
  <2>2. v.key[e.rec] = <<e.key>>
    BY DEF TableShape, Swept
  <2>3. PICK x : x = e.key
    OBVIOUS
  <2>4. <<x>> # <<>>
    OBVIOUS
  <2> QED BY <2>1, <2>2, <2>3, <2>4
<1>4. Len(g) \in Nat \ {0}
  BY DEF Listing
<1> QED BY <1>1, <1>2, <1>3, <1>4, ListingReaches DEF FileTable

LEMMA ReplayOrdered ==
  ASSUME NEW v, ViewOK(v), NEW ls, NEW fl, Ordered(v, ls, fl), NEW m \in Machines,
         NEW g, Listing(v, g, ls[m]), NEW f2, f2 = [k \in Machines |-> IF k = m THEN g ELSE fl[k]]
  PROVE  Ordered(v, ls, f2)
<1>1. /\ \A k \in Machines : TableShape(v, ls[k]) /\ FileTable(v, fl[k], ls[k])
      /\ \A k \in Machines : fl[k] = NoFile \/ FileShape(v, fl[k])
      /\ OneRow(ls) /\ Known(v, ls, fl)
  BY DEF Ordered
<1>2. f2[m] = g /\ \A k \in Machines : k # m => f2[k] = fl[k]
  OBVIOUS
<1>3. \A k \in Machines : FileTable(v, f2[k], ls[k])
  BY <1>1, <1>2, ListingIs
<1>4. \A k \in Machines : f2[k] = NoFile \/ FileShape(v, f2[k])
  BY <1>1, <1>2 DEF Listing
<1>5. Known(v, ls, f2)
  <2> SUFFICES ASSUME NEW k \in Machines, NEW i \in Places(v, f2[k]), ~Has(ls[k], f2[k][i].n),
                      NEW h \in Machines
               PROVE  /\ ~Has(ls[h], f2[k][i].n)
                      /\ h # k => \A j \in Places(v, f2[h]) : f2[h][j].n # f2[k][i].n
    BY DEF Known
  <2>1. k # m /\ f2[k] = fl[k]
    BY <1>2 DEF Listing
  <2>2. \A x \in Machines : ~Has(ls[x], f2[k][i].n)
    BY <1>1, <2>1 DEF Known
  <2>3. ASSUME h # k, NEW j \in Places(v, f2[h]) PROVE f2[h][j].n # f2[k][i].n
    <3>1. CASE h = m
      <4>1. Has(ls[m], f2[h][j].n)
        BY <1>2, <3>1 DEF Listing
      <4> QED BY <2>2, <4>1
    <3>2. CASE h # m
      BY <1>1, <1>2, <2>1, <2>3, <3>2 DEF Known
    <3> QED BY <3>1, <3>2
  <2> QED BY <2>2, <2>3
<1> QED BY <1>1, <1>3, <1>4, <1>5 DEF Ordered

-------------------------------------------------------------------------------
(* A transcript is swept. *)

(* The table T after the sweep of a transcript whose lines get the seqs q. *)
SweepOf(v, f, L, q, T) ==
  /\ L \subseteq T
  /\ \A e \in T : \/ e \in L
                  \/ \E i \in Places(v, f) : /\ e.rec = f[i].n /\ ~Has(L, f[i].n)
                                             /\ Swept(v, e) /\ e.seq = q[i]
  /\ \A i \in Places(v, f) : v.key[f[i].n] # <<>> => Has(T, f[i].n)
  /\ \A a, b \in T : a.rec = b.rec => a = b

LEMMA LastTold ==
  ASSUME NEW v, NEW f, Len(f) \in Nat \ {0}, NEW q \in [1..Len(f) -> Nat], Numbered(v, f, q)
  PROVE  \A i \in 1..Len(f) :
           \/ q[i] = Base(v)
           \/ \E j \in Places(v, f) : j <= i /\ v.key[f[j].n] # <<>> /\ q[j] = q[i]
<1>1. PICK n \in Nat \ {0} : n = Len(f)
  OBVIOUS
<1> DEFINE Q(i) == \/ q[i] = Base(v)
                   \/ \E j \in Places(v, f) : j <= i /\ v.key[f[j].n] # <<>> /\ q[j] = q[i]
           P == {i \in 0..n : i = 0 \/ Q(i)}
<1>2. 0 \in P
  OBVIOUS
<1>3. ASSUME NEW i \in 1..n, i - 1 \in P PROVE i \in P
  <2>1. CASE i = 1
    BY <2>1 DEF Numbered
  <2>2. CASE i # 1 /\ i \in Places(v, f) /\ v.key[f[i].n] # <<>>
    <3>1. i <= i
      OBVIOUS
    <3> QED BY <2>2, <3>1
  <2>3. CASE i # 1 /\ ~(i \in Places(v, f) /\ v.key[f[i].n] # <<>>)
    <3>1. i \in 2..n /\ i - 1 \in 1..n /\ i - 1 # 0
      BY <2>3
    <3>2. q[i] = q[i - 1]
      BY <1>1, <2>3, <3>1 DEF Numbered
    <3>3. Q(i - 1)
      BY <1>3, <3>1
    <3>4. \A j \in Places(v, f) : j <= i - 1 => j <= i
      BY <1>1, PlaceIs
    <3> QED BY <3>2, <3>3, <3>4
  <2> QED BY <2>1, <2>2, <2>3
<1> HIDE DEF P
<1>4. \A i \in 0..n : i \in P
  BY <1>2, <1>3, UpToEnd
<1> QED BY <1>1, <1>4 DEF P

LEMMA SweepReaches ==
  ASSUME NEW v, NEW f, FileShape(v, f), NEW L, NEW q, Reaches(v, f, L, q),
         NEW T, SweepOf(v, f, L, q, T), \A e \in T : e.seq \in Nat
  PROVE  Reaches(v, f, T, q)
<1> SUFFICES ASSUME NEW i \in Places(v, f), NEW e \in T, e.rec = f[i].n PROVE e.seq <= q[i]
  BY DEF Reaches
<1>1. CASE e \in L
  BY <1>1 DEF Reaches
<1>2. CASE e \notin L
  <2>1. PICK j \in Places(v, f) : e.rec = f[j].n /\ e.seq = q[j]
    BY <1>2 DEF SweepOf
  <2>2. i = j
    BY <2>1 DEF FileShape
  <2> QED BY <2>1, <2>2
<1> QED BY <1>1, <1>2

LEMMA SweepInSeq ==
  ASSUME NEW v, ViewOK(v), NEW f, FileShape(v, f), Len(f) \in Nat \ {0},
         NEW q \in [1..Len(f) -> Nat], Numbered(v, f, q),
         NEW L, Reaches(v, f, L, q), InSeq(v, f, L),
         NEW T, SweepOf(v, f, L, q, T), \A e \in T : Swept(v, e)
  PROVE  InSeq(v, f, T)
<1> SUFFICES ASSUME NEW i \in Places(v, f), NEW j \in Places(v, f), i < j, v.key[f[i].n] # <<>>,
                    NEW e \in T, e.rec = f[j].n
             PROVE  \E d \in T : d.rec = f[i].n /\ Before(v, d, e)
  BY DEF InSeq
<1>1. CASE e \in L
  BY <1>1 DEF InSeq, SweepOf
<1>2. CASE e \notin L
  <2>1. PICK k \in Places(v, f) : e.rec = f[k].n /\ e.seq = q[k]
    BY <1>2 DEF SweepOf
  <2>2. e.seq = q[j]
    BY <2>1 DEF FileShape
  <2>3. PICK d \in T : d.rec = f[i].n
    BY DEF SweepOf, Has
  <2>4. \A x \in T : x.seq \in Nat
    BY DEF Swept
  <2>5. d.seq <= q[i]
    BY <2>3, <2>4, SweepReaches DEF Reaches
  <2>6. v.key[f[j].n] # <<>>
    <3>1. v.key[e.rec] = <<e.key>>
      BY DEF Swept
    <3>2. PICK x : x = e.key
      OBVIOUS
    <3>3. <<x>> # <<>>
      OBVIOUS
    <3> QED BY <3>1, <3>2, <3>3
  <2>7. i \in 1..(j - 1) /\ i \in 1..Len(f) /\ j \in 1..Len(f)
    <3>1. i \in 1..Len(f) /\ j \in 1..Len(f)
      BY PlaceIs
    <3> QED BY <3>1
  <2>8. q[i] < q[j]
    BY <2>6, <2>7, NumbersGrow
  <2>9. q[i] \in Nat /\ q[j] \in Nat /\ d.seq \in Nat
    BY <2>4, <2>7
  <2>10. d.seq < e.seq
    BY <2>2, <2>5, <2>8, <2>9
  <2> QED BY <2>3, <2>10 DEF Before
<1> QED BY <1>1, <1>2

LEMMA SweepAfter ==
  ASSUME NEW v, ViewOK(v), NEW f, FileShape(v, f), Len(f) \in Nat \ {0},
         NEW q \in [1..Len(f) -> Nat], Numbered(v, f, q),
         NEW L, Reaches(v, f, L, q), Unswept(v, f, L), AfterIn(v, L),
         NEW T, SweepOf(v, f, L, q, T), \A e \in T : Swept(v, e)
  PROVE  AfterIn(v, T)
<1> SUFFICES ASSUME NEW e \in T, NEW b \in v.rec[e.rec].after, b >= 2, v.key[b] # <<>>
             PROVE  \E d \in T : d.rec = b /\ d.seq < e.seq
  BY DEF AfterIn
<1>1. CASE e \in L
  BY <1>1 DEF AfterIn, SweepOf
<1>2. CASE e \notin L
  <2>1. PICK j \in Places(v, f) : e.rec = f[j].n /\ e.seq = q[j] /\ ~Has(L, f[j].n)
    BY <1>2 DEF SweepOf
  <2>2. PICK i \in Places(v, f) : i < j /\ f[i].n = b
    BY <2>1 DEF Unswept
  <2>3. PICK d \in T : d.rec = f[i].n
    BY <2>2 DEF SweepOf, Has
  <2>4. \A x \in T : x.seq \in Nat
    BY DEF Swept
  <2>5. d.seq <= q[i]
    BY <2>3, <2>4, SweepReaches DEF Reaches
  <2>6. v.key[f[j].n] # <<>>
    <3>1. v.key[e.rec] = <<e.key>>
      BY DEF Swept
    <3>2. PICK x : x = e.key
      OBVIOUS
    <3>3. <<x>> # <<>>
      OBVIOUS
    <3> QED BY <2>1, <3>1, <3>2, <3>3
  <2>7. i \in 1..(j - 1) /\ i \in 1..Len(f) /\ j \in 1..Len(f)
    <3>1. i \in 1..Len(f) /\ j \in 1..Len(f)
      BY PlaceIs
    <3> QED BY <2>2, <3>1
  <2>8. q[i] < q[j]
    BY <2>6, <2>7, NumbersGrow
  <2>9. q[i] \in Nat /\ q[j] \in Nat /\ d.seq \in Nat
    BY <2>4, <2>7
  <2>10. d.seq < e.seq
    BY <2>1, <2>5, <2>8, <2>9
  <2> QED BY <2>2, <2>3, <2>10
<1> QED BY <1>1, <1>2

LEMMA SweepExplained ==
  ASSUME NEW v, ViewOK(v), NEW f, FileShape(v, f), Len(f) \in Nat \ {0},
         NEW q \in [1..Len(f) -> Nat], Numbered(v, f, q),
         NEW L, Reaches(v, f, L, q), InSeq(v, f, L), Explained(v, L),
         NEW T, SweepOf(v, f, L, q, T), \A e \in T : Swept(v, e)
  PROVE  Explained(v, T)
<1>1. PICK a \in [L -> Nat] : Explains(v, L, a)
  BY DEF Explained
<1>2. InSeq(v, f, T)
  BY SweepInSeq
<1>3. L \subseteq T /\ \A x, y \in T : x.rec = y.rec => x = y
  BY DEF SweepOf
<1>4. \A i \in Places(v, f) : i \in 2..Len(f) /\ i \in 1..Len(f) /\ q[i] \in Nat
  BY PlaceIs
<1>5. \A i, j \in Places(v, f) : f[i].n = f[j].n => i = j
  BY DEF FileShape
<1> DEFINE told(e) == \E i \in Places(v, f) : f[i].n = e.rec
           place(e) == CHOOSE i \in Places(v, f) : f[i].n = e.rec
           x(e) == IF e \in L THEN a[e] ELSE 0
           y(e) == IF told(e) THEN q[place(e)] ELSE 0
           most(e) == IF x(e) >= y(e) THEN x(e) ELSE y(e)
<1>6. ASSUME NEW e \in T, NEW i \in Places(v, f), f[i].n = e.rec PROVE y(e) = q[i]
  <2>1. place(e) \in Places(v, f) /\ f[place(e)].n = e.rec
    BY <1>6
  <2>2. place(e) = i
    BY <1>5, <1>6, <2>1
  <2> QED BY <1>6, <2>2
<1>7. PICK w : w = [e \in T |-> most(e)]
  OBVIOUS
<1>8. \A e \in T : x(e) \in Nat /\ y(e) \in Nat
  <2> TAKE e \in T
  <2>1. x(e) \in Nat
    BY <1>1
  <2>2. CASE told(e)
    <3>1. PICK i \in Places(v, f) : f[i].n = e.rec
      BY <2>2
    <3> HIDE DEF y
    <3> QED BY <1>4, <1>6, <2>1, <3>1
  <2>3. CASE ~told(e)
    BY <2>1, <2>3
  <2> QED BY <2>2, <2>3
<1>9. \A e \in T : /\ w[e] \in Nat /\ w[e] >= x(e) /\ w[e] >= y(e)
                   /\ w[e] = x(e) \/ w[e] = y(e)
  <2> HIDE DEF x, y
  <2> QED BY <1>7, <1>8
<1>10. w \in [T -> Nat]
  <2> HIDE DEF x, y
  <2> QED BY <1>7, <1>8
<1>11. \A d \in L : w[d] >= a[d] /\ a[d] \in Nat /\ w[d] \in Nat
  BY <1>1, <1>3, <1>9
<1>12. ASSUME NEW e \in T, NEW i \in Places(v, f), f[i].n = e.rec
       PROVE  w[e] >= q[i]
  BY <1>6, <1>9, <1>12
<1>13. ASSUME NEW e \in T PROVE e.seq <= w[e]
  <2>1. e.seq \in Nat /\ w[e] \in Nat
    BY <1>9 DEF Swept
  <2>2. CASE e \in L
    <3>1. e.seq <= a[e]
      BY <1>1, <2>2 DEF Explains
    <3> QED BY <1>11, <2>1, <2>2, <3>1
  <2>3. CASE e \notin L
    <3>1. PICK i \in Places(v, f) : e.rec = f[i].n /\ e.seq = q[i]
      BY <2>3 DEF SweepOf
    <3> QED BY <1>12, <3>1
  <2> QED BY <2>2, <2>3
<1>14. ASSUME NEW e \in T
       PROVE  \/ w[e] <= Ms(v.rec[e.rec].ts)
              \/ w[e] <= Base(v) + 1
              \/ \E d \in T : Before(v, d, e) /\ w[e] <= w[d] + 1
  <2>1. CASE e \in L /\ w[e] = a[e]
    <3>1. \A d \in L : a[e] <= a[d] + 1 => a[e] <= w[d] + 1
      <4> TAKE d \in L
      <4>1. w[d] \in Nat /\ a[d] \in Nat /\ a[e] \in Nat /\ w[d] >= a[d]
        BY <1>11, <2>1
      <4> QED BY <4>1
    <3> QED BY <1>1, <1>3, <2>1, <3>1 DEF Explains
  <2>2. CASE told(e) /\ w[e] = y(e)
    <3>1. PICK i \in Places(v, f) : f[i].n = e.rec
      BY <2>2
    <3>2. w[e] = q[i]
      <4> HIDE DEF y
      <4> QED BY <1>6, <2>2, <3>1
    <3>3. v.key[f[i].n] # <<>>
      <4>1. v.key[e.rec] = <<e.key>>
        BY DEF Swept
      <4>2. PICK z : z = e.key
        OBVIOUS
      <4>3. <<z>> # <<>>
        OBVIOUS
      <4> QED BY <3>1, <4>1, <4>2, <4>3
    <3>4. PICK r : r = e.rec
      OBVIOUS
    <3>5. f[i].ts = v.rec[r].ts
      <4>1. f[i] = LineOf(v, r)
        BY <1>4, <3>1, <3>4 DEF Places
      <4> QED BY <4>1 DEF LineOf
    <3>6. i \in 2..Len(f) /\ i - 1 \in 1..Len(f)
      BY <1>4
    <3>7. q[i] = Bump(Ms(v.rec[e.rec].ts), q[i - 1])
      BY <3>3, <3>4, <3>5, <3>6 DEF Numbered
    <3>8. q[i] = Ms(v.rec[e.rec].ts) \/ q[i] = q[i - 1] + 1
      BY <3>7 DEF Bump
    <3>9. q[i] \in Nat
      BY <1>4
    <3>10. CASE q[i] = Ms(v.rec[e.rec].ts)
      BY <3>2, <3>9, <3>10
    <3>11. CASE q[i] = q[i - 1] + 1
      <4>1. CASE q[i - 1] = Base(v)
        BY <3>2, <3>9, <3>11, <4>1
      <4>2. CASE q[i - 1] # Base(v)
        <5>1. PICK j \in Places(v, f) : j <= i - 1 /\ v.key[f[j].n] # <<>> /\ q[j] = q[i - 1]
          BY <3>6, <4>2, LastTold
        <5>2. j < i
          BY <1>4, <3>6, <5>1
        <5>3. PICK d \in T : d.rec = f[j].n /\ Before(v, d, e)
          BY <1>2, <3>1, <5>1, <5>2 DEF InSeq
        <5>4. w[d] >= q[j] /\ w[d] \in Nat /\ q[j] \in Nat
          BY <1>4, <1>9, <1>12, <5>3
        <5>5. w[e] <= w[d] + 1
          BY <3>2, <3>11, <5>1, <5>4
        <5> QED BY <5>3, <5>5
      <4> QED BY <4>1, <4>2
    <3> QED BY <3>8, <3>10, <3>11
  <2>3. CASE e \notin L /\ ~told(e)
    <3>1. PICK i \in Places(v, f) : e.rec = f[i].n
      BY <2>3 DEF SweepOf
    <3> QED BY <2>3, <3>1
  <2>4. (e \in L /\ w[e] = a[e]) \/ (told(e) /\ w[e] = y(e)) \/ (e \notin L /\ ~told(e))
        \/ (e \in L /\ ~told(e) /\ w[e] = 0) \/ (e \notin L /\ told(e) /\ w[e] = 0)
    BY <1>9
  <2>5. CASE w[e] = 0
    <3>1. Base(v) \in Nat
      BY ViewIs
    <3> QED BY <2>5, <3>1
  <2> HIDE DEF told, y
  <2> QED BY <2>1, <2>2, <2>3, <2>4, <2>5
<1>15. Explains(v, T, w)
  BY <1>13, <1>14 DEF Explains
<1> QED BY <1>10, <1>15 DEF Explained

(* The sweep of machine m. *)
LEMMA SweepOrdered ==
  ASSUME NEW v, ViewOK(v), NEW ls, NEW fl, Ordered(v, ls, fl), NEW m \in Machines, FileShape(v, fl[m]),
         NEW q \in [1..Len(fl[m]) -> Nat], Numbered(v, fl[m], q), Reaches(v, fl[m], ls[m], q),
         NEW T, SweepOf(v, fl[m], ls[m], q, T), \A e \in T : Swept(v, e),
         NEW l2, l2 = [k \in Machines |-> IF k = m THEN T ELSE ls[k]]
  PROVE  Ordered(v, l2, fl)
<1>1. /\ \A k \in Machines : TableShape(v, ls[k]) /\ FileTable(v, fl[k], ls[k])
      /\ \A k \in Machines : fl[k] = NoFile \/ FileShape(v, fl[k])
      /\ OneRow(ls) /\ Known(v, ls, fl)
  BY DEF Ordered
<1>2. l2[m] = T /\ \A k \in Machines : k # m => l2[k] = ls[k]
  OBVIOUS
<1>3. /\ Len(fl[m]) \in Nat \ {0} /\ InSeq(v, fl[m], ls[m]) /\ Unswept(v, fl[m], ls[m])
      /\ Silent(v, fl[m]) /\ AfterIn(v, ls[m]) /\ Explained(v, ls[m])
  BY <1>1 DEF FileTable, TableShape
<1>4. \A e \in T : e.seq \in Nat
  BY DEF Swept
<1>5. TableShape(v, T)
  BY <1>3, SweepAfter, SweepExplained DEF TableShape
<1>6. FileTable(v, fl[m], T)
  <2>1. SeqsReached(v, fl[m], T)
    BY <1>4, SweepReaches DEF SeqsReached
  <2>2. InSeq(v, fl[m], T)
    BY <1>3, SweepInSeq
  <2>3. Unswept(v, fl[m], T)
    BY <1>3 DEF Unswept, SweepOf, Has
  <2> QED BY <1>3, <2>1, <2>2, <2>3 DEF FileTable
<1>7. \A e \in T : \/ e \in ls[m]
                   \/ \E i \in Places(v, fl[m]) : e.rec = fl[m][i].n /\ ~Has(ls[m], fl[m][i].n)
  BY DEF SweepOf
<1>8. \A a, b \in T : a.rec = b.rec => a = b
  BY DEF SweepOf
<1>9. ASSUME NEW a \in T, NEW k \in Machines, k # m, NEW b \in ls[k], a.rec = b.rec PROVE a = b
  <2>1. CASE a \in ls[m]
    BY <1>1, <1>9, <2>1 DEF OneRow
  <2>2. CASE a \notin ls[m]
    <3>1. PICK i \in Places(v, fl[m]) : a.rec = fl[m][i].n /\ ~Has(ls[m], fl[m][i].n)
      BY <1>7, <2>2
    <3>2. ~Has(ls[k], fl[m][i].n)
      BY <1>1, <3>1 DEF Known
    <3> QED BY <1>9, <3>1, <3>2 DEF Has
  <2> QED BY <2>1, <2>2
<1>10. OneRow(l2)
  <2> SUFFICES ASSUME NEW h \in Machines, NEW k \in Machines, NEW a \in l2[h], NEW b \in l2[k],
                      a.rec = b.rec
               PROVE  a = b
    BY DEF OneRow
  <2>1. CASE h = m /\ k = m
    BY <1>2, <1>8, <2>1
  <2>2. CASE h = m /\ k # m
    BY <1>2, <1>9, <2>2
  <2>3. CASE h # m /\ k = m
    BY <1>2, <1>9, <2>3
  <2>4. CASE h # m /\ k # m
    BY <1>1, <1>2, <2>4 DEF OneRow
  <2> QED BY <2>1, <2>2, <2>3, <2>4
<1>11. Known(v, l2, fl)
  <2> SUFFICES ASSUME NEW k \in Machines, NEW i \in Places(v, fl[k]), ~Has(l2[k], fl[k][i].n),
                      NEW h \in Machines
               PROVE  /\ ~Has(l2[h], fl[k][i].n)
                      /\ h # k => \A j \in Places(v, fl[h]) : fl[h][j].n # fl[k][i].n
    BY DEF Known
  <2>1. ~Has(ls[k], fl[k][i].n)
    BY <1>2 DEF Has, SweepOf
  <2>2. /\ ~Has(ls[h], fl[k][i].n)
        /\ h # k => \A j \in Places(v, fl[h]) : fl[h][j].n # fl[k][i].n
    BY <1>1, <2>1 DEF Known
  <2>3. ~Has(l2[h], fl[k][i].n)
    <3>1. CASE h = k
      BY <3>1
    <3>2. CASE h # m
      BY <1>2, <2>2, <3>2
    <3>3. CASE h = m /\ h # k
      BY <1>2, <1>7, <2>2, <3>3 DEF Has
    <3> QED BY <3>1, <3>2, <3>3
  <2> QED BY <2>2, <2>3
<1>12. \A k \in Machines : TableShape(v, l2[k]) /\ FileTable(v, fl[k], l2[k])
  BY <1>1, <1>2, <1>5, <1>6
<1> QED BY <1>1, <1>10, <1>11, <1>12 DEF Ordered

-------------------------------------------------------------------------------
(* The CLI writes. *)

(* v2 has one record more than v. *)
OneMore(v, v2) ==
  /\ ViewOK(v) /\ ViewOK(v2) /\ Len(v2.rec) = Len(v.rec) + 1 /\ v2.flip = v.flip
  /\ \A n \in 1..Len(v.rec) : v2.rec[n] = v.rec[n] /\ v2.key[n] = v.key[n]

LEMMA MoreBase ==
  ASSUME NEW v, NEW v2, OneMore(v, v2)
  PROVE  Base(v2) = Base(v)
<1>1. 1 \in 1..Len(v.rec)
  BY ViewIs DEF OneMore
<1> QED BY <1>1 DEF OneMore, Base

LEMMA MorePlaces ==
  ASSUME NEW v, NEW v2, OneMore(v, v2), NEW f, Len(f) \in Nat, f = NoFile \/ FileShape(v, f)
  PROVE  Places(v2, f) = Places(v, f)
<1>1. PICK n \in Nat \ {0} : n = Len(v.rec) /\ Len(v2.rec) = n + 1
  BY ViewIs DEF OneMore
<1>2. \A k \in 1..n : LineOf(v2, k) = LineOf(v, k)
  BY <1>1 DEF OneMore, LineOf
<1>3. \A i \in 2..Len(f) : f[i].as = "envelope" \/ i \in Places(v, f)
  BY DEF FileShape, NoFile
<1>4. ASSUME NEW i \in Places(v, f) PROVE i \in Places(v2, f)
  <2>1. PICK k : k = f[i].n
    OBVIOUS
  <2>2. i \in 2..Len(f) /\ k \in 2..n /\ f[i] = LineOf(v, k)
    BY <1>1, <2>1 DEF Places
  <2>3. k \in 1..n /\ k \in 2..(n + 1)
    BY <2>2
  <2>4. f[i] = LineOf(v2, k)
    BY <1>2, <2>2, <2>3
  <2> QED BY <1>1, <2>1, <2>2, <2>3, <2>4 DEF Places
<1>5. ASSUME NEW i \in Places(v2, f) PROVE i \in Places(v, f)
  <2>1. i \in 2..Len(f) /\ f[i] = LineOf(v2, f[i].n)
    BY DEF Places
  <2>2. PICK k : k = f[i].n
    OBVIOUS
  <2>3. f[i].as = "line"
    BY <2>1, <2>2 DEF LineOf
  <2> QED BY <1>3, <2>1, <2>3
<1> QED BY <1>4, <1>5

LEMMA MoreTable ==
  ASSUME NEW v, NEW v2, OneMore(v, v2), NEW L, TableShape(v, L)
  PROVE  TableShape(v2, L) /\ ~Has(L, Len(v2.rec))
<1>1. PICK n \in Nat \ {0} : n = Len(v.rec) /\ Len(v2.rec) = n + 1
  BY ViewIs DEF OneMore
<1>2. \A e \in L : e.rec \in 2..n /\ e.rec \in 1..n
  BY <1>1 DEF TableShape, Swept
<1>3. \A k \in 1..n : v2.rec[k] = v.rec[k] /\ v2.key[k] = v.key[k] /\ v.rec[k].after \subseteq 1..(k - 1)
                      /\ LineOf(v2, k) = LineOf(v, k)
  BY <1>1 DEF OneMore, ViewOK, LineOf
<1>4. \A d, e : Before(v2, d, e) <=> Before(v, d, e)
  BY DEF Before, OneMore
<1>5. \A e \in L : Swept(v2, e)
  <2> TAKE e \in L
  <2>1. Swept(v, e)
    BY DEF TableShape
  <2>2. PICK k : k = e.rec
    OBVIOUS
  <2>3. k \in 2..n /\ k \in 1..n /\ k \in 2..(n + 1)
    BY <1>2, <2>2
  <2>4. v2.key[k] = v.key[k] /\ LineOf(v2, k) = LineOf(v, k)
    BY <1>3, <2>3
  <2>5. e.native = LineOf(v, k) /\ v.key[k] = <<e.key>> /\ e.seq \in Nat /\ e.seq > Base(v)
    BY <2>1, <2>2 DEF Swept
  <2>6. e.native = LineOf(v2, e.rec) /\ v2.key[e.rec] = <<e.key>> /\ e.seq > Base(v2)
    BY <2>2, <2>4, <2>5, MoreBase
  <2> QED BY <1>1, <2>2, <2>3, <2>5, <2>6 DEF Swept
<1>6. AfterIn(v2, L)
  <2> SUFFICES ASSUME NEW e \in L, NEW b \in v2.rec[e.rec].after, b >= 2, v2.key[b] # <<>>
               PROVE  \E d \in L : d.rec = b /\ d.seq < e.seq
    BY DEF AfterIn
  <2>1. PICK k \in 1..n : k = e.rec
    BY <1>2
  <2>2. b \in v.rec[e.rec].after /\ b \in 1..n
    <3>1. v2.rec[k].after = v.rec[k].after /\ v.rec[k].after \subseteq 1..(k - 1)
      BY <1>3
    <3>2. b \in v.rec[k].after /\ b \in 1..(k - 1)
      BY <2>1, <3>1
    <3> QED BY <2>1, <3>2
  <2>3. v.key[b] # <<>>
    BY <1>3, <2>2
  <2> QED BY <2>2, <2>3 DEF TableShape, AfterIn
<1>7. Explained(v2, L)
  <2>1. PICK w \in [L -> Nat] : Explains(v, L, w)
    BY DEF TableShape, Explained
  <2>2. \A e \in L : v2.rec[e.rec].ts = v.rec[e.rec].ts
    BY <1>2, <1>3
  <2>3. Explains(v2, L, w)
    BY <1>4, <2>1, <2>2, MoreBase DEF Explains
  <2> QED BY <2>3 DEF Explained
<1>8. ~Has(L, n + 1)
  BY <1>2 DEF Has
<1> QED BY <1>1, <1>5, <1>6, <1>7, <1>8 DEF TableShape

LEMMA MoreFile ==
  ASSUME NEW v, NEW v2, OneMore(v, v2), NEW f, f = NoFile \/ FileShape(v, f),
         NEW L, FileTable(v, f, L)
  PROVE  /\ f = NoFile \/ FileShape(v2, f)
         /\ FileTable(v2, f, L)
<1>1. PICK n \in Nat \ {0} : n = Len(v.rec) /\ Len(v2.rec) = n + 1
  BY ViewIs DEF OneMore
<1>2. Len(f) \in Nat \ {0} /\ Places(v2, f) = Places(v, f)
  BY MorePlaces DEF FileTable
<1>3. \A i \in Places(v, f) : f[i].n \in 1..n
  BY <1>1, <1>2, PlaceIs
<1>4. \A k \in 1..n : v2.rec[k] = v.rec[k] /\ v2.key[k] = v.key[k] /\ v.rec[k].after \subseteq 1..(k - 1)
  BY <1>1 DEF OneMore, ViewOK
<1>5. \A i \in Places(v, f) : v2.rec[f[i].n] = v.rec[f[i].n] /\ v2.key[f[i].n] = v.key[f[i].n]
  BY <1>3, <1>4
<1>6. \A d, e : Before(v2, d, e) <=> Before(v, d, e)
  BY DEF Before, OneMore
<1>7. ASSUME FileShape(v, f) PROVE FileShape(v2, f)
  <2>1. f[1].ts = v2.rec[1].ts
    BY <1>1, <1>4, <1>7 DEF FileShape
  <2> QED BY <1>2, <1>7, <2>1 DEF FileShape
<1>8. SeqsReached(v2, f, L)
  <2>1. PICK q \in [1..Len(f) -> Nat] : Numbered(v, f, q) /\ Reaches(v, f, L, q)
    BY DEF FileTable, SeqsReached
  <2>2. Numbered(v2, f, q)
    BY <1>2, <1>5, <2>1, MoreBase DEF Numbered
  <2>3. Reaches(v2, f, L, q)
    BY <1>2, <2>1 DEF Reaches
  <2> QED BY <2>2, <2>3 DEF SeqsReached
<1>9. InSeq(v2, f, L)
  BY <1>2, <1>5, <1>6 DEF FileTable, InSeq
<1>10. Unswept(v2, f, L)
  BY <1>2, <1>5 DEF FileTable, Unswept
<1>11. Silent(v2, f)
  BY <1>2, <1>5 DEF FileTable, Silent
<1> QED BY <1>2, <1>7, <1>8, <1>9, <1>10, <1>11 DEF FileTable

LEMMA WriteOrdered ==
  ASSUME NEW v, NEW v2, OneMore(v, v2), NEW ls, NEW fl, Ordered(v, ls, fl),
         NEW m \in Machines, FileShape(v, fl[m]),
         NEW g, Len(g) = Len(fl[m]) + 1, \A i \in 1..Len(fl[m]) : g[i] = fl[m][i],
         g[Len(g)] = LineOf(v2, Len(v2.rec)),
         \A b \in v2.rec[Len(v2.rec)].after : b >= 2 => \E i \in Places(v, fl[m]) : fl[m][i].n = b,
         NEW f2, f2 = [k \in Machines |-> IF k = m THEN g ELSE fl[k]]
  PROVE  Ordered(v2, ls, f2)
<1>1. /\ \A k \in Machines : TableShape(v, ls[k]) /\ FileTable(v, fl[k], ls[k])
      /\ \A k \in Machines : fl[k] = NoFile \/ FileShape(v, fl[k])
      /\ OneRow(ls) /\ Known(v, ls, fl)
  BY DEF Ordered
<1>2. f2[m] = g /\ \A k \in Machines : k # m => f2[k] = fl[k]
  OBVIOUS
<1>3. PICK N \in Nat : N = Len(v2.rec) /\ N - 1 = Len(v.rec) /\ N >= 2
  BY ViewIs DEF OneMore
<1>4. \A k \in Machines : TableShape(v2, ls[k]) /\ ~Has(ls[k], N)
  BY <1>1, <1>3, MoreTable
<1>5. \A k \in Machines : /\ fl[k] = NoFile \/ FileShape(v2, fl[k])
                          /\ FileTable(v2, fl[k], ls[k]) /\ Places(v2, fl[k]) = Places(v, fl[k])
  BY <1>1, MoreFile, MorePlaces DEF FileTable
<1> DEFINE f == fl[m]
           L == ls[m]
           P == Places(v, f)
<1>6. PICK n \in Nat \ {0} : n = Len(f) /\ Len(g) = n + 1 /\ g[n + 1] = LineOf(v2, N)
  BY <1>1, <1>3 DEF FileTable
<1>7. FileShape(v2, f) /\ FileTable(v2, f, L) /\ Places(v2, f) = P
  <2>1. fl[m] # NoFile
    BY DEF FileShape, IsHead, NoFile
  <2> QED BY <1>5, <2>1
<1> HIDE DEF f, L
<1>8. \A i \in 1..n : g[i] = f[i]
  BY <1>6 DEF f
<1>9. \A i \in P : i \in 2..n /\ i \in 1..n /\ g[i] = f[i] /\ f[i].n \in 2..(N - 1) /\ f[i].n # N
  BY <1>3, <1>6, <1>8, PlaceIs
<1>10. n + 1 \notin P /\ g[n + 1].n = N /\ g[n + 1].as = "line" /\ g[n + 1].ts = v2.rec[N].ts
  BY <1>6, <1>9 DEF LineOf
<1>11. Places(v2, g) = P \cup {n + 1}
  <2>1. \A i \in 2..n : i \in Places(v2, g) <=> i \in P
    <3>1. \A i \in 2..n : i \in Places(v2, f) <=> i \in P
      BY <1>7
    <3>2. \A i \in 2..n : i \in 2..(n + 1) /\ g[i] = f[i]
      BY <1>8
    <3> QED BY <1>6, <3>1, <3>2 DEF Places
  <2>2. n + 1 \in Places(v2, g)
    BY <1>3, <1>6, <1>10 DEF Places
  <2>3. \A i \in 2..(n + 1) : i \in 2..n \/ i = n + 1
    OBVIOUS
  <2>4. Places(v2, g) \subseteq 2..(n + 1)
    BY <1>6 DEF Places
  <2> QED BY <1>9, <2>1, <2>2, <2>3, <2>4
<1>12. \A b \in v2.rec[N].after : b >= 2 => \E i \in P : f[i].n = b
  BY <1>3 DEF f
<1>13. \A k \in 1..N : N \notin v2.rec[k].after
  <2> TAKE k \in 1..N
  <2>1. v2.rec[k].after \subseteq 1..(k - 1)
    BY <1>3 DEF OneMore, ViewOK
  <2> QED BY <2>1
<1>14. FileShape(v2, g)
  <2>1. g[1] = f[1] /\ \A i \in 2..n : g[i] = f[i]
    BY <1>8
  <2>2. \A i \in 2..(n + 1) : g[i].as = "envelope" \/ i \in Places(v2, g)
    <3> TAKE i \in 2..(n + 1)
    <3>1. CASE i = n + 1
      BY <1>11, <3>1
    <3>2. CASE i # n + 1
      <4>1. i \in 2..n
        BY <3>2
      <4> QED BY <1>6, <1>7, <1>11, <2>1, <4>1 DEF FileShape
    <3> QED BY <3>1, <3>2
  <2>3. \A i, j \in Places(v2, g) : g[i].n = g[j].n => i = j
    <3>1. \A i, j \in P : f[i].n = f[j].n => i = j
      BY <1>7 DEF FileShape
    <3> HIDE DEF P
    <3> QED BY <1>9, <1>10, <1>11, <3>1
  <2> QED BY <1>6, <1>7, <2>1, <2>2, <2>3 DEF FileShape
<1>15. \A i \in P : v2.rec[f[i].n].after = v2.rec[g[i].n].after /\ ~Has(L, N)
  BY <1>4, <1>9 DEF L
<1>16. SeqsReached(v2, g, L)
  <2>1. PICK q \in [1..n -> Nat] : Numbered(v2, f, q) /\ Reaches(v2, f, L, q)
    BY <1>6, <1>7 DEF FileTable, SeqsReached
  <2>2. PICK z \in Nat : z = IF v2.key[N] # <<>> THEN Bump(Ms(v2.rec[N].ts), q[n]) ELSE q[n]
    <3>1. Ms(v2.rec[N].ts) \in Nat /\ q[n] \in Nat
      <4>1. N \in 1..Len(v2.rec) /\ ViewOK(v2) /\ n \in 1..n
        BY <1>3 DEF OneMore
      <4> QED BY <1>3, <4>1, ViewIs
    <3> QED BY <3>1 DEF Bump
  <2>3. PICK q2 : q2 = [i \in 1..(n + 1) |-> IF i = n + 1 THEN z ELSE q[i]]
    OBVIOUS
  <2>4. q2 \in [1..(n + 1) -> Nat] /\ q2[n + 1] = z /\ \A i \in 1..n : q2[i] = q[i] /\ i # n + 1
    BY <2>3
  <2>5. Numbered(v2, g, q2)
    <3>1. q2[1] = Base(v2)
      BY <2>1, <2>4 DEF Numbered
    <3> DEFINE new(i) == i \in Places(v2, g) /\ v2.key[g[i].n] # <<>>
               old(i) == i \in Places(v2, f) /\ v2.key[f[i].n] # <<>>
    <3>2. ASSUME NEW i \in 2..(n + 1)
          PROVE  q2[i] = IF new(i) THEN Bump(Ms(g[i].ts), q2[i - 1]) ELSE q2[i - 1]
      <4>1. CASE i = n + 1
        <5>1. q2[i - 1] = q[n] /\ q2[i] = z
          BY <2>4, <4>1
        <5>2. i \in Places(v2, g) /\ g[i].n = N /\ g[i].ts = v2.rec[N].ts
          BY <1>10, <1>11, <4>1
        <5> QED BY <2>2, <5>1, <5>2
      <4>2. CASE i # n + 1
        <5>1. i \in 2..n /\ i - 1 \in 1..n /\ i \in 1..n
          BY <4>2
        <5>2. q2[i] = q[i] /\ q2[i - 1] = q[i - 1] /\ g[i] = f[i]
          BY <1>8, <2>4, <5>1
        <5>3. new(i) <=> old(i)
          BY <1>7, <1>11, <4>2, <5>2
        <5>4. q[i] = IF old(i) THEN Bump(Ms(f[i].ts), q[i - 1]) ELSE q[i - 1]
          BY <1>6, <2>1, <5>1 DEF Numbered
        <5> HIDE DEF new, old
        <5> QED BY <5>2, <5>3, <5>4
      <4> QED BY <4>1, <4>2
    <3> QED BY <1>6, <3>1, <3>2 DEF Numbered
  <2>6. Reaches(v2, g, L, q2)
    <3> SUFFICES ASSUME NEW i \in Places(v2, g), NEW e \in L, e.rec = g[i].n PROVE e.seq <= q2[i]
      BY DEF Reaches
    <3>1. i # n + 1
      BY <1>4, <1>10 DEF Has, L
    <3>2. i \in P
      BY <1>11, <3>1
    <3> QED BY <1>7, <1>9, <2>1, <2>4, <3>2 DEF Reaches
  <2> QED BY <1>6, <2>4, <2>5, <2>6 DEF SeqsReached
<1>17. \A i \in Places(v2, g) : i = n + 1 \/ i \in P
  BY <1>11
<1>18. \A e \in L : e.rec # g[n + 1].n
  BY <1>4, <1>10 DEF Has, L
<1>19. InSeq(v2, g, L)
  <2> SUFFICES ASSUME NEW i \in Places(v2, g), NEW j \in Places(v2, g), i < j, v2.key[g[i].n] # <<>>,
                      NEW e \in L, e.rec = g[j].n
               PROVE  \E d \in L : d.rec = g[i].n /\ Before(v2, d, e)
    BY DEF InSeq
  <2>1. j # n + 1
    BY <1>18
  <2>2. j \in P /\ j \in 2..n
    BY <1>9, <1>17, <2>1
  <2>3. i # n + 1
    BY <2>2
  <2>4. i \in P
    BY <1>17, <2>3
  <2>5. g[i] = f[i] /\ g[j] = f[j]
    BY <1>9, <2>2, <2>4
  <2> QED BY <1>7, <2>2, <2>4, <2>5 DEF FileTable, InSeq
<1>20. Unswept(v2, g, L)
  <2> SUFFICES ASSUME NEW j \in Places(v2, g), ~Has(L, g[j].n),
                      NEW b \in v2.rec[g[j].n].after, b >= 2
               PROVE  \E i \in Places(v2, g) : i < j /\ g[i].n = b
    BY DEF Unswept
  <2>1. CASE j = n + 1
    <3>1. PICK i \in P : f[i].n = b
      BY <1>10, <1>12, <2>1
    <3>2. i < n + 1 /\ g[i] = f[i] /\ i \in Places(v2, g)
      BY <1>9, <1>11, <3>1
    <3> QED BY <2>1, <3>1, <3>2
  <2>2. CASE j \in P
    <3>1. g[j] = f[j]
      BY <1>9, <2>2
    <3>2. PICK i \in P : i < j /\ f[i].n = b
      BY <1>7, <2>2, <3>1 DEF FileTable, Unswept
    <3>3. g[i] = f[i] /\ i \in Places(v2, g)
      BY <1>9, <1>11, <3>2
    <3> QED BY <3>2, <3>3
  <2> QED BY <1>17, <2>1, <2>2
<1>21. Silent(v2, g)
  <2> SUFFICES ASSUME NEW i \in Places(v2, g), NEW j \in Places(v2, g),
                      g[j].n \in v2.rec[g[i].n].after, v2.key[g[j].n] = <<>>
               PROVE  j < i
    BY DEF Silent
  <2>1. g[i].n \in 1..N
    <3>1. CASE i = n + 1
      BY <1>3, <1>10, <3>1
    <3>2. CASE i \in P
      <4>1. g[i] = f[i] /\ f[i].n \in 2..(N - 1)
        BY <1>9, <3>2
      <4> QED BY <1>3, <4>1
    <3> QED BY <1>17, <3>1, <3>2
  <2>2. j # n + 1
    BY <1>10, <1>13, <2>1
  <2>3. j \in P /\ g[j] = f[j] /\ j \in 2..n
    BY <1>9, <1>17, <2>2
  <2>4. CASE i = n + 1
    BY <2>3, <2>4
  <2>5. CASE i \in P
    <3>1. g[i] = f[i]
      BY <1>9, <2>5
    <3> QED BY <1>7, <2>3, <2>5, <3>1 DEF FileTable, Silent
  <2> QED BY <1>17, <2>4, <2>5
<1>22. FileTable(v2, g, L)
  BY <1>6, <1>16, <1>19, <1>20, <1>21 DEF FileTable
<1>23. Known(v2, ls, f2)
  <2> SUFFICES ASSUME NEW k \in Machines, NEW i \in Places(v2, f2[k]), ~Has(ls[k], f2[k][i].n),
                      NEW h \in Machines
               PROVE  /\ ~Has(ls[h], f2[k][i].n)
                      /\ h # k => \A j \in Places(v2, f2[h]) : f2[h][j].n # f2[k][i].n
    BY DEF Known
  <2>1. \A j \in Places(v2, fl[h]) : fl[h][j].n # N /\ fl[h][j].n \in 1..(N - 1)
    <3>1. Len(fl[h]) \in Nat
      BY <1>1 DEF FileTable
    <3>2. \A j \in Places(v, fl[h]) : fl[h][j].n \in 2..(N - 1)
      BY <1>3, <3>1, PlaceIs
    <3> QED BY <1>3, <1>5, <3>2
  <2>2. CASE k = m /\ i = n + 1
    <3>1. f2[k][i].n = N
      BY <1>2, <1>10, <2>2
    <3> QED BY <1>2, <1>4, <2>1, <2>2, <3>1
  <2>3. CASE ~(k = m /\ i = n + 1)
    <3>1. i \in Places(v, fl[k]) /\ f2[k][i] = fl[k][i]
      <4>1. CASE k = m
        BY <1>2, <1>9, <1>17, <2>3, <4>1 DEF f
      <4>2. CASE k # m
        BY <1>2, <1>5, <4>2
      <4> QED BY <4>1, <4>2
    <3>2. /\ ~Has(ls[h], fl[k][i].n)
          /\ h # k => \A j \in Places(v, fl[h]) : fl[h][j].n # fl[k][i].n
      BY <1>1, <2>3, <3>1 DEF Known
    <3>3. fl[k][i].n # N
      <4>1. Len(fl[k]) \in Nat
        BY <1>1 DEF FileTable
      <4>2. fl[k][i].n \in 2..(N - 1)
        BY <1>3, <3>1, <4>1, PlaceIs
      <4> QED BY <4>2
    <3>4. ASSUME h # k, NEW j \in Places(v2, f2[h]) PROVE f2[h][j].n # f2[k][i].n
      <4>1. CASE h = m /\ j = n + 1
        BY <1>2, <1>10, <3>1, <3>3, <4>1
      <4>2. CASE ~(h = m /\ j = n + 1)
        <5>1. j \in Places(v, fl[h]) /\ f2[h][j] = fl[h][j]
          <6>1. CASE h = m
            BY <1>2, <1>9, <1>17, <4>2, <6>1 DEF f
          <6>2. CASE h # m
            BY <1>2, <1>5, <6>2
          <6> QED BY <6>1, <6>2
        <5> QED BY <3>1, <3>2, <3>4, <5>1
      <4> QED BY <4>1, <4>2
    <3> QED BY <3>1, <3>2, <3>4
  <2> QED BY <2>2, <2>3
<1>24. \A k \in Machines : /\ TableShape(v2, ls[k])
                           /\ f2[k] = NoFile \/ FileShape(v2, f2[k])
                           /\ FileTable(v2, f2[k], ls[k])
  BY <1>2, <1>4, <1>5, <1>14, <1>22 DEF L
<1> QED BY <1>1, <1>23, <1>24 DEF Ordered

(* A conversation of one record. *)
LEMMA OpenOrdered ==
  ASSUME NEW v, ViewOK(v), Len(v.rec) = 1, NEW m \in Machines,
         NEW ls, \A k \in Machines : ls[k] = {},
         NEW fl, \A k \in Machines : fl[k] = NoFile \/ fl[k] = <<LineOf(v, 1)>>
  PROVE  Ordered(v, ls, fl)
<1>1. \A k \in Machines : Len(fl[k]) = 1 /\ Places(v, fl[k]) = {}
  <2> TAKE k \in Machines
  <2>1. Len(fl[k]) = 1
    <3>1. \A x : Len(<<x>>) = 1
      OBVIOUS
    <3> QED BY <3>1 DEF NoFile
  <2>2. 2..1 = {}
    OBVIOUS
  <2> QED BY <2>1, <2>2 DEF Places
<1>2. \A k \in Machines : TableShape(v, ls[k])
  <2>1. PICK w : w = [e \in {} |-> 0]
    OBVIOUS
  <2>2. w \in [{} -> Nat] /\ Explains(v, {}, w)
    BY <2>1 DEF Explains
  <2> QED BY <2>2 DEF TableShape, AfterIn, Explained
<1>3. \A k \in Machines : fl[k] = NoFile \/ FileShape(v, fl[k])
  <2> SUFFICES ASSUME NEW k \in Machines, fl[k] = <<LineOf(v, 1)>> PROVE FileShape(v, fl[k])
    OBVIOUS
  <2>1. fl[k][1] = LineOf(v, 1)
    OBVIOUS
  <2>2. 2..1 = {}
    OBVIOUS
  <2> QED BY <1>1, <2>1, <2>2 DEF FileShape, IsHead, LineOf
<1>4. \A k \in Machines : FileTable(v, fl[k], ls[k])
  <2> TAKE k \in Machines
  <2>1. SeqsReached(v, fl[k], ls[k])
    <3>1. PICK q : q = [i \in 1..1 |-> Base(v)]
      OBVIOUS
    <3>2. q \in [1..1 -> Nat] /\ q[1] = Base(v)
      BY <3>1, ViewIs
    <3>3. 2..1 = {}
      OBVIOUS
    <3>4. Numbered(v, fl[k], q) /\ Reaches(v, fl[k], ls[k], q)
      BY <1>1, <3>2, <3>3 DEF Numbered, Reaches
    <3> QED BY <1>1, <3>2, <3>4 DEF SeqsReached
  <2>2. InSeq(v, fl[k], ls[k]) /\ Unswept(v, fl[k], ls[k]) /\ Silent(v, fl[k])
    BY <1>1 DEF InSeq, Unswept, Silent
  <2> QED BY <1>1, <2>1, <2>2 DEF FileTable
<1>5. OneRow(ls) /\ Known(v, ls, fl)
  BY <1>1 DEF OneRow, Known
<1> QED BY <1>2, <1>3, <1>4, <1>5 DEF Ordered

-------------------------------------------------------------------------------
(* What the order comes to. *)

LEMMA BeforeIsEarlier ==
  ASSUME NEW v, NEW a, NEW b, Before(v, a, b), a.seq \in Nat, b.seq \in Nat
  PROVE  ~(b.seq < a.seq)
<1>1. \A x, y \in Nat : x < y \/ x = y => ~(y < x)
  OBVIOUS
<1> QED BY <1>1 DEF Before

LEMMA OrderedIsOrder ==
  ASSUME NEW v, ViewOK(v), NEW f, NEW L, FileShape(v, f), TableShape(v, L), FileTable(v, f, L), 
         \A a, b \in L : a.rec = b.rec => a = b,
         NEW i \in 1..Len(f), NEW j \in 1..Len(f), i < j, f[i].as = "line", f[j].as = "line"
  PROVE  f[j].n \notin v.rec[f[i].n].after
<1>1. PICK n \in Nat \ {0} : n = Len(f)
  BY DEF FileTable
<1>2. j \in 2..n /\ i \in 1..n
  BY <1>1
<1>3. j \in Places(v, f)
  BY <1>1, <1>2 DEF FileShape
<1>4. CASE i = 1
  <2>1. f[i].n = 1
    BY <1>4 DEF FileShape, IsHead
  <2>2. v.rec[1].after = {}
    <3>1. 1 \in 1..Len(v.rec) /\ 1..(1 - 1) = {}
      BY ViewIs
    <3>2. v.rec[1].after \subseteq 1..(1 - 1)
      BY <3>1 DEF ViewOK
    <3> QED BY <3>1, <3>2
  <2> QED BY <2>1, <2>2
<1>5. CASE i # 1
  <2>1. i \in 2..n
    BY <1>2, <1>5
  <2>2. i \in Places(v, f)
    BY <1>1, <2>1 DEF FileShape
  <2> SUFFICES ASSUME f[j].n \in v.rec[f[i].n].after PROVE FALSE
    OBVIOUS
  <2>3. f[j].n \in 2..Len(v.rec)
    BY <1>1, <1>3, PlaceIs
  <2>4. f[j].n >= 2
    BY <2>3, ViewIs
  <2>5. CASE v.key[f[j].n] = <<>>
    <3>1. j < i
      BY <1>3, <2>2, <2>5 DEF FileTable, Silent
    <3> QED BY <1>2, <2>1, <3>1
  <2>6. CASE v.key[f[j].n] # <<>> /\ ~Has(L, f[i].n)
    <3>1. PICK h \in Places(v, f) : h < i /\ f[h].n = f[j].n
      BY <2>2, <2>4, <2>6 DEF FileTable, Unswept
    <3>2. h = j
      BY <1>3, <3>1 DEF FileShape
    <3> QED BY <1>2, <2>1, <3>1, <3>2
  <2>7. CASE v.key[f[j].n] # <<>> /\ Has(L, f[i].n)
    <3>1. PICK e \in L : e.rec = f[i].n
      BY <2>7 DEF Has
    <3>2. PICK d \in L : d.rec = f[j].n /\ d.seq < e.seq
      BY <2>4, <2>7, <3>1 DEF TableShape, AfterIn
    <3>3. v.key[f[i].n] # <<>>
      <4>1. v.key[e.rec] = <<e.key>>
        BY DEF TableShape, Swept
      <4>2. PICK z : z = e.key
        OBVIOUS
      <4>3. <<z>> # <<>>
        OBVIOUS
      <4> QED BY <3>1, <4>1, <4>2, <4>3
    <3>4. PICK c \in L : c.rec = f[i].n /\ Before(v, c, d)
      BY <1>3, <2>2, <3>2, <3>3 DEF FileTable, InSeq
    <3>5. c = e
      BY <3>1, <3>4
    <3>6. d.seq \in Nat /\ e.seq \in Nat
      BY DEF TableShape, Swept
    <3> QED BY <3>2, <3>4, <3>5, <3>6, BeforeIsEarlier
  <2> QED BY <2>5, <2>6, <2>7
<1> QED BY <1>4, <1>5

-------------------------------------------------------------------------------
(* The keys of records. *)

KeysKnown(v) ==
  \A n \in 2..Len(v.rec) :
    v.key[n] = <<>> \/ \E k \in EventKeys \ {StartKey, EndKey} : v.key[n] = <<k>>

KeysApart(v) ==
  \A a, b \in 1..Len(v.rec) : a # b => v.key[a] = <<>> \/ v.key[a] # v.key[b]

LEMMA SweptKey ==
  ASSUME NEW v, KeysKnown(v), NEW e, Swept(v, e)
  PROVE  e.key \in EventKeys /\ e.key \notin {StartKey, EndKey} /\ v.key[e.rec] # <<>>
<1>1. PICK x : x = e.key
  OBVIOUS
<1>2. e.rec \in 2..Len(v.rec) /\ v.key[e.rec] = <<x>>
  BY <1>1 DEF Swept
<1>3. <<x>> # <<>> /\ \A y : <<y>> = <<x>> => y = x
  OBVIOUS
<1>4. PICK k \in EventKeys \ {StartKey, EndKey} : v.key[e.rec] = <<k>>
  BY <1>2, <1>3 DEF KeysKnown
<1>5. k = x
  BY <1>2, <1>3, <1>4
<1> QED BY <1>1, <1>2, <1>3, <1>4, <1>5

(* Two lines that were swept are of one record if they have one key. *)
LEMMA SweptSame ==
  ASSUME NEW v, ViewOK(v), KeysKnown(v), KeysApart(v), NEW a, Swept(v, a), NEW b, Swept(v, b)
  PROVE  a.key = b.key <=> a.rec = b.rec
<1>1. PICK x : x = a.key
  OBVIOUS
<1>2. PICK y : y = b.key
  OBVIOUS
<1>3. /\ v.key[a.rec] = <<x>> /\ a.rec \in 2..Len(v.rec)
      /\ v.key[b.rec] = <<y>> /\ b.rec \in 2..Len(v.rec)
  BY <1>1, <1>2 DEF Swept
<1>4. a.rec \in 1..Len(v.rec) /\ b.rec \in 1..Len(v.rec)
  BY <1>3, ViewIs
<1>5. <<x>> # <<>> /\ (<<x>> = <<y>> <=> x = y)
  OBVIOUS
<1>6. ASSUME x = y PROVE a.rec = b.rec
  BY <1>3, <1>4, <1>5, <1>6 DEF KeysApart
<1>7. ASSUME a.rec = b.rec PROVE x = y
  BY <1>3, <1>5, <1>7
<1> QED BY <1>1, <1>2, <1>6, <1>7

LEMMA LongIs ==
  ASSUME NEW v, ViewOK(v), NEW e, Shape(v, e)
  PROVE  /\ e.rec >= 2 <=> Swept(v, e)
         /\ ~Swept(v, e) => e.key \in {StartKey, EndKey}
<1>1. ~(0 >= 2) /\ ~(1 >= 2)
  OBVIOUS
<1>2. CASE Swept(v, e)
  <2>1. e.rec \in 2..Len(v.rec) /\ Len(v.rec) \in Nat
    BY <1>2, ViewIs DEF Swept
  <2> QED BY <1>2, <2>1
<1>3. CASE ~Swept(v, e)
  <2>1. e.rec \in {0, 1} /\ e.key \in {StartKey, EndKey}
    BY <1>3 DEF Shape
  <2> QED BY <1>1, <1>3, <2>1
<1> QED BY <1>2, <1>3

-------------------------------------------------------------------------------
(* Rows that were pulled. *)

LEMMA LongMerged ==
  ASSUME NEW v, ViewOK(v), KeysKnown(v), KeysApart(v),
         NEW S, NEW R, \A e \in S \cup R : Shape(v, e),
         \A a \in Long(S), b \in Long(R) : a.rec = b.rec => a = b
  PROVE  Long(Merged(S, R)) = Long(S) \cup Long(R)
<1>1. Merged(S, R) \subseteq S \cup R /\ S \subseteq Merged(S, R)
  BY DEF Merged
<1>2. ASSUME NEW e \in Long(R) PROVE e \in Merged(S, R)
  <2>1. e \in R /\ e.rec >= 2 /\ Swept(v, e)
    BY LongIs DEF Long
  <2>2. CASE e.key \notin KeysIn(S)
    BY <2>1, <2>2 DEF Merged
  <2>3. CASE e.key \in KeysIn(S)
    <3>1. PICK d \in S : d.key = e.key
      BY <2>3 DEF KeysIn
    <3>2. Swept(v, d)
      BY <2>1, <3>1, SweptKey, LongIs
    <3>3. d.rec = e.rec /\ d.rec >= 2
      BY <2>1, <3>1, <3>2, SweptSame, LongIs
    <3>4. d = e
      BY <3>3 DEF Long
    <3> QED BY <1>1, <3>4
  <2> QED BY <2>2, <2>3
<1> QED BY <1>1, <1>2 DEF Long

(* The table m, after it pulled the table of another machine. *)
LEMMA PulledOrdered ==
  ASSUME NEW v, ViewOK(v), KeysKnown(v), KeysApart(v), NEW st, NEW fl, TablesOK(v, st, fl),
         NEW m \in Machines, NEW from \in Machines,
         NEW s2, \A k \in Machines : s2[k] = IF k = m THEN Merged(st[m], st[from]) ELSE st[k]
  PROVE  TablesOK(v, s2, fl)
<1>1. PICK ls : ls = [k \in Machines |-> Long(st[k])]
  OBVIOUS
<1>2. /\ Ordered(v, ls, fl) /\ OneRow(ls) /\ \A k \in Machines : ls[k] = Long(st[k])
      /\ \A k \in Machines : \A e \in st[k] : Shape(v, e)
  BY <1>1 DEF Ordered, TablesOK
<1>3. Long(Merged(st[m], st[from])) = ls[m] \cup ls[from]
  <2>1. \A a \in Long(st[m]), b \in Long(st[from]) : a.rec = b.rec => a = b
    BY <1>2 DEF OneRow
  <2> QED BY <1>2, <2>1, LongMerged
<1>4. PICK l2 : l2 = [k \in Machines |-> IF k = m THEN ls[m] \cup ls[from] ELSE ls[k]]
  OBVIOUS
<1>5. Ordered(v, l2, fl)
  BY <1>2, <1>4, PullOrdered
<1>6. [k \in Machines |-> Long(s2[k])] = l2
  <2>1. \A k \in Machines : Long(s2[k]) = IF k = m THEN ls[m] \cup ls[from] ELSE ls[k]
    BY <1>2, <1>3
  <2> QED BY <1>4, <2>1
<1>7. \A k \in Machines : \A e \in s2[k] : Shape(v, e)
  BY <1>2 DEF Merged
<1> QED BY <1>5, <1>6, <1>7 DEF TablesOK

(* Marks change nothing. *)
LEMMA MarkOrdered ==
  ASSUME NEW v, NEW st, NEW fl, TablesOK(v, st, fl), NEW m \in Machines,
         NEW e, e.key \in {StartKey, EndKey}, e.rec = 0, e.native.as = "envelope",
         NEW s2, \A k \in Machines : s2[k] = st[k] \/ (k = m /\ s2[k] = Added(st[k], <<e>>))
  PROVE  TablesOK(v, s2, fl)
<1>1. ~(0 >= 2) /\ ToSet(<<e>>) = {e}
  BY DEF ToSet
<1>2. ASSUME NEW k \in Machines
      PROVE  /\ Long(s2[k]) = Long(st[k])
             /\ \A d \in s2[k] : Shape(v, d)
  <2>1. \A d \in st[k] : Shape(v, d)
    BY DEF TablesOK
  <2>2. CASE s2[k] = st[k]
    BY <2>1, <2>2
  <2>3. CASE s2[k] = Added(st[k], <<e>>)
    <3>1. s2[k] \subseteq st[k] \cup {e} /\ st[k] \subseteq s2[k]
      BY <2>3 DEF Added
    <3>2. Shape(v, e)
      BY DEF Shape
    <3> QED BY <1>1, <2>1, <3>1, <3>2 DEF Long
  <2> QED BY <2>2, <2>3
<1>3. [k \in Machines |-> Long(s2[k])] = [k \in Machines |-> Long(st[k])]
  BY <1>2
<1> QED BY <1>2, <1>3 DEF TablesOK

-------------------------------------------------------------------------------
(* The transcript that is written out. *)

(* The rows of a table in their order, and the lines they are written out as, *)
(* behind a session_meta that was made up if the first line is none.          *)
InOrderOf(v, E, S) ==
  /\ Len(E) \in Nat /\ \A k \in 1..Len(E) : E[k] \in S
  /\ \A e \in S : \E k \in 1..Len(E) : E[k] = e
  /\ \A k, l \in 1..Len(E) : k < l <=> Before(v, E[k], E[l])

WrittenAs(v, E, g, o) ==
  /\ Len(g) = Len(E) + o /\ \A k \in 1..Len(E) : g[k + o] = E[k].native
  /\ \/ o = 0 /\ Len(E) # 0 /\ IsHead(E[1].native)
     \/ o = 1 /\ IsHead(g[1]) /\ g[1].ts = v.rec[1].ts /\ (Len(E) # 0 => ~IsHead(E[1].native))

LEMMA WrittenIsListing ==
  ASSUME NEW v, ViewOK(v), KeysKnown(v), KeysApart(v),
         NEW S, \A e \in S : Shape(v, e) /\ e.seq \in Nat, \A a, b \in S : a.key = b.key => a = b,
         \A e \in S : e.key = EndKey => e.seq > Base(v),
         NEW E, InOrderOf(v, E, S), NEW g, NEW o \in {0, 1}, WrittenAs(v, E, g, o)
  PROVE  Listing(v, g, Long(S))
<1>1. PICK n \in Nat : n = Len(E) /\ Len(g) = n + o
  BY DEF InOrderOf, WrittenAs
<1>2. /\ \A k \in 1..n : E[k] \in S /\ g[k + o] = E[k].native
      /\ \A e \in S : \E k \in 1..n : E[k] = e
      /\ \A k, l \in 1..n : k < l <=> Before(v, E[k], E[l])
  BY <1>1 DEF InOrderOf, WrittenAs
<1>3. Base(v) \in Nat /\ Len(v.rec) \in Nat
  BY ViewIs
<1>4. \A l : l.as = "line" /\ l.n \in 2..Len(v.rec) => ~IsHead(l)
  BY <1>3 DEF IsHead
<1>5. \A e \in S : Swept(v, e) => /\ ~IsHead(e.native) /\ e.native.as = "line" /\ e.native.n = e.rec
                                  /\ e.rec \in 2..Len(v.rec)
  <2> TAKE e \in S
  <2> HAVE Swept(v, e)
  <2>1. PICK r : r = e.rec
    OBVIOUS
  <2>2. e.native = LineOf(v, r) /\ r \in 2..Len(v.rec)
    BY <2>1 DEF Swept
  <2>3. e.native.as = "line" /\ e.native.n = r
    BY <2>2 DEF LineOf
  <2> QED BY <1>4, <2>1, <2>2, <2>3
<1>6. \A a, b \in S : Swept(v, a) /\ Swept(v, b) /\ a.rec = b.rec => a = b
  BY SweptSame
<1>7. \A k, l \in 1..n : E[k] = E[l] => k = l
  <2> TAKE k, l \in 1..n
  <2> HAVE E[k] = E[l]
  <2>1. ~Before(v, E[k], E[l]) /\ ~Before(v, E[l], E[k])
    <3>1. E[k].seq \in Nat
      BY <1>2
    <3> QED BY <3>1 DEF Before
  <2> QED BY <1>2, <2>1
(* The row of the session_meta is the first. *)
<1>8. ASSUME NEW k \in 1..n, IsHead(E[k].native)
      PROVE  k = 1 /\ E[k].native.ts = v.rec[1].ts /\ E[k].key = StartKey
  <2>1. E[k] \in S
    BY <1>2
  <2>2. /\ E[k].key = StartKey /\ E[k].seq = Base(v) /\ E[k].native.ts = v.rec[1].ts
    <3>1. E[k].native.as # "envelope"
      BY <1>8 DEF IsHead
    <3>2. ~Swept(v, E[k])
      BY <1>5, <1>8, <2>1
    <3> QED BY <2>1, <3>1, <3>2 DEF Shape
  <2>3. ASSUME NEW d \in S, d # E[k] PROVE d.seq > Base(v)
    <3>1. d.key # StartKey
      BY <2>1, <2>2, <2>3
    <3> QED BY <3>1 DEF Shape, Swept
  <2>4. ASSUME k # 1 PROVE FALSE
    <3>1. 1 \in 1..n /\ 1 < k
      BY <2>4
    <3>2. E[1] # E[k] /\ Before(v, E[1], E[k])
      BY <1>2, <1>7, <2>4, <3>1
    <3>3. E[1].seq > Base(v) /\ E[1].seq \in Nat
      BY <1>2, <2>3, <3>1, <3>2
    <3>4. ~(E[1].seq < Base(v)) /\ E[1].seq # Base(v)
      BY <1>3, <3>3
    <3> QED BY <2>2, <3>2, <3>4 DEF Before
  <2> QED BY <2>2, <2>4
<1>9. Len(g) \in Nat \ {0} /\ IsHead(g[1]) /\ g[1].ts = v.rec[1].ts
  <2>1. CASE o = 0
    <3>1. n # 0 /\ IsHead(E[1].native) /\ 1 \in 1..n /\ 1 + o = 1
      BY <1>1, <2>1 DEF WrittenAs
    <3>2. g[1] = E[1].native
      BY <1>2, <3>1
    <3> QED BY <1>1, <1>8, <2>1, <3>1, <3>2
  <2>2. CASE o = 1
    BY <1>1, <2>2 DEF WrittenAs
  <2> QED BY <2>1, <2>2
(* The lines behind the first are those of marks and of lines that were swept. *)
<1>10. ASSUME NEW i \in 2..(n + o)
       PROVE  /\ i - o \in 1..n /\ g[i] = E[i - o].native
              /\ \/ E[i - o].native.as = "envelope"
                 \/ Swept(v, E[i - o])
  <2>1. i - o \in 1..n /\ (i - o) + o = i
    OBVIOUS
  <2>2. g[i] = E[i - o].native /\ E[i - o] \in S
    BY <1>2, <2>1
  <2>3. ~IsHead(E[i - o].native)
    <3> SUFFICES ASSUME IsHead(E[i - o].native) PROVE FALSE
      OBVIOUS
    <3>1. i - o = 1
      BY <1>8, <2>1
    <3>2. o = 1
      BY <3>1
    <3> QED BY <1>1, <2>1, <3>1, <3>2 DEF WrittenAs
  <2>4. Shape(v, E[i - o])
    BY <2>2
  <2> QED BY <2>1, <2>2, <2>3, <2>4 DEF Shape
<1>11. ASSUME NEW i \in 2..(n + o), Swept(v, E[i - o]) PROVE i \in Places(v, g) /\ g[i].n = E[i - o].rec
  <2>1. g[i] = E[i - o].native /\ E[i - o] \in S
    BY <1>2, <1>10
  <2>2. g[i].n = E[i - o].rec /\ g[i].n \in 2..Len(v.rec)
    BY <1>5, <1>11, <2>1
  <2>3. g[i] = LineOf(v, g[i].n)
    BY <1>11, <2>1, <2>2 DEF Swept
  <2> QED BY <1>1, <2>2, <2>3 DEF Places
<1>12. ASSUME NEW i \in Places(v, g)
       PROVE  /\ i \in 2..(n + o) /\ i - o \in 1..n /\ E[i - o] \in S /\ Swept(v, E[i - o])
              /\ E[i - o].rec = g[i].n /\ E[i - o] \in Long(S)
  <2>1. i \in 2..(n + o)
    BY <1>1 DEF Places
  <2>2. g[i].as # "envelope"
    <3>1. PICK r : r = g[i].n
      OBVIOUS
    <3>2. g[i] = LineOf(v, r)
      BY <3>1 DEF Places
    <3> QED BY <3>2 DEF LineOf
  <2>3. Swept(v, E[i - o]) /\ i - o \in 1..n /\ E[i - o] \in S
    BY <1>2, <1>10, <2>1, <2>2
  <2>4. E[i - o].rec = g[i].n
    BY <1>11, <2>1, <2>3
  <2>5. E[i - o] \in Long(S)
    <3>1. E[i - o].rec >= 2
      BY <2>3, LongIs
    <3> QED BY <2>3, <3>1 DEF Long
  <2> QED BY <2>1, <2>3, <2>4, <2>5
<1>13. ASSUME NEW e \in Long(S)
       PROVE  \E i \in Places(v, g) : g[i].n = e.rec /\ E[i - o] = e
  <2>1. e \in S /\ Swept(v, e)
    BY LongIs DEF Long
  <2>2. PICK k \in 1..n : E[k] = e
    BY <1>2, <2>1
  <2>3. k + o \in 2..(n + o) /\ (k + o) - o = k
    <3>1. o = 0 => k # 1
      <4>1. o = 0 => IsHead(E[1].native)
        BY DEF WrittenAs
      <4> QED BY <1>5, <2>1, <2>2, <4>1
    <3> QED BY <3>1
  <2>4. k + o \in Places(v, g) /\ g[k + o].n = e.rec
    BY <1>11, <2>1, <2>2, <2>3
  <2> QED BY <2>2, <2>3, <2>4
<1>14. FileShape(v, g)
  <2>1. ASSUME NEW i \in 2..(n + o) PROVE g[i].as = "envelope" \/ i \in Places(v, g)
    BY <1>10, <1>11
  <2>2. ASSUME NEW i \in Places(v, g), NEW j \in Places(v, g), g[i].n = g[j].n PROVE i = j
    <3>1. E[i - o] = E[j - o]
      BY <1>6, <1>12, <2>2
    <3>2. i - o = j - o /\ i \in Nat /\ j \in Nat
      BY <1>7, <1>12, <3>1
    <3> QED BY <3>2
  <2> QED BY <1>1, <1>9, <2>1, <2>2 DEF FileShape
<1>15. \A i \in Places(v, g) : Has(Long(S), g[i].n)
  BY <1>12 DEF Has
<1>16. ASSUME NEW i \in Places(v, g), NEW j \in Places(v, g), NEW d \in Long(S), NEW e \in Long(S),
              d.rec = g[i].n, e.rec = g[j].n
       PROVE  i < j <=> Before(v, d, e)
  <2>1. d \in S /\ e \in S /\ Swept(v, d) /\ Swept(v, e)
    BY LongIs DEF Long
  <2>2. d = E[i - o] /\ e = E[j - o]
    BY <1>6, <1>12, <1>16, <2>1
  <2>3. i - o < j - o <=> Before(v, d, e)
    BY <1>2, <1>12, <2>2
  <2>4. i - o < j - o <=> i < j
    BY <1>12
  <2> QED BY <2>3, <2>4
<1> QED BY <1>9, <1>13, <1>14, <1>15, <1>16 DEF Listing

-------------------------------------------------------------------------------
(* The rows that a transcript is made into. *)

Told(v, f) == {1} \cup {i \in Places(v, f) : v.key[f[i].n] # <<>>}

(* Row e is that of line i. *)
RowOfLine(v, f, q, i, e) ==
  /\ e.rec = f[i].n /\ e.native = f[i] /\ e.seq = q[i]
  /\ IF i = 1 THEN e.key = StartKey ELSE v.key[f[i].n] = <<e.key>>

RowsOfFile(v, f, q, c, B) ==
  /\ \A i \in Told(v, f) : c[i] \in 1..Len(B) /\ RowOfLine(v, f, q, i, B[c[i]])
  /\ \A k \in 1..Len(B) : \E i \in Told(v, f) : c[i] = k

(* A line has no key, or the one that a row of the transcript has. *)
LEMMA CodexKeys ==
  ASSUME cli # "claude", record \in Seq(Records), NEW n \in 1..Len(record), NEW i
  PROVE  /\ CodexFromJSONL(n, i) = CodexFromJSONL(n, 0)
         /\ record[n].kind = "meta" => CodexFromJSONL(n, i) = <<StartKey>>
         /\ record[n].kind # "meta" =>
              \/ CodexFromJSONL(n, i) = <<>>
              \/ \E k \in EventKeys \ {StartKey, EndKey} : CodexFromJSONL(n, i) = <<k>>
<1>1. /\ n \in Nat /\ record[n].ts \in Nat /\ record[n].text \in Nat /\ record[n].call \in Nat
  BY RecordIs
<1>2. ASSUME NEW x \in Nat, NEW s \in {"user", "text", "call", "result", "note"}
      PROVE  <<s, x>> \in EventKeys \ {StartKey, EndKey}
  <2>1. <<s, x>> \in EventKeys
    BY DEF EventKeys
  <2>2. <<s, x>> # StartKey /\ <<s, x>> # EndKey
    BY DEF StartKey, EndKey
  <2> QED BY <2>1, <2>2
<1>3. /\ OwnKey("text", n, i) = OwnKey("text", n, 0) /\ OwnKey("note", n, i) = OwnKey("note", n, 0)
      /\ OwnKey("text", n, i) = <<"text", record[n].ts>>
      /\ OwnKey("note", n, i) = <<"note", record[n].ts>>
      /\ UserKey(n) = <<"user", record[n].text>>
      /\ CallKey(n) = <<"call", n>> /\ ResultKey(n) = <<"result", record[n].call>>
  BY DEF OwnKey, UserKey, CallKey, ResultKey
<1>4. \A k \in {OwnKey("text", n, i), OwnKey("note", n, i), UserKey(n), CallKey(n), ResultKey(n)} :
        k \in EventKeys \ {StartKey, EndKey}
  BY <1>1, <1>2, <1>3
<1>5. CASE record[n].kind = "meta"
  BY <1>5 DEF CodexFromJSONL
<1>6. CASE record[n].kind = "text"
  <2>1. CodexFromJSONL(n, i) = <<OwnKey("text", n, i)>> /\ CodexFromJSONL(n, 0) = <<OwnKey("text", n, 0)>>
    BY <1>6 DEF CodexFromJSONL, ResponseItemFromJSONL, MessageFromResponseItem
  <2> QED BY <1>3, <1>4, <1>6, <2>1
<1>7. CASE record[n].kind = "call"
  <2>1. CodexFromJSONL(n, i) = <<CallKey(n)>> /\ CodexFromJSONL(n, 0) = <<CallKey(n)>>
    BY <1>7 DEF CodexFromJSONL, ResponseItemFromJSONL
  <2> QED BY <1>4, <1>7, <2>1
<1>8. CASE record[n].kind = "result"
  <2>1. CodexFromJSONL(n, i) = <<ResultKey(n)>> /\ CodexFromJSONL(n, 0) = <<ResultKey(n)>>
    BY <1>8 DEF CodexFromJSONL, ResponseItemFromJSONL
  <2> QED BY <1>4, <1>8, <2>1
<1>9. CASE record[n].kind = "note"
  <2>1. CodexFromJSONL(n, i) = <<OwnKey("note", n, i)>> /\ CodexFromJSONL(n, 0) = <<OwnKey("note", n, 0)>>
    BY <1>9 DEF CodexFromJSONL, MarkFromJSONL
  <2> QED BY <1>3, <1>4, <1>9, <2>1
<1>10. CASE record[n].kind \notin {"meta", "text", "call", "result", "note"}
  <2>1. CodexFromJSONL(n, i) = EventMsgFromJSONL(n) /\ CodexFromJSONL(n, 0) = EventMsgFromJSONL(n)
    BY <1>10 DEF CodexFromJSONL
  <2>2. EventMsgFromJSONL(n) = <<UserKey(n)>> \/ EventMsgFromJSONL(n) = <<>>
    BY DEF EventMsgFromJSONL
  <2> QED BY <1>4, <1>10, <2>1, <2>2
<1> QED BY <1>5, <1>6, <1>7, <1>8, <1>9, <1>10

LEMMA ViewKeys ==
  ASSUME cli # "claude", record \in Seq(Records), NEW v, v = View, ViewOK(v)
  PROVE  /\ KeysKnown(v) /\ v.rec = record /\ v.flip = flip
         /\ \A n \in 1..Len(record) : \A i : CodexFromJSONL(n, i) = v.key[n]
         /\ v.key[1] = <<StartKey>>
         /\ (\A a, b \in DOMAIN record : ~SameKey(a, b)) => KeysApart(v)
<1>1. /\ v.rec = record /\ v.flip = flip /\ Len(record) \in Nat /\ DOMAIN record = 1..Len(record)
      /\ \A n \in 1..Len(record) : v.key[n] = CodexFromJSONL(n, 0)
  BY LenProperties DEF View
<1>2. \A n \in 1..Len(record) : \A i : CodexFromJSONL(n, i) = v.key[n]
  BY <1>1, CodexKeys
<1>3. KeysKnown(v)
  <2> SUFFICES ASSUME NEW n \in 2..Len(record)
               PROVE  v.key[n] = <<>> \/ \E k \in EventKeys \ {StartKey, EndKey} : v.key[n] = <<k>>
    BY <1>1 DEF KeysKnown
  <2>1. n \in 1..Len(record) /\ record[n].kind # "meta"
    BY <1>1 DEF ViewOK
  <2> QED BY <1>1, <2>1, CodexKeys
<1>4. v.key[1] = <<StartKey>>
  <2>1. 1 \in 1..Len(record) /\ record[1].kind = "meta"
    BY <1>1, ViewIs DEF ViewOK
  <2> QED BY <1>1, <2>1, CodexKeys
<1>5. ASSUME \A a, b \in DOMAIN record : ~SameKey(a, b) PROVE KeysApart(v)
  BY <1>1, <1>5 DEF KeysApart, SameKey
<1> QED BY <1>1, <1>2, <1>3, <1>4, <1>5

(* The events of a line. *)
LineRow(l, k) == [key |-> k, rec |-> l.n, seq |-> Ms(l.ts), native |-> l]

LEMMA CodexLine ==
  ASSUME cli # "claude", record \in Seq(Records), NEW v, v = View, ViewOK(v),
         NEW f, FileShape(v, f), Len(f) \in Nat \ {0}, NEW i \in 1..Len(f)
  PROVE  \/ i \notin Told(v, f) /\ LineEvents(f[i], i) = <<>>
         \/ /\ i \in Told(v, f)
            /\ \E k : /\ LineEvents(f[i], i) = <<LineRow(f[i], k)>>
                      /\ IF i = 1 THEN k = StartKey ELSE v.key[f[i].n] = <<k>>
<1>1. PICK l : l = f[i]
  OBVIOUS
<1>2. ASSUME NEW k, KeysOf(l, i) = <<k>>, Ms(l.ts) \in Nat
      PROVE  LineEvents(l, i) = <<LineRow(l, k)>>
  <2>1. PICK K : K = KeysOf(l, i)
    OBVIOUS
  <2>2. DOMAIN K = 1..1 /\ K[1] = k
    BY <1>2, <2>1
  <2>3. PICK s \in Nat : s = Ms(l.ts)
    BY <1>2
  <2>4. LineEvents(l, i) = [j \in 1..1 |-> [key |-> K[j], rec |-> l.n, seq |-> s + j - 1, native |-> l]]
    BY <2>1, <2>2, <2>3 DEF LineEvents
  <2>5. \A j \in 1..1 : j = 1 /\ s + j - 1 = s
    OBVIOUS
  <2>6. LineEvents(l, i) = [j \in 1..1 |-> [key |-> k, rec |-> l.n, seq |-> s, native |-> l]]
    BY <2>2, <2>4, <2>5
  <2>7. PICK e : e = [key |-> k, rec |-> l.n, seq |-> s, native |-> l]
    OBVIOUS
  <2>8. <<e>> = [j \in 1..1 |-> e]
    OBVIOUS
  <2> QED BY <2>3, <2>6, <2>7, <2>8 DEF LineRow
<1>3. ASSUME KeysOf(l, i) = <<>> PROVE LineEvents(l, i) = <<>>
  <2>1. PICK K : K = KeysOf(l, i)
    OBVIOUS
  <2>2. DOMAIN K = 1..0
    BY <1>3, <2>1
  <2>3. LineEvents(l, i) = [j \in 1..0 |-> [key |-> K[j], rec |-> l.n, seq |-> Ms(l.ts) + j - 1, native |-> l]]
    BY <2>1, <2>2 DEF LineEvents
  <2>4. 1..0 = {} /\ <<>> = [j \in {} |-> 0]
    OBVIOUS
  <2> QED BY <2>3, <2>4
<1>4. /\ v.rec = record /\ v.key[1] = <<StartKey>> /\ KeysKnown(v)
      /\ \A n \in 1..Len(record) : \A j : CodexFromJSONL(n, j) = v.key[n]
  BY ViewKeys
<1>5. CASE i = 1
  <2>1. IsHead(l) /\ l.ts = v.rec[1].ts /\ i \in Told(v, f)
    BY <1>1, <1>5 DEF FileShape, Told
  <2>2. Ms(l.ts) \in Nat
    BY <2>1, ViewIs DEF Base
  <2>3. KeysOf(l, i) = <<StartKey>>
    <3>1. CASE l.as = "meta"
      BY <3>1 DEF KeysOf
    <3>2. CASE l.as # "meta"
      <4>1. l.as = "line" /\ l.n = 1
        BY <2>1, <3>2 DEF IsHead
      <4>2. 1 \in 1..Len(record)
        BY <1>4, ViewIs
      <4> QED BY <1>4, <4>1, <4>2 DEF KeysOf
    <3> QED BY <3>1, <3>2
  <2> QED BY <1>1, <1>2, <1>5, <2>1, <2>2, <2>3
<1>6. CASE i \in Places(v, f)
  <2>1. i \in 2..Len(f) /\ l.n \in 2..Len(v.rec) /\ l = LineOf(v, l.n)
    BY <1>1, <1>6 DEF Places
  <2>2. PICK r : r = l.n
    OBVIOUS
  <2>3. l.as = "line" /\ r \in 1..Len(record) /\ l.ts = v.rec[r].ts /\ i # 1
    <3>1. l = LineOf(v, r)
      BY <2>1, <2>2
    <3>2. l.as = "line" /\ l.ts = v.rec[r].ts
      BY <3>1 DEF LineOf
    <3> QED BY <1>4, <2>1, <2>2, <3>2, ViewIs
  <2>4. Ms(l.ts) \in Nat /\ KeysOf(l, i) = v.key[r]
    <3>1. Ms(v.rec[r].ts) \in Nat
      BY <1>4, <2>3, ViewIs
    <3> QED BY <1>4, <2>2, <2>3, <3>1 DEF KeysOf
  <2>5. CASE v.key[r] = <<>>
    <3>1. i \notin Told(v, f)
      BY <1>1, <2>2, <2>3, <2>5 DEF Told
    <3> QED BY <1>1, <1>3, <2>4, <2>5, <3>1
  <2>6. CASE v.key[r] # <<>>
    <3>1. i \in Told(v, f)
      BY <1>1, <1>6, <2>2, <2>6 DEF Told
    <3>2. PICK k : v.key[r] = <<k>>
      BY <1>4, <2>1, <2>2, <2>6 DEF KeysKnown
    <3> QED BY <1>1, <1>2, <2>2, <2>3, <2>4, <3>1, <3>2
  <2> QED BY <2>5, <2>6
<1>7. CASE i # 1 /\ i \notin Places(v, f)
  <2>1. i \in 2..Len(f)
    BY <1>7
  <2>2. l.as = "envelope"
    BY <1>1, <1>7, <2>1 DEF FileShape
  <2>3. KeysOf(l, i) = <<>>
    BY <2>2 DEF KeysOf
  <2>4. i \notin Told(v, f)
    BY <1>7 DEF Told
  <2> QED BY <1>1, <1>3, <2>3, <2>4
<1> QED BY <1>5, <1>6, <1>7

LEMMA CodexFromFile ==
  ASSUME cli = "codex", record \in Seq(Records), NEW v, v = View, ViewOK(v),
         NEW f \in Seq(GoodLines), FileShape(v, f), Len(f) \in Nat \ {0}
  PROVE  /\ FromFile(f) \in Seq(GoodRows)
         /\ \E q \in [1..Len(f) -> Nat], c \in [1..Len(f) -> Nat] :
              Numbered(v, f, q) /\ RowsOfFile(v, f, q, c, FromFile(f))
<1>0. \A i \in 1..Len(f) :
        \/ i \notin Told(v, f) /\ LineEvents(f[i], i) = <<>>
        \/ /\ i \in Told(v, f)
           /\ \E k : /\ LineEvents(f[i], i) = <<LineRow(f[i], k)>>
                     /\ IF i = 1 THEN k = StartKey ELSE v.key[f[i].n] = <<k>>
  <2>1. cli # "claude"
    OBVIOUS
  <2> QED BY <2>1, CodexLine
<1>1. PICK n \in Nat \ {0} : n = Len(f) /\ DOMAIN f = 1..n
  BY LenProperties
<1>2. PICK s : s = [i \in 1..n |-> LineEvents(f[i], i)]
  OBVIOUS
<1>3. s \in Seq(Seq(FileRows)) /\ Len(s) = n /\ \A i \in 1..n : s[i] = LineEvents(f[i], i)
  <2>1. \A i \in 1..n : LineOK(f[i])
    BY <1>1, ElementOfSeq DEF GoodLines
  <2>2. s \in [1..n -> Seq(FileRows)]
    BY <1>2, <2>1, LineEventsAre
  <2> QED BY <1>2, <2>2, FcnIsSeq
<1>4. ASSUME NEW i \in 1..n
      PROVE  \/ i \notin Told(v, f) /\ s[i] = <<>>
             \/ /\ i \in Told(v, f)
                /\ \E k : /\ s[i] = <<LineRow(f[i], k)>>
                          /\ IF i = 1 THEN k = StartKey ELSE v.key[f[i].n] = <<k>>
  <2>1. i \in 1..Len(f)
    BY <1>1
  <2>2. \/ i \notin Told(v, f) /\ LineEvents(f[i], i) = <<>>
        \/ /\ i \in Told(v, f)
           /\ \E k : /\ LineEvents(f[i], i) = <<LineRow(f[i], k)>>
                     /\ IF i = 1 THEN k = StartKey ELSE v.key[f[i].n] = <<k>>
    BY <1>0, <2>1
  <2>3. PICK w : w = LineEvents(f[i], i)
    OBVIOUS
  <2>4. s[i] = w
    BY <1>3, <2>3
  <2> QED BY <2>2, <2>3, <2>4
<1>5. \A i \in 1..n : Len(s[i]) \in {0, 1}
  <2>1. Len(<<>>) = 0 /\ \A x : Len(<<x>>) = 1
    OBVIOUS
  <2> QED BY <1>4, <2>1
<1>6. PICK F : F = FlattenSeq(s)
  OBVIOUS
<1>7. PICK c0 \in [0..n -> Nat] : F \in Seq(FileRows) /\ Counts(F, s, c0, n)
  BY <1>3, <1>5, <1>6, FlattenShort
<1>8. PICK N \in Nat : N = Len(F)
  BY <1>7, LenProperties
<1>9. PICK B : B = Bumped(F)
  OBVIOUS
<1>10. /\ B \in Seq(FileRows) /\ Len(B) = N
       /\ \A k \in 1..N : Raised(F[k], B[k]) /\ B[k] = BumpRow(F, B, k)
  <2>1. PICK X : X = FileRows
    OBVIOUS
  <2>2. /\ F \in Seq(X) /\ \A e \in X : e.seq \in Nat
        /\ \A e \in X : \A k \in Nat : k >= e.seq => [e EXCEPT !.seq = k] \in X
        /\ \A e \in X : e = [e EXCEPT !.seq = e.seq]
    BY <1>7, <2>1, FileRowsRaise
  <2>3. /\ Bumped(F) \in Seq(X) /\ Len(Bumped(F)) = Len(F)
        /\ \A k \in 1..Len(F) : Raised(F[k], Bumped(F)[k]) /\ Bumped(F)[k] = BumpRow(F, Bumped(F), k)
    BY <2>2, BumpedIs
  <2> QED BY <1>8, <1>9, <2>1, <2>3
<1>11. \A k \in 1..N : F[k] \in FileRows /\ B[k] \in FileRows /\ F[k].seq \in Nat /\ B[k].seq \in Nat
  BY <1>7, <1>8, <1>10, ElementOfSeq, FileRowsRaise
<1>12. ASSUME NEW k \in 1..N
       PROVE  /\ B[k].key = F[k].key /\ B[k].rec = F[k].rec /\ B[k].native = F[k].native
              /\ B[k].seq = Bump(F[k].seq, IF k = 1 THEN 0 ELSE B[k - 1].seq)
  <2>1. PICK e \in FileRows : e = F[k] /\ e.seq \in Nat
    BY <1>11
  <2>2. PICK x : B[k] = [e EXCEPT !.seq = x]
    BY <1>10, <2>1 DEF Raised
  <2>3. e \in [key : EventKeys, rec : 0..Len(record), seq : Nat, native : Lines]
    BY <2>1 DEF FileRows, GoodRows, EventRows
  <2>4. B[k].key = e.key /\ B[k].rec = e.rec /\ B[k].native = e.native
    BY <2>2, <2>3
  <2>5. PICK last : last = IF k = 1 THEN 0 ELSE B[k - 1].seq
    OBVIOUS
  <2>6. B[k] = IF e.seq > last THEN e ELSE [e EXCEPT !.seq = last + 1]
    BY <1>10, <2>1, <2>5 DEF BumpRow
  <2>7. B[k].seq = Bump(e.seq, last)
    <3>1. CASE e.seq > last
      BY <2>6, <3>1 DEF Bump
    <3>2. CASE ~(e.seq > last)
      <4>1. B[k] = [e EXCEPT !.seq = last + 1]
        BY <2>6, <3>2
      <4>2. B[k].seq = last + 1
        BY <2>3, <4>1
      <4> QED BY <3>2, <4>2 DEF Bump
    <3> QED BY <3>1, <3>2
  <2> QED BY <2>1, <2>4, <2>5, <2>7
<1>13. ASSUME NEW i \in 1..n, i \in Told(v, f)
       PROVE  /\ c0[i] = c0[i - 1] + 1 /\ c0[i] \in 1..N
              /\ LET e == F[c0[i]]
                 IN /\ e.rec = f[i].n /\ e.seq = Ms(f[i].ts) /\ e.native = f[i]
                    /\ IF i = 1 THEN e.key = StartKey ELSE v.key[f[i].n] = <<e.key>>
  <2>1. PICK k : /\ s[i] = <<LineRow(f[i], k)>>
                 /\ IF i = 1 THEN k = StartKey ELSE v.key[f[i].n] = <<k>>
    BY <1>4, <1>13
  <2>2. PICK e : e = LineRow(f[i], k)
    OBVIOUS
  <2>3. s[i] = <<e>> /\ s[i] # <<>> /\ s[i][1] = e
    BY <2>1, <2>2
  <2>4. c0[i] = c0[i - 1] + 1 /\ c0[i] \in 1..N /\ F[c0[i]] = e
    BY <1>7, <1>8, <2>3 DEF Counts
  <2>5. e.key = k /\ e.rec = f[i].n /\ e.seq = Ms(f[i].ts) /\ e.native = f[i]
    BY <2>2 DEF LineRow
  <2> QED BY <2>1, <2>4, <2>5
<1>14. ASSUME NEW i \in 1..n, i \notin Told(v, f) PROVE c0[i] = c0[i - 1]
  BY <1>4, <1>7, <1>14 DEF Counts
<1>15. c0[0] = 0 /\ c0[n] = N /\ 1 \in Told(v, f) /\ 1 \in 1..n
  BY <1>7, <1>8 DEF Counts, Told
<1>16. \A i \in 1..n : c0[i] \in 1..N
  <2> DEFINE P == {i \in 0..n : i = 0 \/ c0[i] \in 1..N}
  <2>1. 0 \in P
    OBVIOUS
  <2>2. ASSUME NEW i \in 1..n, i - 1 \in P PROVE i \in P
    <3>1. CASE i \in Told(v, f)
      BY <1>13, <3>1
    <3>2. CASE i \notin Told(v, f)
      <4>1. i # 1 /\ i - 1 # 0
        BY <1>15, <3>2
      <4>2. c0[i - 1] \in 1..N
        BY <2>2, <4>1
      <4> QED BY <1>14, <3>2, <4>2
    <3> QED BY <3>1, <3>2
  <2> HIDE DEF P
  <2>3. \A i \in 0..n : i \in P
    BY <2>1, <2>2, UpToEnd
  <2> QED BY <2>3 DEF P
<1>17. ASSUME NEW k \in 1..N PROVE \E i \in 1..n : i \in Told(v, f) /\ c0[i] = k
  <2> DEFINE T == {i \in 0..n : c0[i] >= k}
  <2>1. T \in SUBSET Nat /\ n \in T
    BY <1>15
  <2>2. PICK i \in T : \A j \in T : i <= j
    <3> HIDE DEF T
    <3> QED BY <2>1, LeastOf
  <2>3. i \in 1..n /\ i - 1 \in 0..n
    BY <1>15
  <2>4. c0[i] >= k /\ c0[i - 1] < k /\ c0[i] \in Nat /\ c0[i - 1] \in Nat
    <3>1. i - 1 \notin T
      BY <2>2, <2>3
    <3> QED BY <1>7, <2>3, <3>1
  <2>5. i \in Told(v, f)
    BY <1>14, <2>3, <2>4
  <2>6. c0[i] = k
    BY <1>13, <2>3, <2>4, <2>5
  <2> QED BY <2>3, <2>5, <2>6
<1>18. PICK c : c = [i \in 1..n |-> c0[i]]
  OBVIOUS
<1>19. PICK q : q = [i \in 1..n |-> B[c0[i]].seq]
  OBVIOUS
<1>20. c \in [1..n -> Nat] /\ q \in [1..n -> Nat]
  BY <1>11, <1>16, <1>18, <1>19
<1>21. \A i \in Told(v, f) : i \in 1..n
  BY <1>1, <1>15 DEF Told, Places
<1>22. RowsOfFile(v, f, q, c, B)
  <2>1. ASSUME NEW i \in Told(v, f) PROVE c[i] \in 1..N /\ RowOfLine(v, f, q, i, B[c[i]])
    <3>1. i \in 1..n
      BY <1>21
    <3>2. PICK k \in 1..N : k = c0[i] /\ c[i] = k /\ q[i] = B[k].seq
      BY <1>13, <1>18, <1>19, <2>1, <3>1
    <3>3. /\ F[k].rec = f[i].n /\ F[k].native = f[i]
          /\ IF i = 1 THEN F[k].key = StartKey ELSE v.key[f[i].n] = <<F[k].key>>
      BY <1>13, <2>1, <3>1, <3>2
    <3>4. B[k].key = F[k].key /\ B[k].rec = F[k].rec /\ B[k].native = F[k].native
      BY <1>12
    <3> QED BY <3>2, <3>3, <3>4 DEF RowOfLine
  <2>2. \A k \in 1..N : \E i \in Told(v, f) : c[i] = k
    BY <1>17, <1>18
  <2> QED BY <1>10, <2>1, <2>2 DEF RowsOfFile
<1>23. q[1] = Base(v)
  <2>1. c0[1] = 1
    <3>1. c0[1] = c0[1 - 1] + 1
      BY <1>13, <1>15
    <3> QED BY <1>15, <3>1
  <2>2. 1 \in 1..N /\ F[1].seq = Ms(f[1].ts)
    BY <1>13, <1>15, <2>1
  <2>3. F[1].seq = Base(v) /\ Base(v) \in Nat \ {0}
    BY <2>2, ViewIs DEF FileShape, Base
  <2>4. B[1].seq = Bump(F[1].seq, 0)
    BY <1>12, <2>2
  <2>5. Bump(F[1].seq, 0) = F[1].seq
    BY <2>3 DEF Bump
  <2> QED BY <1>15, <1>19, <2>1, <2>3, <2>4, <2>5
<1>24. ASSUME NEW i \in 2..n
       PROVE  q[i] = IF i \in Places(v, f) /\ v.key[f[i].n] # <<>> THEN Bump(Ms(f[i].ts), q[i - 1])
                     ELSE q[i - 1]
  <2>1. i \in 1..n /\ i - 1 \in 1..n /\ i # 1
    OBVIOUS
  <2>2. i \in Told(v, f) <=> i \in Places(v, f) /\ v.key[f[i].n] # <<>>
    BY <2>1 DEF Told
  <2>3. q[i] = B[c0[i]].seq /\ q[i - 1] = B[c0[i - 1]].seq
    BY <1>19, <2>1
  <2>4. CASE i \in Told(v, f)
    <3>1. PICK k \in 1..N : k = c0[i] /\ k = c0[i - 1] + 1 /\ F[k].seq = Ms(f[i].ts)
      BY <1>13, <2>1, <2>4
    <3>2. k # 1 /\ k - 1 = c0[i - 1]
      BY <1>16, <2>1, <3>1, SMTT(30)
    <3>3. B[k].seq = Bump(F[k].seq, B[k - 1].seq)
      BY <1>12, <3>2
    <3> QED BY <2>2, <2>3, <2>4, <3>1, <3>2, <3>3
  <2>5. CASE i \notin Told(v, f)
    BY <1>14, <2>1, <2>2, <2>3, <2>5
  <2> QED BY <2>4, <2>5
<1>25. Numbered(v, f, q)
  BY <1>1, <1>23, <1>24 DEF Numbered
<1>26. FromFile(f) = B
  <2>1. FromFile(f) = IF Starts(B) THEN <<Start(B)>> \o B ELSE B
    BY <1>1, <1>2, <1>6, <1>9 DEF FromFile
  <2>2. ~Starts(B)
    <3>1. DOMAIN B = 1..N
      BY <1>10, LenProperties
    <3>2. c[1] \in 1..N /\ B[c[1]].key = StartKey
      BY <1>10, <1>15, <1>22 DEF RowsOfFile, RowOfLine
    <3> QED BY <3>1, <3>2 DEF Starts
  <2> QED BY <2>1, <2>2
<1>27. B \in Seq(GoodRows)
  <2>1. FileRows \subseteq GoodRows
    BY DEF FileRows
  <2> QED BY <1>10, <2>1, SeqMonotonic
<1> QED BY <1>1, <1>20, <1>22, <1>25, <1>26, <1>27

LEMMA NumbersSame ==
  ASSUME NEW v, NEW f, Len(f) \in Nat \ {0}, NEW q, Numbered(v, f, q), NEW r, Numbered(v, f, r)
  PROVE  \A i \in 1..Len(f) : q[i] = r[i]
<1>1. PICK n \in Nat \ {0} : n = Len(f)
  OBVIOUS
<1> DEFINE P == {i \in 0..n : i = 0 \/ q[i] = r[i]}
<1>2. 0 \in P
  OBVIOUS
<1>3. ASSUME NEW i \in 1..n, i - 1 \in P PROVE i \in P
  <2>1. CASE i = 1
    BY <2>1 DEF Numbered
  <2>2. CASE i # 1
    <3>1. i \in 2..n /\ i - 1 # 0
      BY <2>2
    <3>2. q[i - 1] = r[i - 1]
      BY <1>3, <3>1
    <3>3. q[i] = r[i]
      BY <1>1, <3>1, <3>2 DEF Numbered
    <3> QED BY <3>3
  <2> QED BY <2>1, <2>2
<1> HIDE DEF P
<1>4. \A i \in 0..n : i \in P
  BY <1>2, <1>3, UpToEnd
<1> QED BY <1>1, <1>4 DEF P

(* A row of a line is a row of the invariant. *)
LEMMA RowOfLineIs ==
  ASSUME NEW v, ViewOK(v), NEW f, FileShape(v, f), Len(f) \in Nat \ {0},
         NEW q \in [1..Len(f) -> Nat], Numbered(v, f, q),
         NEW i \in Told(v, f), NEW e, RowOfLine(v, f, q, i, e)
  PROVE  /\ Shape(v, e)
         /\ i = 1 => e.key = StartKey
         /\ i # 1 => i \in Places(v, f) /\ Swept(v, e) /\ e.rec = f[i].n /\ e.seq = q[i]
<1>1. CASE i = 1
  <2>1. e.native = f[1] /\ e.rec = f[1].n /\ e.seq = Base(v) /\ e.key = StartKey
    BY <1>1 DEF RowOfLine, Numbered
  <2>2. IsHead(f[1]) /\ f[1].ts = v.rec[1].ts
    BY DEF FileShape
  <2>3. e.rec \in {0, 1}
    BY <2>1, <2>2 DEF IsHead
  <2> QED BY <1>1, <2>1, <2>2, <2>3 DEF Shape
<1>2. CASE i # 1
  <2>1. i \in Places(v, f) /\ v.key[f[i].n] # <<>>
    BY <1>2 DEF Told
  <2>2. i \in 2..Len(f) /\ f[i].n \in 2..Len(v.rec) /\ f[i] = LineOf(v, f[i].n) /\ i \in 1..Len(f)
    BY <2>1, PlaceIs
  <2>3. q[i] > Base(v) /\ q[i] \in Nat
    BY <2>1, <2>2, NumbersGrow
  <2>4. e.rec = f[i].n /\ e.native = f[i] /\ e.seq = q[i] /\ v.key[f[i].n] = <<e.key>>
    BY <1>2 DEF RowOfLine
  <2>5. Swept(v, e)
    <3>1. PICK r : r = f[i].n
      OBVIOUS
    <3>2. PICK l : l = LineOf(v, r)
      OBVIOUS
    <3>3. e.rec = r /\ e.native = l /\ r \in 2..Len(v.rec) /\ v.key[r] = <<e.key>> /\ e.seq = q[i]
      BY <2>2, <2>4, <3>1, <3>2
    <3> QED BY <2>3, <3>2, <3>3 DEF Swept
  <2> QED BY <1>2, <2>1, <2>4, <2>5 DEF Shape
<1> QED BY <1>1, <1>2

LEMMA SweptTable ==
  ASSUME NEW v, ViewOK(v), KeysKnown(v), KeysApart(v), NEW S, \A e \in S : Shape(v, e),
         NEW f, FileShape(v, f), Len(f) \in Nat \ {0},
         NEW q \in [1..Len(f) -> Nat], Numbered(v, f, q), NEW c,
         NEW B, DOMAIN B = 1..Len(B), Len(B) \in Nat, RowsOfFile(v, f, q, c, B),
         NEW T, T = Added(S, B), \A a, b \in T : a.key = b.key => a = b
  PROVE  /\ \A e \in T : Shape(v, e)
         /\ \A e \in Long(T) : Swept(v, e)
         /\ SweepOf(v, f, Long(S), q, Long(T))
<1>1. /\ S \subseteq T
      /\ \A e \in T : e \in S \/ \E k \in 1..Len(B) : B[k] = e /\ e.key \notin KeysIn(S)
  BY DEF Added
<1>2. ASSUME NEW e \in T
      PROVE  \/ e \in S
             \/ \E i \in Told(v, f) : RowOfLine(v, f, q, i, e) /\ e.key \notin KeysIn(S)
  <2> SUFFICES ASSUME e \notin S PROVE \E i \in Told(v, f) : RowOfLine(v, f, q, i, e) /\ e.key \notin KeysIn(S)
    OBVIOUS
  <2>1. PICK k \in 1..Len(B) : B[k] = e /\ e.key \notin KeysIn(S)
    BY <1>1
  <2>2. PICK i \in Told(v, f) : c[i] = k
    BY DEF RowsOfFile
  <2>3. RowOfLine(v, f, q, i, e)
    BY <2>1, <2>2 DEF RowsOfFile
  <2> QED BY <2>1, <2>3
<1>3. \A e \in T : Shape(v, e)
  BY <1>2, RowOfLineIs
<1>4. \A e \in T : e.rec >= 2 <=> Swept(v, e)
  BY <1>3, LongIs
<1>5. \A e \in Long(T) : Swept(v, e) /\ e \in T
  BY <1>4 DEF Long
<1>6. Long(S) \subseteq Long(T)
  BY <1>1 DEF Long
<1>7. ASSUME NEW e \in Long(T), e \notin Long(S)
      PROVE  \E i \in Places(v, f) : e.rec = f[i].n /\ ~Has(Long(S), f[i].n) /\ e.seq = q[i]
  <2>1. e \notin S /\ e \in T /\ Swept(v, e)
    BY <1>5, <1>7 DEF Long
  <2>2. PICK i \in Told(v, f) : RowOfLine(v, f, q, i, e) /\ e.key \notin KeysIn(S)
    BY <1>2, <2>1
  <2>3. i # 1
    <3>1. e.key # StartKey
      BY <2>1, SweptKey
    <3> QED BY <2>2, <3>1, RowOfLineIs
  <2>4. i \in Places(v, f) /\ e.rec = f[i].n /\ e.seq = q[i]
    BY <2>2, <2>3, RowOfLineIs
  <2>5. ASSUME NEW d \in Long(S), d.rec = f[i].n PROVE FALSE
    <3>1. d \in S /\ Swept(v, d)
      BY <1>1, <1>4 DEF Long
    <3>2. d.key = e.key
      BY <2>1, <2>4, <2>5, <3>1, SweptSame
    <3> QED BY <2>2, <3>1, <3>2 DEF KeysIn
  <2> QED BY <2>4, <2>5 DEF Has
<1>8. ASSUME NEW i \in Places(v, f), v.key[f[i].n] # <<>> PROVE Has(Long(T), f[i].n)
  <2>1. i \in Told(v, f) /\ i # 1
    <3>1. i \in 2..Len(f)
      BY PlaceIs
    <3> QED BY <1>8, <3>1 DEF Told
  <2>2. PICK k \in 1..Len(B) : k = c[i] /\ RowOfLine(v, f, q, i, B[k])
    BY <2>1 DEF RowsOfFile
  <2>3. PICK e : e = B[k]
    OBVIOUS
  <2>4. Swept(v, e) /\ e.rec = f[i].n
    BY <2>1, <2>2, <2>3, RowOfLineIs
  <2>5. CASE e.key \in KeysIn(S)
    <3>1. PICK d \in S : d.key = e.key
      BY <2>5 DEF KeysIn
    <3>2. Swept(v, d)
      BY <2>4, <3>1, SweptKey, LongIs
    <3>3. d.rec = f[i].n /\ d.rec >= 2
      BY <2>4, <3>1, <3>2, SweptSame, LongIs
    <3>4. d \in Long(T)
      BY <1>6, <3>1, <3>3 DEF Long
    <3> QED BY <3>3, <3>4 DEF Has
  <2>6. CASE e.key \notin KeysIn(S)
    <3>1. ASSUME NEW l \in 1..(k - 1), B[l].key = B[k].key PROVE FALSE
      <4>1. l \in 1..Len(B)
        OBVIOUS
      <4>2. PICK j \in Told(v, f) : c[j] = l /\ RowOfLine(v, f, q, j, B[l])
        <5>1. PICK j \in Told(v, f) : c[j] = l
          BY <4>1 DEF RowsOfFile
        <5> QED BY <5>1 DEF RowsOfFile
      <4>3. j # 1
        <5>1. B[l].key # StartKey
          BY <2>3, <2>4, <3>1, SweptKey
        <5> QED BY <4>2, <5>1, RowOfLineIs
      <4>4. Swept(v, B[l]) /\ B[l].rec = f[j].n /\ j \in Places(v, f)
        BY <4>2, <4>3, RowOfLineIs
      <4>5. B[l].rec = e.rec
        BY <2>3, <2>4, <3>1, <4>4, SweptSame
      <4>6. i = j
        BY <2>4, <4>4, <4>5 DEF FileShape
      <4>7. l = k /\ l # k
        BY <2>2, <4>2, <4>6
      <4> QED BY <4>7
    <3>2. e \in T
      BY <2>3, <2>6, <3>1 DEF Added
    <3>3. e \in Long(T)
      BY <1>4, <2>4, <3>2 DEF Long
    <3> QED BY <2>4, <3>3 DEF Has
  <2> QED BY <2>5, <2>6
<1>9. \A a, b \in Long(T) : a.rec = b.rec => a = b
  BY <1>5, SweptSame
<1>10. SweepOf(v, f, Long(S), q, Long(T))
  BY <1>5, <1>6, <1>7, <1>8, <1>9 DEF SweepOf
<1> QED BY <1>3, <1>5, <1>10

(* The steps, on the tables and transcripts. *)

LEMMA WrittenOrdered ==
  ASSUME NEW v, ViewOK(v), NEW st, NEW fl, TablesOK(v, st, fl), NEW m \in Machines,
         NEW g, Listing(v, g, Long(st[m])),
         NEW f2, f2 = [k \in Machines |-> IF k = m THEN g ELSE fl[k]]
  PROVE  TablesOK(v, st, f2)
<1>1. PICK ls : ls = [k \in Machines |-> Long(st[k])]
  OBVIOUS
<1>2. Ordered(v, ls, fl) /\ Listing(v, g, ls[m])
  BY <1>1 DEF TablesOK
<1>3. Ordered(v, ls, f2)
  BY <1>2, ReplayOrdered
<1> QED BY <1>1, <1>3 DEF TablesOK

LEMMA SweptOrdered ==
  ASSUME NEW v, ViewOK(v), KeysKnown(v), KeysApart(v), NEW st, NEW fl, TablesOK(v, st, fl),
         NEW m \in Machines, FileShape(v, fl[m]),
         NEW q \in [1..Len(fl[m]) -> Nat], Numbered(v, fl[m], q), NEW c,
         NEW B, DOMAIN B = 1..Len(B), Len(B) \in Nat, RowsOfFile(v, fl[m], q, c, B),
         NEW s2, \A k \in Machines : s2[k] = IF k = m THEN Added(st[m], B) ELSE st[k],
         \A a, b \in s2[m] : a.key = b.key => a = b
  PROVE  TablesOK(v, s2, fl)
<1>1. PICK ls : ls = [k \in Machines |-> Long(st[k])]
  OBVIOUS
<1>2. /\ Ordered(v, ls, fl) /\ ls[m] = Long(st[m])
      /\ \A k \in Machines : \A e \in st[k] : Shape(v, e)
  BY <1>1 DEF TablesOK
<1>3. PICK f : f = fl[m]
  OBVIOUS
<1>4. /\ FileShape(v, f) /\ Len(f) \in Nat \ {0} /\ SeqsReached(v, f, ls[m])
      /\ q \in [1..Len(f) -> Nat] /\ Numbered(v, f, q) /\ RowsOfFile(v, f, q, c, B)
  BY <1>2, <1>3 DEF Ordered, FileTable
<1>5. Reaches(v, f, ls[m], q)
  <2>1. PICK r \in [1..Len(f) -> Nat] : Numbered(v, f, r) /\ Reaches(v, f, ls[m], r)
    BY <1>4 DEF SeqsReached
  <2>2. \A i \in 1..Len(f) : q[i] = r[i]
    BY <1>4, <2>1, NumbersSame
  <2>3. \A i \in Places(v, f) : q[i] = r[i]
    BY <1>4, <2>2, PlaceIs
  <2> QED BY <2>1, <2>3 DEF Reaches
<1>6. PICK T : T = s2[m]
  OBVIOUS
<1>7. /\ \A e \in T : Shape(v, e)
      /\ \A e \in Long(T) : Swept(v, e)
      /\ SweepOf(v, f, ls[m], q, Long(T))
  <2>1. T = Added(st[m], B) /\ \A a, b \in T : a.key = b.key => a = b
    BY <1>6
  <2>2. \A e \in st[m] : Shape(v, e)
    BY <1>2
  <2>3. PICK S : S = st[m]
    OBVIOUS
  <2>4. /\ \A e \in T : Shape(v, e)
        /\ \A e \in Long(T) : Swept(v, e)
        /\ SweepOf(v, f, Long(S), q, Long(T))
    BY <1>4, <2>1, <2>2, <2>3, SweptTable
  <2> QED BY <1>2, <2>3, <2>4
<1>8. PICK l2 : l2 = [k \in Machines |-> IF k = m THEN Long(T) ELSE ls[k]]
  OBVIOUS
<1>9. Ordered(v, l2, fl)
  <2>1. PICK L : L = Long(T)
    OBVIOUS
  <2>2. /\ SweepOf(v, fl[m], ls[m], q, L) /\ (\A e \in L : Swept(v, e)) /\ Reaches(v, fl[m], ls[m], q)
        /\ l2 = [k \in Machines |-> IF k = m THEN L ELSE ls[k]]
    BY <1>3, <1>5, <1>7, <1>8, <2>1
  <2>3. q \in [1..Len(fl[m]) -> Nat] /\ Numbered(v, fl[m], q) /\ FileShape(v, fl[m])
    OBVIOUS
  <2>4. Ordered(v, ls, fl)
    BY <1>2
  <2> QED BY ONLY ViewOK(v), m \in Machines, <2>2, <2>3, <2>4, SweepOrdered
<1>10. [k \in Machines |-> Long(s2[k])] = l2
  BY <1>1, <1>6, <1>8
<1>11. \A k \in Machines : \A e \in s2[k] : Shape(v, e)
  BY <1>2, <1>6, <1>7
<1> QED BY <1>9, <1>10, <1>11 DEF TablesOK

-------------------------------------------------------------------------------
(* If nothing is missing after a step, nothing was before it. *)

LEMMA TornStays ==
  ASSUME NEW S, NEW T, S \subseteq T, IsFiniteSet(T), Torn(S)
  PROVE  Torn(T)
<1>1. IsFiniteSet(S) /\ Cardinality(S) \in Nat /\ Cardinality(T) \in Nat /\ Cardinality(S) <= Cardinality(T)
  BY FS_CardinalityType, FS_Subset
<1>2. PageSize \in Nat
  BY TransportAssumption
<1> QED BY <1>1, <1>2 DEF Torn

LEMMA KeptBefore ==
  ASSUME ConversationInv', Grows, record # <<>>, \A m \in Machines : store[m] \subseteq store'[m],
         \A m \in Machines : started[m] # 0 => started'[m] = started[m],
         ~LinesMissing', ~StartMoved'
  PROVE  ~LinesMissing /\ ~StartMoved
<1>1. /\ Len(record) \in Nat \ {0} /\ Len(record') \in Nat /\ Len(record) <= Len(record')
      /\ DOMAIN record = 1..Len(record) /\ DOMAIN record' = 1..Len(record')
      /\ \A n \in 1..Len(record) : record'[n] = record[n]
  BY LenProperties, EmptySeq DEF Grows
<1>2. 1 \in 1..Len(record) /\ record'[1] = record[1]
  BY <1>1
<1>3. ~StartMoved
  <2> SUFFICES ASSUME NEW m \in Machines,
                      \/ started[m] # 0 /\ started[m] # record[1].ts
                      \/ \E e \in store[m] : e.key = EndKey /\ e.seq <= Ms(record[1].ts)
               PROVE  StartMoved'
    BY DEF StartMoved
  <2>1. CASE started[m] # 0 /\ started[m] # record[1].ts
    <3>1. started'[m] # 0 /\ started'[m] # record'[1].ts
      BY <1>2, <2>1
    <3> QED BY <3>1 DEF StartMoved
  <2>2. ASSUME NEW e \in store[m], e.key = EndKey, e.seq <= Ms(record[1].ts) PROVE StartMoved'
    <3>1. e \in store'[m] /\ e.seq <= Ms(record'[1].ts)
      BY <1>2, <2>2
    <3> QED BY <2>2, <3>1 DEF StartMoved, EndKey, Ms, Step
  <2> QED BY <2>1, <2>2
<1>4. ASSUME NEW a \in DOMAIN record, NEW b \in DOMAIN record, SameKey(a, b) PROVE LinesMissing'
  <2>1. a \in DOMAIN record' /\ b \in DOMAIN record'
    BY <1>1
  <2>2. \A n \in 1..Len(record) : CodexFromJSONL(n, 0)' = CodexFromJSONL(n, 0)
    <3> TAKE n \in 1..Len(record)
    <3>1. record'[n] = record[n] /\ cli' = cli
      BY <1>1 DEF Grows
    <3> QED BY <3>1 DEF CodexFromJSONL, ResponseItemFromJSONL, MessageFromResponseItem,
                        EventMsgFromJSONL, MarkFromJSONL, UserKey, OwnKey, CallKey, ResultKey, StartKey
  <2>3. SameKey(a, b)'
    BY <1>1, <1>4, <2>2 DEF SameKey
  <2> QED BY <2>1, <2>3 DEF LinesMissing
<1>5. ASSUME NEW m \in Machines, Torn(store[m]) PROVE LinesMissing'
  <2>1. PICK T : T = store'[m]
    OBVIOUS
  <2>2. IsFiniteSet(T)
    BY <2>1 DEF ConversationInv, StoreOK
  <2>3. Torn(T)
    BY <1>5, <2>1, <2>2, TornStays
  <2>4. Torn(store[m])'
    BY <2>1, <2>3 DEF Torn
  <2> QED BY <2>4 DEF LinesMissing
<1>6. ASSUME NEW m \in Machines, NEW e \in store[m], e.rec # 0, e.native.as = "envelope"
      PROVE  LinesMissing'
  BY <1>6 DEF LinesMissing
<1>7. ~LinesMissing
  BY <1>4, <1>5, <1>6 DEF LinesMissing
<1> QED BY <1>3, <1>7
-------------------------------------------------------------------------------
(* The steps of the conversation. *)

LEMMA ViewStays ==
  ASSUME UNCHANGED <<cli, flip, record>>
  PROVE  View' = View
<1>1. \A n \in 1..Len(record) : CodexFromJSONL(n, 0)' = CodexFromJSONL(n, 0)
  BY DEF CodexFromJSONL, ResponseItemFromJSONL, MessageFromResponseItem, EventMsgFromJSONL,
         MarkFromJSONL, UserKey, OwnKey, CallKey, ResultKey, StartKey
<1> QED BY <1>1 DEF View

(* What a step that adds no record must keep. *)
LEMMA CodexRest ==
  ASSUME ConversationInv, ConversationInv', CodexInv, UNCHANGED <<cli, flip, record>>,
         record # <<>>, cli = "codex",
         \A m \in Machines : store[m] \subseteq store'[m],
         \A m \in Machines : started[m] # 0 => started'[m] = started[m],
         NEW v, v = View,
         ViewOK(v) /\ KeysKnown(v) /\ KeysApart(v) /\ v.rec = record /\ v.flip = flip
           /\ TablesOK(v, store, file) /\ ~LinesMissing' /\ ~StartMoved'
           => TablesOK(v, store', file')
  PROVE  CodexInv'
<1>1. v = View
  OBVIOUS
<1>2. v = View' /\ ViewOK(v)
  BY <1>1, ViewStays DEF CodexInv
<1>3. record \in Seq(Records) /\ cli # "claude"
  BY DEF ConversationInv
<1>4. ASSUME ~LinesMissing', ~StartMoved' PROVE TablesOK(v, store', file')
  <2>1. Grows
    BY <1>3, SameGrows
  <2>2. ~LinesMissing /\ ~StartMoved
    BY <1>4, <2>1, KeptBefore
  <2>3. TablesOK(v, store, file)
    BY <1>1, <2>2 DEF CodexInv
  <2>4. KeysKnown(v) /\ v.rec = record /\ v.flip = flip /\ KeysApart(v)
    <3>1. \A a, b \in DOMAIN record : ~SameKey(a, b)
      BY <2>2 DEF LinesMissing
    <3> QED BY <1>1, <1>2, <1>3, <3>1, ViewKeys
  <2> QED BY <1>1, <1>2, <1>4, <2>3, <2>4
<1>5. record' # <<>>
  OBVIOUS
<1>6. ViewOK(View)'
  <2>1. ViewOK(View') 
    BY <1>2
  <2> QED BY <2>1 DEF ViewOK, Base, Ms, Step
<1>7. (~LinesMissing /\ ~StartMoved)' => TablesOK(View, store, file)'
  BY <1>2, <1>4
<1> QED BY <1>5, <1>6, <1>7 DEF CodexInv

LEMMA BatchGrows ==
  ASSUME ConversationInv, NEW m \in Machines, NEW E, NEW ts, IngestBatch(m, E, ts)
  PROVE  /\ \A k \in Machines : store'[k] = IF k = m THEN Added(store[m], E) ELSE store[k]
         /\ \A k \in Machines : store[k] \subseteq store'[k]
         /\ \A k \in Machines : started[k] # 0 => started'[k] = started[k]
<1>1. \A k \in Machines : store'[k] = IF k = m THEN Added(store[m], E) ELSE store[k]
  BY DEF IngestBatch, ConversationInv, StoreOK
<1>2. store[m] \subseteq Added(store[m], E)
  BY DEF Added
<1>3. \A k \in Machines : started[k] # 0 => started'[k] = started[k]
  BY DEF IngestBatch, ConversationInv
<1> QED BY <1>1, <1>2, <1>3

LEMMA PullGrows ==
  ASSUME ConversationInv, NEW m \in Machines, NEW from \in Machines,
         store' = [store EXCEPT ![m] = Pulled(m, from)],
         started' = [started EXCEPT ![m] = IF @ = 0 THEN started[from] ELSE @]
  PROVE  /\ \A k \in Machines : store'[k] = IF k = m THEN Merged(store[m], store[from]) ELSE store[k]
         /\ \A k \in Machines : store[k] \subseteq store'[k]
         /\ \A k \in Machines : started[k] # 0 => started'[k] = started[k]
<1>1. \A k \in Machines : store'[k] = IF k = m THEN Merged(store[m], store[from]) ELSE store[k]
  BY DEF Pulled, ConversationInv, StoreOK
<1>2. store[m] \subseteq Merged(store[m], store[from])
  BY DEF Merged
<1>3. \A k \in Machines : started[k] # 0 => started'[k] = started[k]
  BY DEF ConversationInv
<1> QED BY <1>1, <1>2, <1>3

LEMMA StopCodex ==
  ASSUME ConversationInv, ConversationInv', CodexInv, cli = "codex", NEW m \in Machines, Stop(m)
  PROVE  CodexInv'
<1>1. UNCHANGED <<cli, flip, record, file>> /\ file[m] # NoFile
  BY DEF Stop
<1>2. record # <<>>
  BY <1>1 DEF CodexInv, Nothing
<1>3. PICK e : e = HookRow(m, EndKey, 0, 0)
  OBVIOUS
<1>4. IngestBatch(m, <<e>>, Clock(m)) /\ e.key = EndKey /\ e.rec = 0 /\ e.native.as = "envelope"
  BY <1>3 DEF Stop, HookRow, Envelope
<1>5. /\ \A k \in Machines : store'[k] = IF k = m THEN Added(store[m], <<e>>) ELSE store[k]
      /\ \A k \in Machines : store[k] \subseteq store'[k]
      /\ \A k \in Machines : started[k] # 0 => started'[k] = started[k]
  BY <1>4, BatchGrows
<1>. PICK v : v = View
  OBVIOUS
<1>6. ASSUME TablesOK(v, store, file) PROVE TablesOK(v, store', file')
  <2>1. TablesOK(v, store', file)
    BY <1>4, <1>5, <1>6, MarkOrdered
  <2> QED BY <1>1, <2>1
<1> QED BY <1>1, <1>2, <1>5, <1>6, CodexRest

(* A pull: of `resleeve sync`, or of resume in prime mode. *)
LEMMA PullCodex ==
  ASSUME ConversationInv, ConversationInv', CodexInv, cli = "codex",
         NEW m \in Machines, NEW from \in Machines, UNCHANGED <<cli, flip, record, file>>,
         store' = [store EXCEPT ![m] = Pulled(m, from)],
         started' = [started EXCEPT ![m] = IF @ = 0 THEN started[from] ELSE @]
  PROVE  CodexInv'
<1>1. /\ \A k \in Machines : store'[k] = IF k = m THEN Merged(store[m], store[from]) ELSE store[k]
      /\ \A k \in Machines : store[k] \subseteq store'[k]
      /\ \A k \in Machines : started[k] # 0 => started'[k] = started[k]
  BY PullGrows
<1>2. CASE record = <<>>
  <2>1. \A k \in Machines : file[k] = NoFile /\ store[k] = {} /\ started[k] = 0
    BY <1>2 DEF CodexInv, Nothing
  <2>2. \A k \in Machines : store'[k] = {}
    BY <1>1, <2>1 DEF Merged
  <2>3. \A k \in Machines : started'[k] = 0
    BY <2>1 DEF ConversationInv
  <2> QED BY <1>2, <2>1, <2>2, <2>3 DEF CodexInv, Nothing
<1>3. CASE record # <<>>
  <2>. PICK v : v = View
    OBVIOUS
  <2>1. ASSUME ViewOK(v), KeysKnown(v), KeysApart(v), TablesOK(v, store, file)
        PROVE  TablesOK(v, store', file')
    <3>1. TablesOK(v, store', file)
      BY ONLY m \in Machines, from \in Machines, <1>1, <2>1, PulledOrdered
    <3> QED BY <3>1
  <2> QED BY <1>1, <1>3, <2>1, CodexRest
<1> QED BY <1>2, <1>3

LEMMA SweepCodex ==
  ASSUME ConversationInv, ConversationInv', CodexInv, cli = "codex", NEW m \in Machines, Sweep(m)
  PROVE  CodexInv'
<1>1. UNCHANGED <<cli, flip, record, file>> /\ file[m] # NoFile
  BY DEF Sweep
<1>2. record # <<>>
  BY <1>1 DEF CodexInv, Nothing
<1>3. PICK B : B = FromFile(file[m])
  OBVIOUS
<1>4. PICK ts : IngestBatch(m, B, ts)
  BY <1>3 DEF Sweep
<1>5. /\ \A k \in Machines : store'[k] = IF k = m THEN Added(store[m], B) ELSE store[k]
      /\ \A k \in Machines : store[k] \subseteq store'[k]
      /\ \A k \in Machines : started[k] # 0 => started'[k] = started[k]
  BY <1>4, BatchGrows
<1>. PICK v : v = View
  OBVIOUS
<1>6. ASSUME ViewOK(v), KeysKnown(v), KeysApart(v), TablesOK(v, store, file)
      PROVE  TablesOK(v, store', file')
  <2>1. PICK f : f = file[m]
    OBVIOUS
  <2>2. f \in Seq(GoodLines) /\ record \in Seq(Records) /\ B = FromFile(f)
    BY <1>3, <2>1 DEF ConversationInv
  <2>3. FileShape(v, f) /\ Len(f) \in Nat \ {0}
    BY <1>1, <1>6, <2>1 DEF TablesOK, Ordered, FileTable
  <2>4. B \in Seq(GoodRows)
    BY <1>6, <2>2, <2>3, CodexFromFile
  <2>5. PICK q \in [1..Len(f) -> Nat], c \in [1..Len(f) -> Nat] :
          Numbered(v, f, q) /\ RowsOfFile(v, f, q, c, B)
    BY <1>6, <2>2, <2>3, CodexFromFile
  <2>6. DOMAIN B = 1..Len(B) /\ Len(B) \in Nat
    BY <2>4, LenProperties
  <2>7. \A a, b \in store'[m] : a.key = b.key => a = b
    BY DEF ConversationInv, StoreOK
  <2>8. TablesOK(v, store', file)
    <3>1. /\ FileShape(v, file[m]) /\ q \in [1..Len(file[m]) -> Nat] /\ Numbered(v, file[m], q)
          /\ RowsOfFile(v, file[m], q, c, B)
      BY <2>1, <2>3, <2>5
    <3>2. PICK s2 : s2 = store'
      OBVIOUS
    <3>3. /\ \A k \in Machines : s2[k] = IF k = m THEN Added(store[m], B) ELSE store[k]
          /\ \A a, b \in s2[m] : a.key = b.key => a = b
      BY <1>5, <2>7, <3>2
    <3>4. TablesOK(v, s2, file)
      BY ONLY m \in Machines, <1>6, <2>6, <3>1, <3>3, SweptOrdered, ZenonT(60)
    <3> QED BY <3>2, <3>4
  <2> QED BY <1>1, <2>8
<1> QED BY <1>1, <1>2, <1>5, <1>6, CodexRest
-------------------------------------------------------------------------------
(* The transcript that resume writes. *)

(* Which lines of rows are a session_meta. *)
LEMMA HeadIsMeta ==
  ASSUME NEW v, ViewOK(v), v.rec = record, NEW e, Shape(v, e)
  PROVE  e.native.as # "none" /\ (IsMeta(e.native) <=> IsHead(e.native))
<1>1. Len(v.rec) \in Nat /\ v.rec[1].kind = "meta" /\ \A n \in 2..Len(v.rec) : v.rec[n].kind # "meta"
  BY ViewIs DEF ViewOK
<1>2. CASE e.native.as = "envelope"
  BY <1>2 DEF IsMeta, IsHead
<1>3. CASE IsHead(e.native)
  BY <1>1, <1>3 DEF IsMeta, IsHead
<1>4. CASE Swept(v, e)
  <2>1. PICK n \in 2..Len(v.rec) : e.native = LineOf(v, n)
    BY <1>4 DEF Swept
  <2>2. e.native.as = "line" /\ e.native.n = n /\ v.rec[n].kind # "meta" /\ n # 1
    BY <1>1, <2>1 DEF LineOf
  <2> QED BY <2>2 DEF IsMeta, IsHead
<1> QED BY <1>2, <1>3, <1>4 DEF Shape

LEMMA CodexWrites ==
  ASSUME NEW v, ViewOK(v), v.rec = record, NEW E \in Seq(GoodRows),
         \A k \in 1..Len(E) : Shape(v, E[k]), NEW ts, ts = v.rec[1].ts
  PROVE  \E o \in {0, 1} : WrittenAs(v, E, CodexHydrate(E, ts), o)
<1> DEFINE q == CodexReplay(E)
           t == EnsureLeadingSessionMeta(q, ts)
<1>1. /\ Len(E) \in Nat /\ DOMAIN E = 1..Len(E)
      /\ \A k \in 1..Len(E) : /\ E[k].native.as # "none" /\ E[k].native \in Lines
                              /\ IsMeta(E[k].native) <=> IsHead(E[k].native)
  <2>1. Len(E) \in Nat /\ DOMAIN E = 1..Len(E)
    BY LenProperties
  <2>2. \A k \in 1..Len(E) : E[k] \in GoodRows
    BY ElementOfSeq
  <2>3. \A k \in 1..Len(E) : E[k].native \in Lines
    BY <2>2 DEF GoodRows, EventRows
  <2>4. \A k \in 1..Len(E) : E[k].native.as # "none" /\ (IsMeta(E[k].native) <=> IsHead(E[k].native))
    BY HeadIsMeta
  <2> QED BY <2>1, <2>3, <2>4
<1>2. q = [k \in 1..Len(E) |-> E[k].native]
  BY <1>1 DEF CodexReplay
<1> HIDE DEF q
<1>3. q \in Seq(Lines) /\ Len(q) = Len(E)
  BY <1>1, <1>2, FcnIsSeq
<1>4. CodexHydrate(E, ts) = <<>> \o t
  BY DEF CodexHydrate, q
<1>5. CASE q # <<>> /\ IsMeta(q[1])
  <2>1. t = q
    BY <1>5 DEF EnsureLeadingSessionMeta
  <2> HIDE DEF t
  <2>2. Len(E) # 0
    BY <1>3, <1>5, EmptySeq
  <2>3. q[1] = E[1].native /\ IsHead(E[1].native)
    BY <1>1, <1>2, <1>5, <2>2
  <2>4. <<>> \o t = q
    BY <1>3, <2>1, ConcatEmptySeq
  <2>5. \A k \in 1..Len(E) : k + 0 = k
    BY <1>1
  <2>6. WrittenAs(v, E, q, 0)
    BY <1>1, <1>2, <1>3, <2>2, <2>3, <2>5 DEF WrittenAs
  <2> QED BY <1>4, <2>4, <2>6
<1>6. CASE ~(q # <<>> /\ IsMeta(q[1]))
  <2>1. t = <<Meta(ts)>> \o q
    BY <1>6 DEF EnsureLeadingSessionMeta
  <2> HIDE DEF t
  <2>2. PICK l : l = Meta(ts)
    OBVIOUS
  <2>3. l \in Lines \cup {l} /\ l.ts = v.rec[1].ts /\ IsHead(l)
    BY <2>2 DEF Meta, IsHead
  <2>4. PICK X : X = Lines \cup {l}
    OBVIOUS
  <2>5. q \in Seq(X) /\ <<l>> \in Seq(X) /\ Len(<<l>>) = 1 /\ <<l>>[1] = l
    <3>1. Lines \subseteq X
      BY <2>4
    <3> QED BY <1>3, <2>4, <3>1, SeqMonotonic
  <2>6. /\ t \in Seq(X) /\ Len(t) = 1 + Len(q)
        /\ \A i \in 1..(1 + Len(q)) : t[i] = IF i <= 1 THEN <<l>>[i] ELSE q[i - 1]
    BY <2>1, <2>2, <2>5, ConcatProperties
  <2>7. <<>> \o t = t
    BY <2>6, ConcatEmptySeq
  <2>8. Len(t) = Len(E) + 1 /\ t[1] = l
    BY <1>1, <1>3, <2>5, <2>6
  <2>9. ASSUME NEW k \in 1..Len(E) PROVE t[k + 1] = E[k].native
    <3>1. k + 1 \in 1..(1 + Len(q)) /\ ~(k + 1 <= 1) /\ (k + 1) - 1 = k
      BY <1>1, <1>3
    <3>2. t[k + 1] = q[k]
      BY <2>6, <3>1
    <3> QED BY <1>2, <3>2
  <2>10. Len(E) # 0 => ~IsHead(E[1].native)
    <3> HAVE Len(E) # 0
    <3>1. 1 \in 1..Len(E) /\ q # <<>>
      BY <1>1, <1>3
    <3>2. q[1] = E[1].native /\ ~IsMeta(q[1])
      BY <1>2, <1>6, <3>1
    <3> QED BY <1>1, <3>1, <3>2
  <2>11. WrittenAs(v, E, t, 1)
    BY <2>3, <2>8, <2>9, <2>10 DEF WrittenAs
  <2> QED BY <1>4, <2>7, <2>11
<1> QED BY <1>5, <1>6

(* All rows, in their order. *)
LEMMA LoadsInOrder ==
  ASSUME flip \in BOOLEAN, NEW v, v.flip = flip, NEW S, TableOK(S, GoodRows), ~Torn(S),
         NEW E, E = LoadAllEvents(S)
  PROVE  InOrderOf(v, E, S)
<1>1. /\ E \in Seq(GoodRows) /\ Len(E) \in Nat /\ \A k \in 1..Len(E) : E[k] \in S
      /\ \A i, j \in 1..Len(E) : i < j => Precedes(E[i], E[j])
      /\ \A e \in S : \E k \in 1..Len(E) : E[k] = e
  BY LoadedIs
<1>2. Keyed(S)
  BY TableKeyed
<1>3. \A a, b : Precedes(a, b) <=> Before(v, a, b)
  BY DEF Precedes, Before
<1>4. ASSUME NEW k \in 1..Len(E), NEW l \in 1..Len(E), Precedes(E[k], E[l]) PROVE k < l
  <2>1. E[k] \in S /\ E[l] \in S
    BY <1>1
  <2>2. ~Precedes(E[k], E[k])
    BY <1>2, <2>1, PrecedesOrders
  <2>3. ~Precedes(E[l], E[k])
    <3> SUFFICES ASSUME Precedes(E[l], E[k]) PROVE FALSE
      OBVIOUS
    <3> QED BY <1>2, <1>4, <2>1, <2>2, PrecedesOrders
  <2>4. k # l
    BY <1>4, <2>2
  <2>5. ~(l < k)
    BY <1>1, <2>3
  <2> QED BY <2>4, <2>5
<1> QED BY <1>1, <1>3, <1>4 DEF InOrderOf

LEMMA ReplayCodex ==
  ASSUME ConversationInv, ConversationInv', CodexInv, cli = "codex",
         NEW m \in Machines, NEW from \in Machines, NEW captured,
         ResolveSession(m, from), Replay(m, from, captured)
  PROVE  CodexInv'
<1>1. UNCHANGED <<cli, flip, record>>
  BY DEF Replay
<1>2. record # <<>>
  BY DEF ResolveSession, CodexInv, Nothing
<1>3. PICK S : S = Pulled(m, from)
  OBVIOUS
<1>4. TableOK(S, GoodRows) /\ S = Merged(store[m], store[from]) /\ store[m] \subseteq S
  BY <1>3, PulledIs DEF Pulled, Merged
<1>5. PICK e : e = HookRow(m, StartKey, 0, 0)
  OBVIOUS
<1>6. e.key \in {StartKey, EndKey} /\ e.rec = 0 /\ e.native.as = "envelope"
  BY <1>5 DEF HookRow, Envelope
<1>7. PICK T : T = ExecOrPrint(m, S, captured)
  OBVIOUS
<1>8. (T = S \/ T = Added(S, <<e>>)) /\ S \subseteq T
  BY <1>5, <1>7 DEF ExecOrPrint, Added
<1>9. /\ \A k \in Machines : store'[k] = IF k = m THEN T ELSE store[k]
      /\ \A k \in Machines : store[k] \subseteq store'[k]
  <2>1. store' = [store EXCEPT ![m] = T]
    BY <1>3, <1>7 DEF Replay
  <2> QED BY <1>4, <1>8, <2>1 DEF ConversationInv, StoreOK
<1>10. /\ \A k \in Machines : started[k] # 0 => started'[k] = started[k]
       /\ started'[m] # 0
  BY ResolveKeeps DEF ResolveSession, ConversationInv
<1>11. PICK E : E = LoadAllEvents(S)
  OBVIOUS
<1>12. PICK g : g = CodexHydrate(E, started'[m])
  OBVIOUS
<1>13. file' = [k \in Machines |-> IF k = m THEN g ELSE file[k]]
  <2>1. file' = [file EXCEPT ![m] = g]
    BY <1>3, <1>11, <1>12 DEF Replay
  <2> QED BY <2>1 DEF ConversationInv
<1>. PICK v : v = View
  OBVIOUS
<1>14. ASSUME ViewOK(v), KeysKnown(v), KeysApart(v), v.rec = record, v.flip = flip,
              TablesOK(v, store, file), ~LinesMissing', ~StartMoved'
       PROVE  TablesOK(v, store', file')
  <2>1. PICK s1 : s1 = [k \in Machines |-> IF k = m THEN S ELSE store[k]]
    OBVIOUS
  <2>2. TablesOK(v, s1, file)
    <3>1. \A k \in Machines : s1[k] = IF k = m THEN Merged(store[m], store[from]) ELSE store[k]
      BY <1>4, <2>1
    <3> QED BY <1>14, <3>1, PulledOrdered
  <2>3. s1[m] = S
    BY <2>1
  <2>4. (\A d \in S : Shape(v, d) /\ d.seq \in Nat) /\ \A a, b \in S : a.key = b.key => a = b
    <3>1. \A d \in S : Shape(v, d)
      BY <2>2, <2>3 DEF TablesOK
    <3>2. \A d \in S : d.seq \in Nat
      BY <1>4 DEF TableOK, GoodRows, EventRows
    <3> QED BY <1>4, <3>1, <3>2 DEF TableOK
  <2>5. \A d \in S : d.key = EndKey => d.seq > Base(v)
    <3> SUFFICES ASSUME NEW d \in S, d.key = EndKey, ~(d.seq > Base(v)) PROVE StartMoved'
      BY <1>14
    <3>1. d.seq \in Nat /\ Base(v) \in Nat
      BY <1>14, <2>4, ViewIs
    <3>2. d \in store'[m] /\ d.seq <= Ms(record'[1].ts)
      BY <1>1, <1>8, <1>9, <1>14, <3>1 DEF Base
    <3> QED BY <3>2 DEF StartMoved, EndKey, Ms, Step
  <2>6. started'[m] = v.rec[1].ts
    BY <1>1, <1>10, <1>14 DEF StartMoved
  <2>7. ~Torn(S)
    <3> SUFFICES ASSUME Torn(S) PROVE LinesMissing'
      BY <1>14
    <3>1. IsFiniteSet(T)
      BY <1>9 DEF ConversationInv, StoreOK
    <3>2. Torn(T)
      BY <1>8, <3>1, TornStays
    <3>3. T = store'[m]
      BY <1>9
    <3>4. Torn(store[m])'
      BY <3>2, <3>3 DEF Torn
    <3> QED BY <3>4 DEF LinesMissing
  <2>8. InOrderOf(v, E, S)
    BY <1>4, <1>11, <1>14, <2>7, LoadsInOrder DEF ConversationInv, Settings
  <2>9. E \in Seq(GoodRows) /\ \A k \in 1..Len(E) : Shape(v, E[k])
    <3>1. E \in Seq(GoodRows)
      BY <1>4, <1>11, LoadedIs DEF ConversationInv, Settings
    <3> QED BY <2>4, <2>8, <3>1 DEF InOrderOf
  <2>10. PICK o \in {0, 1} : WrittenAs(v, E, g, o)
    BY <1>12, <1>14, <2>6, <2>9, CodexWrites
  <2>11. Listing(v, g, Long(S))
    BY ONLY <1>14, <2>4, <2>5, <2>8, <2>10, WrittenIsListing
  <2>12. TablesOK(v, s1, file')
    BY <1>13, <1>14, <2>2, <2>3, <2>11, WrittenOrdered
  <2>13. PICK s2 : s2 = store'
    OBVIOUS
  <2>14. \A k \in Machines : s2[k] = s1[k] \/ (k = m /\ s2[k] = Added(s1[k], <<e>>))
    BY <1>8, <1>9, <2>1, <2>13
  <2>15. TablesOK(v, s2, file')
    BY ONLY m \in Machines, <1>6, <2>12, <2>14, MarkOrdered
  <2> QED BY <2>13, <2>15
<1> QED BY <1>1, <1>2, <1>9, <1>10, <1>14, CodexRest
-------------------------------------------------------------------------------
(* The vendor's CLI writes. *)

(* No hook was first, so none that runs now adds a row. *)
LEMMA HookAddsNothing ==
  ASSUME ConversationInv, ConversationInv', Grows, NEW m \in Machines, NEW n \in 1..Len(record'),
         record'[n].kind = "result" => record'[n].call \in 1..Len(record'),
         NEW captured, Hook(m, HookEvents(m, n), captured), ~LinesMissing'
  PROVE  \A k \in Machines : store'[k] = store[k]
<1>1. CASE ~captured
  BY <1>1 DEF Hook
<1>2. CASE captured
  <2>1. PICK E : E = HookEvents(m, n)
    OBVIOUS
  <2>2. E \in Seq(GoodRows')
    BY <2>1, HookEventsAre DEF ConversationInv
  <2>3. IngestBatch(m, E, Clock(m))
    BY <1>2, <2>1 DEF Hook
  <2>4. \A k \in Machines : store'[k] = IF k = m THEN Added(store[m], E) ELSE store[k]
    BY <2>3, BatchGrows
  <2>5. \A i \in DOMAIN E : E[i].rec # 0 /\ E[i].native.as = "envelope"
    <3>1. n # 0 /\ Len(record') \in Nat
      BY <2>2, LenProperties DEF Grows
    <3>2. CASE record'[n].kind \in {"prompt", "blocks"}
      <4>1. PICK key : key = <<"user", IF cli = "claude" THEN n ELSE record'[n].text>>
        OBVIOUS
      <4>2. E = <<HookRow(m, key, n, 0)>>
        BY <2>1, <3>2, <4>1 DEF HookEvents
      <4>3. HookRow(m, key, n, 0).rec = n /\ HookRow(m, key, n, 0).native.as = "envelope"
        BY DEF HookRow, Envelope
      <4>4. PICK r : r = HookRow(m, key, n, 0)
        OBVIOUS
      <4>5. E = <<r>> /\ DOMAIN E = {1} /\ E[1] = r
        BY <4>2, <4>4
      <4> QED BY <3>1, <4>3, <4>4, <4>5
    <3>3. CASE record'[n].kind = "result"
      <4>1. PICK c : c = record'[n].call
        OBVIOUS
      <4>2. c # 0
        BY <3>1, <3>3, <4>1
      <4>3. PICK r : r = HookRow(m, CallKey(c), c, 0)
        OBVIOUS
      <4>4. PICK s : s = HookRow(m, <<"result", c>>, n, 1)
        OBVIOUS
      <4>5. E = <<r, s>>
        BY <2>1, <3>3, <4>1, <4>3, <4>4 DEF HookEvents
      <4>6. r.rec = c /\ r.native.as = "envelope" /\ s.rec = n /\ s.native.as = "envelope"
        BY <4>3, <4>4 DEF HookRow, Envelope
      <4>7. DOMAIN E = {1, 2} /\ E[1] = r /\ E[2] = s
        BY <4>5
      <4> QED BY <3>1, <4>2, <4>6, <4>7
    <3>4. CASE record'[n].kind \notin {"prompt", "blocks", "result"}
      <4>1. E = <<>>
        BY <2>1, <3>4 DEF HookEvents
      <4> QED BY <4>1
    <3> QED BY <3>2, <3>3, <3>4
  <2>6. Added(store[m], E) \subseteq store[m]
    <3> SUFFICES ASSUME NEW e \in Added(store[m], E), e \notin store[m] PROVE FALSE
      OBVIOUS
    <3>1. PICK i \in DOMAIN E : e = E[i]
      BY DEF Added
    <3>2. e.rec # 0 /\ e.native.as = "envelope" /\ e \in store'[m]
      BY <2>4, <2>5, <3>1
    <3> QED BY <3>2 DEF LinesMissing
  <2>7. store[m] \subseteq Added(store[m], E)
    BY DEF Added
  <2>8. Added(store[m], E) = store[m]
    BY <2>6, <2>7
  <2> QED BY <2>4, <2>8
<1> QED BY <1>1, <1>2

LEMMA WriteCodex ==
  ASSUME ConversationInv, ConversationInv', CodexInv, cli = "codex",
         NEW m \in Machines, NEW what \in Written, NEW text \in Nat, NEW call \in Nat,
         what = "result" => call \in OpenCalls(m), NEW captured, Write(m, what, text, call, captured)
  PROVE  CodexInv'
<1>1. file[m] # NoFile /\ record # <<>> /\ cli' = cli /\ flip' = flip
  BY DEF Write, CodexInv, Nothing
<1>2. PICK r : r = NewRecord(m, what, text, call)
  OBVIOUS
<1>3. r \in Records /\ r.kind = what /\ r.call = call /\ r.ts = Clock(m) /\ r.after = Shown(file[m])
  BY <1>1, <1>2, NewRecordIs DEF NewRecord
<1>4. Grows /\ Len(record') = Len(record) + 1 /\ record'[Len(record')] = r
  BY <1>2, <1>3, AppendGrows DEF Write, ConversationInv
<1>5. PICK n : n = Len(record')
  OBVIOUS
<1>6. /\ record \in Seq(Records) /\ record' \in Seq(Records) /\ file[m] \in Seq(GoodLines)
      /\ Len(record) \in Nat \ {0} /\ n = Len(record) + 1 /\ n \in 1..Len(record')
      /\ \A i \in 1..Len(record) : record'[i] = record[i]
      /\ record' # <<>>
  BY <1>1, <1>4, <1>5, LenProperties, EmptySeq DEF ConversationInv, Grows
<1>7. Shown(file[m]) \subseteq 1..Len(record)
  BY <1>6, ShownIs
<1>. PICK v : v = View
  OBVIOUS
<1>. PICK v2 : v2 = View'
  OBVIOUS
<1>8. /\ ViewOK(v) /\ v.rec = record /\ v.flip = flip
      /\ \A i \in 1..Len(record) : v.key[i] = CodexFromJSONL(i, 0)
  BY <1>1 DEF View, CodexInv
<1>9. /\ v2.rec = record' /\ v2.flip = flip
      /\ \A i \in 1..Len(record') : v2.key[i] = CodexFromJSONL(i, 0)'
  BY <1>1 DEF View
<1>10. ViewOK(v2)
  <2>0. Len(v2.rec) = n
    BY <1>5, <1>9
  <2>1. v2.flip \in BOOLEAN /\ v2.rec \in Seq(Records) /\ v2.rec # <<>>
    BY <1>6, <1>9 DEF ConversationInv, Settings
  <2>2. v2.rec[1].kind = "meta"
    BY <1>6, <1>8, <1>9 DEF ViewOK
  <2>3. \A i \in 2..Len(v2.rec) : v2.rec[i].kind # "meta"
    <3> TAKE i \in 2..Len(v2.rec)
    <3>1. CASE i = n
      <4>1. r.kind # "meta"
        BY <1>3, TransportAssumption
      <4> QED BY <1>4, <1>5, <1>9, <3>1, <4>1
    <3>2. CASE i # n
      <4>1. i \in 2..Len(record)
        BY <1>6, <3>2, <2>0
      <4>2. v.rec[i].kind # "meta"
        BY <1>8, <4>1 DEF ViewOK
      <4>3. record'[i] = record[i]
        BY <1>6, <4>1
      <4> QED BY <1>8, <1>9, <4>2, <4>3
    <3> QED BY <3>1, <3>2
  <2>4. \A i \in 1..Len(v2.rec) : v2.rec[i].after \subseteq 1..(i - 1)
    <3> TAKE i \in 1..Len(v2.rec)
    <3>1. CASE i = n
      <4>1. v2.rec[i] = r /\ i - 1 = Len(record)
        BY <1>4, <1>5, <1>6, <1>9, <3>1
      <4> QED BY <1>3, <1>7, <4>1
    <3>2. CASE i # n
      <4>1. i \in 1..Len(record)
        BY <1>6, <3>2, <2>0
      <4> QED BY <1>6, <1>8, <1>9, <4>1 DEF ViewOK
    <3> QED BY <3>1, <3>2
  <2> QED BY <2>1, <2>2, <2>3, <2>4 DEF ViewOK
<1>11. OneMore(v, v2)
  <2>1. \A i \in 1..Len(record) : CodexFromJSONL(i, 0)' = CodexFromJSONL(i, 0)
    <3> TAKE i \in 1..Len(record)
    <3>1. record'[i] = record[i]
      BY <1>6
    <3> QED BY <1>1, <3>1 DEF CodexFromJSONL, ResponseItemFromJSONL, MessageFromResponseItem,
                              EventMsgFromJSONL, MarkFromJSONL, UserKey, OwnKey, CallKey, ResultKey, StartKey
  <2>2. \A i \in 1..Len(record) : i \in 1..Len(record')
    BY <1>4, <1>6
  <2> QED BY <1>4, <1>6, <1>8, <1>9, <1>10, <2>1, <2>2 DEF OneMore
<1>12. ASSUME ~LinesMissing', ~StartMoved' PROVE TablesOK(v2, store', file')
  <2>1. Hook(m, HookEvents(m, n), captured)
    BY <1>5 DEF Write
  <2>2. \A k \in Machines : store'[k] = store[k]
    <3>1. record'[n].kind = "result" => record'[n].call \in 1..Len(record')
      <4> HAVE record'[n].kind = "result"
      <4>1. call \in Shown(file[m])
        BY <1>3, <1>4, <1>5 DEF OpenCalls, Calls
      <4> QED BY <1>3, <1>4, <1>5, <1>6, <1>7, <4>1
    <3> QED BY <1>4, <1>6, <1>12, <2>1, <3>1, HookAddsNothing
  <2>3. \A k \in Machines : started[k] # 0 => started'[k] = started[k]
    BY <2>1 DEF Hook, IngestBatch, ConversationInv
  <2>4. ~LinesMissing /\ ~StartMoved
    BY <1>1, <1>4, <1>12, <2>2, <2>3, KeptBefore
  <2>5. TablesOK(v, store, file)
    BY <1>1, <2>4 DEF CodexInv
  <2>6. PICK ls : ls = [k \in Machines |-> Long(store[k])]
    OBVIOUS
  <2>7. Ordered(v, ls, file) /\ \A k \in Machines : \A e \in store[k] : Shape(v, e)
    BY <2>5, <2>6 DEF TablesOK
  <2>8. PICK f : f = file[m]
    OBVIOUS
  <2>9. FileShape(v, f) /\ Len(f) \in Nat \ {0} /\ f \in Seq(GoodLines)
    BY <1>1, <1>6, <2>7, <2>8 DEF Ordered, FileTable
  <2>10. PICK l : l = LineOf(v2, n)
    OBVIOUS
  <2>11. l = [n |-> n, as |-> "line", ts |-> Clock(m)] /\ n = Len(v2.rec)
    BY <1>3, <1>4, <1>5, <1>9, <2>10 DEF LineOf
  <2>12. PICK g : g = Append(f, l)
    OBVIOUS
  <2>13. Len(g) = Len(f) + 1 /\ (\A i \in 1..Len(f) : g[i] = f[i]) /\ g[Len(g)] = l
    <3>1. f \in Seq(GoodLines \cup {l}) /\ l \in GoodLines \cup {l}
      BY <2>9, SeqMonotonic
    <3> QED BY <2>9, <2>12, <3>1, AppendProperties
  <2>14. file' = [k \in Machines |-> IF k = m THEN g ELSE file[k]]
    <3>1. file' = [file EXCEPT ![m] = g]
      BY <1>5, <2>8, <2>11, <2>12 DEF Write
    <3> QED BY <3>1 DEF ConversationInv
  <2>15. ASSUME NEW b \in v2.rec[n].after, b >= 2 PROVE \E i \in Places(v, f) : f[i].n = b
    <3>1. b \in Shown(f)
      BY <1>3, <1>4, <1>5, <1>9, <2>8
    <3>2. PICK i \in 1..Len(f) : f[i].n = b /\ f[i].as = "line"
      BY <2>9, <3>1, LenProperties DEF Shown
    <3>3. i # 1
      <4>1. b # 1 /\ b # 0
        BY <2>15
      <4> QED BY <2>9, <3>2, <4>1 DEF FileShape, IsHead
    <3>4. i \in Places(v, f)
      BY <2>9, <3>2, <3>3 DEF FileShape
    <3> QED BY <3>2, <3>4
  <2>16. Ordered(v2, ls, file')
    <3>1. PICK f2 : f2 = file'
      OBVIOUS
    <3>2. /\ FileShape(v, file[m]) /\ Len(g) = Len(file[m]) + 1 /\ \A i \in 1..Len(file[m]) : g[i] = file[m][i]
          /\ g[Len(g)] = LineOf(v2, Len(v2.rec))
          /\ \A b \in v2.rec[Len(v2.rec)].after : b >= 2 => \E i \in Places(v, file[m]) : file[m][i].n = b
          /\ f2 = [k \in Machines |-> IF k = m THEN g ELSE file[k]]
      BY <2>8, <2>9, <2>10, <2>11, <2>13, <2>14, <2>15, <3>1
    <3>3. Ordered(v2, ls, f2)
      BY ONLY m \in Machines, <1>11, <2>7, <3>2, WriteOrdered
    <3> QED BY <3>1, <3>3
  <2>17. ASSUME NEW e, Shape(v, e) PROVE Shape(v2, e)
    <3>1. Base(v2) = Base(v) /\ v2.rec[1] = v.rec[1]
      BY <1>11, MoreBase, ViewIs DEF OneMore
    <3>2. Swept(v, e) => Swept(v2, e)
      <4> HAVE Swept(v, e)
      <4>1. PICK x : x = e.rec
        OBVIOUS
      <4>2. x \in 2..Len(v.rec) /\ e.native = LineOf(v, x) /\ v.key[x] = <<e.key>>
        BY <4>1 DEF Swept
      <4>3. x \in 1..Len(v.rec) /\ x \in 2..Len(v2.rec)
        BY <1>6, <1>8, <1>9, <4>2
      <4>4. v2.rec[x] = v.rec[x] /\ v2.key[x] = v.key[x]
        BY <1>11, <4>3 DEF OneMore
      <4>5. e.native = LineOf(v2, x) /\ v2.key[x] = <<e.key>>
        BY <4>2, <4>4 DEF LineOf
      <4> QED BY <3>1, <4>1, <4>3, <4>5 DEF Swept
    <3> QED BY <2>17, <3>1, <3>2 DEF Shape
  <2>18. [k \in Machines |-> Long(store'[k])] = ls
    BY <2>2, <2>6
  <2>19. \A k \in Machines : \A e \in store'[k] : Shape(v2, e)
    BY <2>2, <2>7, <2>17
  <2> QED BY <2>16, <2>18, <2>19 DEF TablesOK
<1>13. ViewOK(View)'
  <2>1. ViewOK(View')
    BY <1>10
  <2> QED BY <2>1 DEF ViewOK, Base, Ms, Step
<1>14. (~LinesMissing /\ ~StartMoved)' => TablesOK(View, store, file)'
  BY <1>12
<1> QED BY <1>6, <1>13, <1>14 DEF CodexInv

LEMMA OpenCodex ==
  ASSUME ConversationInv, ConversationInv', CodexInv, cli = "codex",
         NEW m \in Machines, NEW captured, Open(m, captured)
  PROVE  CodexInv'
<1>1. /\ record = <<>> /\ cli' = cli /\ flip' = flip
      /\ \A k \in Machines : file[k] = NoFile /\ store[k] = {} /\ started[k] = 0
  BY DEF Open, CodexInv, Nothing
<1>2. PICK r : r = NewRecord(m, "meta", 0, 0)
  OBVIOUS
<1>3. r.kind = "meta" /\ r.after = {} /\ r.ts = Clock(m) /\ record' = <<r>>
  BY <1>1, <1>2 DEF NewRecord, Open
<1>4. Len(record') = 1 /\ record'[1] = r /\ record' # <<>> /\ record' \in Seq(Records)
  BY <1>3 DEF ConversationInv
<1>. PICK v : v = View'
  OBVIOUS
<1>5. v.rec = record' /\ v.flip = flip
  BY <1>1 DEF View
<1>6. ViewOK(v)
  <2>1. \A n \in 1..1 : n = 1
    OBVIOUS
  <2>2. \A n \in 2..1 : FALSE
    OBVIOUS
  <2> QED BY <1>3, <1>4, <1>5, <2>1, <2>2 DEF ViewOK, ConversationInv, Settings
<1>7. PICK e : e = HookRow(m, StartKey, 0, 0)
  OBVIOUS
<1>8. e.key \in {StartKey, EndKey} /\ e.rec = 0 /\ e.native.as = "envelope"
  BY <1>7 DEF HookRow, Envelope
<1>9. \A k \in Machines : store'[k] = store[k] \/ (k = m /\ store'[k] = Added(store[k], <<e>>))
  BY <1>7, BatchGrows DEF Open, Hook
<1>10. \A k \in Machines : file'[k] = NoFile \/ file'[k] = <<LineOf(v, 1)>>
  <2>1. PICK l : l = LineOf(v, 1)
    OBVIOUS
  <2>2. l = [n |-> 1, as |-> "line", ts |-> Clock(m)]
    BY <1>3, <1>4, <1>5, <2>1 DEF LineOf
  <2>3. file' = [file EXCEPT ![m] = <<l>>]
    BY <2>2 DEF Open
  <2> QED BY <1>1, <2>1, <2>3 DEF ConversationInv
<1>11. TablesOK(v, store', file')
  <2>1. PICK ls : ls = [k \in Machines |-> Long(store[k])]
    OBVIOUS
  <2>2. \A k \in Machines : ls[k] = {}
    BY <1>1, <2>1 DEF Long
  <2>3. PICK f2 : f2 = file'
    OBVIOUS
  <2>4. Ordered(v, ls, f2)
    BY <1>4, <1>5, <1>6, <1>10, <2>2, <2>3, OpenOrdered
  <2>5. TablesOK(v, store, f2)
    BY <1>1, <2>1, <2>4 DEF TablesOK
  <2>6. PICK s2 : s2 = store'
    OBVIOUS
  <2>7. TablesOK(v, s2, f2)
    BY <1>8, <1>9, <2>5, <2>6, MarkOrdered
  <2> QED BY <2>3, <2>6, <2>7
<1>12. ViewOK(View)'
  <2>1. ViewOK(View')
    BY <1>6
  <2> QED BY <2>1 DEF ViewOK, Base, Ms, Step
<1>13. TablesOK(View, store, file)'
  BY <1>11
<1> QED BY <1>4, <1>12, <1>13 DEF CodexInv

-------------------------------------------------------------------------------
OrdersInv == OrderInv /\ (cli = "codex" => CodexInv)

LEMMA StutterCodex ==
  ASSUME ConversationInv, ConversationInv', CodexInv, cli = "codex", UNCHANGED transportVars
  PROVE  CodexInv'
<1>1. UNCHANGED <<cli, flip, record>> /\ file' = file /\ store' = store /\ started' = started
  BY DEF transportVars
<1>2. CASE record = <<>>
  BY <1>1, <1>2 DEF CodexInv, Nothing
<1>3. CASE record # <<>>
  <2>. PICK v : v = View
    OBVIOUS
  <2> QED BY <1>1, <1>3, CodexRest
<1> QED BY <1>2, <1>3

LEMMA NextCodex ==
  ASSUME ConversationInv, ConversationInv', CodexInv, cli = "codex", [TransportNext]_transportVars
  PROVE  CodexInv'
<1>1. CASE UNCHANGED transportVars
  BY <1>1, StutterCodex
<1>2. ASSUME NEW m \in Machines, NEW captured, Open(m, captured) PROVE CodexInv'
  BY <1>2, OpenCodex
<1>3. ASSUME NEW m \in Machines, NEW what \in Written, NEW captured,
             NEW text \in IF what = "prompt" THEN Texts ELSE {0},
             NEW call \in IF what = "result" THEN OpenCalls(m) ELSE {0},
             Write(m, what, text, call, captured)
      PROVE  CodexInv'
  <2>1. text \in Nat
    BY TransportAssumption
  <2>2. call \in Nat /\ (what = "result" => call \in OpenCalls(m))
    BY OpenCallsAre
  <2> QED BY <1>3, <2>1, <2>2, WriteCodex
<1>4. ASSUME NEW m \in Machines, Stop(m) PROVE CodexInv'
  BY <1>4, StopCodex
<1>5. ASSUME NEW m \in Machines, Sweep(m) PROVE CodexInv'
  BY <1>5, SweepCodex
<1>6. ASSUME NEW m \in Machines, NEW from \in Machines, Sync(m, from) PROVE CodexInv'
  <2>1. /\ UNCHANGED <<cli, flip, record, file>> /\ store' = [store EXCEPT ![m] = Pulled(m, from)]
        /\ started' = [started EXCEPT ![m] = IF @ = 0 THEN started[from] ELSE @]
    BY <1>6 DEF Sync, Pulled
  <2> QED BY <2>1, PullCodex
<1>7. ASSUME NEW m \in Machines, NEW from \in Machines, Resume(m, from) PROVE CodexInv'
  <2>1. ResolveSession(m, from)
    BY <1>7 DEF Resume
  <2>2. CASE Prime(m, from)
    <3>1. /\ UNCHANGED <<cli, flip, record, file>> /\ store' = [store EXCEPT ![m] = Pulled(m, from)]
          /\ started' = [started EXCEPT ![m] = IF @ = 0 THEN started[from] ELSE @]
      BY <2>1, <2>2 DEF Prime, ResolveSession
    <3> QED BY <3>1, PullCodex
  <2>3. ASSUME NEW captured, Replay(m, from, captured) PROVE CodexInv'
    BY <2>1, <2>3, ReplayCodex
  <2> QED BY <1>7, <2>2, <2>3 DEF Resume
<1> QED BY <1>1, <1>2, <1>3, <1>4, <1>5, <1>6, <1>7 DEF TransportNext

LEMMA CodexOrderFromInv == ASSUME ConversationInv, CodexInv, cli = "codex" PROVE OrderKept
<1> SUFFICES ASSUME ~LinesMissing, ~StartMoved, NEW m \in Machines,
                    NEW i \in DOMAIN file[m], NEW j \in DOMAIN file[m], i < j,
                    file[m][i].as = "line", file[m][j].as = "line",
                    OutOfOrder(file[m][i], file[m][j])
             PROVE  FALSE
  BY DEF OrderKept
<1>1. file[m] \in Seq(GoodLines) /\ i \in 1..Len(file[m])
  BY LenProperties DEF ConversationInv
<1>2. j \in 1..Len(file[m])
  BY <1>1, LenProperties
<1>3. file[m] # NoFile
  <2>1. \A k \in DOMAIN NoFile : NoFile[k].as = "none"
    BY DEF NoFile
  <2> QED BY <2>1
<1>4. record # <<>>
  BY <1>3 DEF CodexInv, Nothing
<1>. PICK v : v = View
  OBVIOUS
<1>5. ViewOK(v) /\ v.rec = record /\ TablesOK(v, store, file)
  BY <1>4 DEF CodexInv, View
<1>6. PICK L : L = Long(store[m])
  OBVIOUS
<1>7. FileShape(v, file[m]) /\ TableShape(v, L) /\ FileTable(v, file[m], L)
  BY <1>3, <1>5, <1>6 DEF TablesOK, Ordered
<1>8. \A a, b \in L : a.rec = b.rec => a = b
  BY <1>5, <1>6 DEF TablesOK, Ordered, OneRow
<1>9. file[m][j].n \notin v.rec[file[m][i].n].after
  BY <1>1, <1>2, <1>5, <1>7, <1>8, OrderedIsOrder
<1> QED BY <1>5, <1>9 DEF OutOfOrder

(* A transcript shows the lines in the order in which they were written, also *)
(* one that was read page by page, sorted by seq and written out on another   *)
(* machine: for claude while the clocks tell the lines apart, for codex,      *)
(* whose sweep gives each line a seq of its own, whatever the clocks say, if  *)
(* the transcripts miss no line and the start was not moved.                  *)
THEOREM OrderIsKept == TransportSpec => []OrderKept
<1>1. TransportInit => OrdersInv
  <2> SUFFICES ASSUME TransportInit PROVE OrdersInv
    OBVIOUS
  <2>1. OrderInv
    BY InitOrders
  <2>2. CodexInv
    BY DEF TransportInit, CodexInv, Nothing
  <2> QED BY <2>1, <2>2 DEF OrdersInv
<1>2. OrdersInv /\ [TransportNext]_transportVars => OrdersInv'
  <2> SUFFICES ASSUME OrdersInv, [TransportNext]_transportVars PROVE OrdersInv'
    OBVIOUS
  <2>1. OrderInv' /\ ConversationInv /\ ConversationInv' /\ cli' = cli
    BY NextOrders, CliStays DEF OrdersInv, OrderInv
  <2>2. cli = "codex" => CodexInv'
    BY <2>1, NextCodex DEF OrdersInv
  <2> QED BY <2>1, <2>2 DEF OrdersInv
<1>3. OrdersInv => OrderKept
  <2> SUFFICES ASSUME OrdersInv PROVE OrderKept
    OBVIOUS
  <2>1. cli \in {"claude", "codex"}
    BY TransportAssumption DEF OrdersInv, OrderInv, ConversationInv, Settings
  <2> QED BY <2>1, OrderFromInv, CodexOrderFromInv DEF OrdersInv, OrderInv
<1> QED BY <1>1, <1>2, <1>3, PTL DEF TransportSpec
===============================================================================

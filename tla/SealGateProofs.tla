----------------------------- MODULE SealGateProofs -----------------------------
(* Theorems about SealGate for any brains, rows, page sizes, logins, switches *)
(* and faults.                                                                *)
EXTENDS SealGate, FiniteSetTheorems, WellFoundedInduction, TLAPS

USE DEF Samplers, samplers, enqueue, ingest, pull, counters, others, Default

-------------------------------------------------------------------------------
(* Pages: the least rows after the cursor. *)

LEMMA HasLeast ==
  ASSUME NEW T \in SUBSET Nat, T # {}
  PROVE  \E x \in T : \A y \in T : x <= y
<1>1. PICK x \in T : \A y \in T : ~ (<<y, x>> \in OpToRel(<, Nat))
  <2>1. T \subseteq Nat
    OBVIOUS
  <2> HIDE DEF OpToRel
  <2>2. QED BY <2>1, NatLessThanWellFounded, WFMin
<1>2. \A y \in T : y < x => <<y, x>> \in OpToRel(<, Nat)
  BY DEF OpToRel
<1>3. \A y \in T : x <= y
  <2> SUFFICES ASSUME NEW y \in T PROVE x <= y
    OBVIOUS
  <2>1. ~(y < x)
    BY <1>1, <1>2
  <2>2. x \in Nat /\ y \in Nat
    OBVIOUS
  <2>3. QED BY <2>1, <2>2
<1>4. QED BY <1>3

LEMMA NextIsLeast ==
  ASSUME page \in SUBSET Nat, page # {}
  PROVE  Next1 \in page /\ \A q \in page : Next1 <= q
<1>1. \E r \in page : \A q \in page : r <= q
  BY HasLeast
<1>2. QED BY <1>1 DEF Next1

(* No row that a page leaves out comes before one of the page. *)
LEMMA PageIsLowest ==
  ASSUME NEW b \in Brains, NEW c \in Nat,
         NEW r \in After(b, c), r \notin Page(b, c), NEW q \in Page(b, c)
  PROVE  q < r
<1> SUFFICES ASSUME ~(q < r) PROVE FALSE
  OBVIOUS
<1> DEFINE Below(x) == {y \in After(b, c) : y < x}
<1>1. After(b, c) \subseteq Nat /\ q \in After(b, c) /\ Cardinality(Below(q)) < Limit
  BY SealAssumption DEF After, Page
<1>2. Below(r) \subseteq Below(q)
  BY <1>1
<1>3. IsFiniteSet(Below(q))
  <2>1. Below(q) \in SUBSET (0..q)
    BY <1>1
  <2>2. IsFiniteSet(0..q)
    BY <1>1, FS_Interval
  <2> HIDE DEF Below
  <2>3. QED BY <2>1, <2>2, FS_Subset
<1>4. Cardinality(Below(r)) <= Cardinality(Below(q)) /\ IsFiniteSet(Below(r))
  <2> HIDE DEF Below
  <2>1. QED BY <1>2, <1>3, FS_Subset
<1>5. Cardinality(Below(r)) \in Nat /\ Cardinality(Below(q)) \in Nat
  <2> HIDE DEF Below
  <2>1. QED BY <1>3, <1>4, FS_CardinalityType
<1>6. Cardinality(Below(r)) < Limit
  BY <1>1, <1>4, <1>5, SealAssumption
<1>7. QED BY <1>6 DEF Page

-------------------------------------------------------------------------------
(* A daemon that is down has forgotten everything. *)
Off == ~alive => shouldSeal /\ page = {} /\ \A g \in Samplers : sampler[g] = "off"

(* A decision for plaintext has an answer of the running handshake behind it. *)
Grounded == shouldSeal \/ \E g \in Samplers : sampler[g] = "done" /\ ~answer[g]

Seen(r) == <<brain, r>> \in got \cup refused \cup missed
Upto(n) == \A r \in Rows[brain] : r <= n => Seen(r)
At(n) == n # 0 => <<brain, n>> \in got

(* What an undisturbed pull has behind it: its cursor is a row that is there, *)
(* every row up to it was seen, and so was what is not in the page any more.  *)
Cursor ==
  ~mixed /\ switches = 0 =>
    /\ brain = chosen
    /\ Upto(saved) /\ At(saved)
    /\ pc # "idle" => sealer # 0 /\ Upto(cur) /\ At(cur)
    /\ pc = "open" => opener = IF shouldSeal THEN sealer ELSE 0
    /\ pc \in {"row", "open"} =>
         /\ \A q \in page : cur < q
         /\ \A r \in Rows[brain] : r <= cur \/ r \in page \/ Seen(r) \/ \A q \in page : q < r

IInv == TypeOK /\ Off /\ Grounded /\ FailClosed /\ Cursor

LEMMA InitOK == Init => IInv
<1> SUFFICES ASSUME Init PROVE IInv
  OBVIOUS
<1> USE SealAssumption
<1>1. TypeOK
  <2>1. policy \in [Brains -> {"e2e", "server-side"}]
    BY DEF Init, InitialPolicy
  <2>2. sampler \in [Samplers -> {"off", "ask", "set", "failed", "done"}]
    BY DEF Init, Sampling
  <2>3. /\ answer \in [Samplers -> BOOLEAN]
        /\ enq \in [Items -> {"new", "decide", "seal", "plain", "queued", "lost"}]
        /\ held \in [Items -> Nat]
        /\ plainBy \in [Items -> {"-", "nobody", "whoami", "default"}]
    BY DEF Init
  <2>4. /\ chosen \in Brains /\ brain \in Brains
        /\ alive \in BOOLEAN /\ shouldSeal \in BOOLEAN /\ full \in BOOLEAN /\ mixed \in BOOLEAN
        /\ sealer = 0 /\ opener = 0 /\ cur = 0 /\ saved = 0
        /\ logins = 0 /\ flips = 0 /\ switches = 0 /\ faults = 0
    BY DEF Init
  <2>5. /\ outbox = {} /\ page = {} /\ got = {} /\ refused = {} /\ missed = {} /\ alive = TRUE /\ pc = "idle"
    BY DEF Init
  <2>6. /\ {chosen, brain} \subseteq Brains
        /\ {alive, shouldSeal, full, mixed} \subseteq BOOLEAN
        /\ {sealer, opener, cur, saved, logins, flips, switches, faults} \subseteq Nat
    BY <2>4
  <2>7. /\ outbox \subseteq Items \X BOOLEAN
        /\ pc \in {"idle", "list", "row", "open"}
        /\ pc = "open" => page # {}
        /\ page \subseteq Rows[brain]
        /\ got \cup refused \cup missed \subseteq Brains \X Nat
        /\ ~alive => sealer = 0 /\ pc = "idle"
    BY <2>5
  <2>8. QED BY <2>1, <2>2, <2>3, <2>6, <2>7 DEF TypeOK
<1>2. Off /\ Grounded /\ FailClosed
  BY DEF Init, Off, Grounded, FailClosed
<1>3. Cursor
  BY DEF Init, Cursor, Upto, At, Seen
<1>4. QED BY <1>1, <1>2, <1>3 DEF IInv

LEMMA TypeStep == IInv /\ [Next]_vars => TypeOK'
<1> SUFFICES ASSUME IInv, [Next]_vars PROVE TypeOK'
  OBVIOUS
<1> USE SealAssumption
<1>0. TypeOK /\ Off
  BY DEF IInv
<1>1. CASE Up
  <2>1. sampler' \in [Samplers -> {"off", "ask", "set", "failed", "done"}]
    BY <1>1 DEF Up, Sampling
  <2>2. page' \subseteq Rows[brain'] /\ pc' # "open"
    BY <1>0, <1>1 DEF Up, Off, TypeOK
  <2>3. QED BY <1>0, <1>1, <2>1, <2>2 DEF Up, TypeOK
<1>2. CASE Down
  <2>1. sampler' \in [Samplers -> {"off", "ask", "set", "failed", "done"}]
    BY <1>2 DEF Down, Stops
  <2>2. enq' \in [Items -> {"new", "decide", "seal", "plain", "queued", "lost"}]
    BY <1>0, <1>2 DEF Down, Stops, TypeOK
  <2>3. /\ sealer' = 0 /\ alive' = FALSE /\ pc' = "idle" /\ page' = {} /\ shouldSeal' \in BOOLEAN
        /\ faults' \in Nat
        /\ UNCHANGED <<policy, chosen, brain, answer, held, outbox, plainBy,
                       cur, full, opener, saved, ingest, mixed, logins, flips, switches>>
    BY <1>0, <1>2 DEF Down, Stops, TypeOK
  <2>4. {sealer, opener, cur, saved, logins, flips, switches, faults}' \subseteq Nat
    BY <1>0, <2>3 DEF TypeOK
  <2>5. {alive, shouldSeal, full, mixed}' \subseteq BOOLEAN /\ {chosen, brain}' \subseteq Brains
    BY <1>0, <2>3 DEF TypeOK
  <2>6. /\ policy' \in [Brains -> {"e2e", "server-side"}]
        /\ answer' \in [Samplers -> BOOLEAN]
        /\ held' \in [Items -> Nat]
        /\ (outbox \subseteq Items \X BOOLEAN)'
        /\ (got \cup refused \cup missed \subseteq Brains \X Nat)'
        /\ plainBy' \in [Items -> {"-", "nobody", "whoami", "default"}]
    BY <1>0, <2>3 DEF TypeOK
  <2>7. (pc = "open" => page # {})' /\ (page \subseteq Rows[brain])' /\ pc' \in {"idle", "list", "row", "open"}
    BY <2>3
  <2>8. QED BY <2>1, <2>2, <2>3, <2>4, <2>5, <2>6, <2>7 DEF TypeOK
<1>3. CASE Unlock
  BY <1>0, <1>3 DEF Unlock, Disturb, TypeOK
<1>4. CASE Lock
  BY <1>0, <1>4 DEF Lock, Disturb, TypeOK
<1>5. ASSUME NEW b \in Brains, BrainUse(b) PROVE TypeOK'
  BY <1>0, <1>5 DEF BrainUse, TypeOK
<1>6. ASSUME NEW p \in {"e2e", "server-side"}, SetPolicy(p) PROVE TypeOK'
  BY <1>0, <1>6 DEF SetPolicy, TypeOK
<1>7. ASSUME NEW g \in Samplers, Whoami(g) PROVE TypeOK'
  <2>1. Decision(policy[brain]) \in BOOLEAN
    BY DEF Decision
  <2> HIDE DEF Decision
  <2>2. QED BY <1>0, <1>7, <2>1 DEF Whoami, TypeOK
<1>8. ASSUME NEW g \in Samplers, WhoamiFails(g) PROVE TypeOK'
  BY <1>0, <1>8 DEF WhoamiFails, TypeOK
<1>9. ASSUME NEW g \in Samplers, SetShouldSeal(g) PROVE TypeOK'
  BY <1>0, <1>9 DEF SetShouldSeal, TypeOK
<1>10. ASSUME NEW e \in Items, GetSealer(e) PROVE TypeOK'
  BY <1>0, <1>10 DEF GetSealer, TypeOK
<1>11. ASSUME NEW e \in Items, GetShouldSeal(e) PROVE TypeOK'
  BY <1>0, <1>11 DEF GetShouldSeal, TypeOK
<1>12. ASSUME NEW e \in Items, SealFails(e) PROVE TypeOK'
  BY <1>0, <1>12 DEF SealFails, TypeOK
<1>13. ASSUME NEW e \in Items, EnqueueOutbox(e) PROVE TypeOK'
  <2>1. outbox' \subseteq Items \X BOOLEAN
    <3>1. (enq[e] = "seal") \in BOOLEAN
      OBVIOUS
    <3>2. <<e, enq[e] = "seal">> \in Items \X BOOLEAN
      BY <3>1
    <3>3. outbox' = outbox \cup {<<e, enq[e] = "seal">>} /\ outbox \subseteq Items \X BOOLEAN
      BY <1>0, <1>13 DEF EnqueueOutbox, TypeOK
    <3>4. QED BY <3>2, <3>3
  <2>2. enq' \in [Items -> {"new", "decide", "seal", "plain", "queued", "lost"}]
    BY <1>0, <1>13 DEF EnqueueOutbox, TypeOK
  <2>3. UNCHANGED <<policy, chosen, alive, brain, sealer, shouldSeal, samplers, held, plainBy,
                    pull, counters>>
    BY <1>13 DEF EnqueueOutbox
  <2>4. QED BY <1>0, <2>1, <2>2, <2>3 DEF TypeOK
<1>14. CASE StartPull
  BY <1>0, <1>14 DEF StartPull, TypeOK
<1>15. CASE List
  <2>1. Page(brain, cur) \subseteq Rows[brain]
    BY DEF Page, After
  <2> HIDE DEF Page
  <2>2. QED BY <1>0, <1>15, <2>1 DEF List, TypeOK
<1>16. CASE PickSealer
  BY <1>0, <1>16 DEF PickSealer, TypeOK
<1>17. CASE Open
  <2>1. Next1 \in page /\ page \subseteq Nat /\ brain \in Brains
    BY <1>0, <1>17, NextIsLeast DEF Open, TypeOK
  <2>2. <<brain, Next1>> \in Brains \X Nat
    BY <2>1
  <2> HIDE DEF Next1, Fits
  <2>3. (got \cup refused \cup missed \subseteq Brains \X Nat)' /\ faults' \in Nat
    BY <1>0, <1>17, <2>2 DEF Open, Ingested, Refused, Misses, TypeOK
  <2>4. cur' \in Nat
    BY <1>0, <1>17, <2>1 DEF Open, TypeOK
  <2>5. QED BY <1>0, <1>17, <2>3, <2>4 DEF Open, TypeOK
<1>18. CASE OpenWiped
  BY <1>0, <1>18 DEF OpenWiped, TypeOK
<1>19. CASE OpenPanics
  <2>1. sampler' \in [Samplers -> {"off", "ask", "set", "failed", "done"}]
    BY <1>19 DEF OpenPanics, Stops
  <2>2. enq' \in [Items -> {"new", "decide", "seal", "plain", "queued", "lost"}]
    BY <1>0, <1>19 DEF OpenPanics, Stops, TypeOK
  <2>3. /\ sealer' = 0 /\ alive' = FALSE /\ pc' = "idle" /\ page' = {} /\ shouldSeal' \in BOOLEAN
        /\ faults' \in Nat
        /\ UNCHANGED <<policy, chosen, brain, answer, held, outbox, plainBy,
                       cur, full, opener, saved, ingest, mixed, logins, flips, switches>>
    BY <1>0, <1>19 DEF OpenPanics, Stops, TypeOK
  <2>4. {sealer, opener, cur, saved, logins, flips, switches, faults}' \subseteq Nat
    BY <1>0, <2>3 DEF TypeOK
  <2>5. {alive, shouldSeal, full, mixed}' \subseteq BOOLEAN /\ {chosen, brain}' \subseteq Brains
    BY <1>0, <2>3 DEF TypeOK
  <2>6. /\ policy' \in [Brains -> {"e2e", "server-side"}]
        /\ answer' \in [Samplers -> BOOLEAN]
        /\ held' \in [Items -> Nat]
        /\ (outbox \subseteq Items \X BOOLEAN)'
        /\ (got \cup refused \cup missed \subseteq Brains \X Nat)'
        /\ plainBy' \in [Items -> {"-", "nobody", "whoami", "default"}]
    BY <1>0, <2>3 DEF TypeOK
  <2>7. (pc = "open" => page # {})' /\ (page \subseteq Rows[brain])' /\ pc' \in {"idle", "list", "row", "open"}
    BY <2>3
  <2>8. QED BY <2>1, <2>2, <2>3, <2>4, <2>5, <2>6, <2>7 DEF TypeOK
<1>20. CASE SetCursor
  BY <1>0, <1>20 DEF SetCursor, TypeOK
<1>21. CASE PullFails
  BY <1>0, <1>21 DEF PullFails, TypeOK
<1>22. CASE UNCHANGED vars
  BY <1>0, <1>22 DEF vars, TypeOK
<1>23. QED BY <1>1, <1>2, <1>3, <1>4, <1>5, <1>6, <1>7, <1>8, <1>9, <1>10, <1>11, <1>12, <1>13, <1>14, <1>15, <1>16, <1>17, <1>18, <1>19, <1>20, <1>21, <1>22 DEF Next, Pulls

LEMMA OffStep == IInv /\ [Next]_vars => Off'
<1> SUFFICES ASSUME IInv, [Next]_vars PROVE Off'
  OBVIOUS
<1> USE SealAssumption
<1>0. TypeOK /\ Off
  BY DEF IInv
<1>1. CASE Up
  BY <1>0, <1>1 DEF Up, Sampling, Off, TypeOK
<1>2. CASE Down
  BY <1>0, <1>2 DEF Down, Stops, Off, TypeOK
<1>3. CASE Unlock
  BY <1>0, <1>3 DEF Unlock, Disturb, Off, TypeOK
<1>4. CASE Lock
  BY <1>0, <1>4 DEF Lock, Disturb, Off, TypeOK
<1>5. ASSUME NEW b \in Brains, BrainUse(b) PROVE Off'
  BY <1>0, <1>5 DEF BrainUse, Off, TypeOK
<1>6. ASSUME NEW p \in {"e2e", "server-side"}, SetPolicy(p) PROVE Off'
  BY <1>0, <1>6 DEF SetPolicy, Off, TypeOK
<1>7. ASSUME NEW g \in Samplers, Whoami(g) PROVE Off'
  BY <1>0, <1>7 DEF Whoami, Off, TypeOK
<1>8. ASSUME NEW g \in Samplers, WhoamiFails(g) PROVE Off'
  BY <1>0, <1>8 DEF WhoamiFails, Off, TypeOK
<1>9. ASSUME NEW g \in Samplers, SetShouldSeal(g) PROVE Off'
  BY <1>0, <1>9 DEF SetShouldSeal, Off, TypeOK
<1>10. ASSUME NEW e \in Items, GetSealer(e) PROVE Off'
  BY <1>0, <1>10 DEF GetSealer, Off, TypeOK
<1>11. ASSUME NEW e \in Items, GetShouldSeal(e) PROVE Off'
  BY <1>0, <1>11 DEF GetShouldSeal, Off, TypeOK
<1>12. ASSUME NEW e \in Items, SealFails(e) PROVE Off'
  BY <1>0, <1>12 DEF SealFails, Off, TypeOK
<1>13. ASSUME NEW e \in Items, EnqueueOutbox(e) PROVE Off'
  BY <1>0, <1>13 DEF EnqueueOutbox, Off, TypeOK
<1>14. CASE StartPull
  BY <1>0, <1>14 DEF StartPull, Off, TypeOK
<1>15. CASE List
  BY <1>0, <1>15 DEF List, Off, TypeOK
<1>16. CASE PickSealer
  BY <1>0, <1>16 DEF PickSealer, Off, TypeOK
<1>17. CASE Open
  BY <1>0, <1>17 DEF Open, Off, TypeOK
<1>18. CASE OpenWiped
  BY <1>0, <1>18 DEF OpenWiped, Off, TypeOK
<1>19. CASE OpenPanics
  BY <1>0, <1>19 DEF OpenPanics, Stops, Off, TypeOK
<1>20. CASE SetCursor
  BY <1>0, <1>20 DEF SetCursor, Off, TypeOK
<1>21. CASE PullFails
  BY <1>0, <1>21 DEF PullFails, Off, TypeOK
<1>22. CASE UNCHANGED vars
  BY <1>0, <1>22 DEF vars, Off, TypeOK
<1>23. QED BY <1>1, <1>2, <1>3, <1>4, <1>5, <1>6, <1>7, <1>8, <1>9, <1>10, <1>11, <1>12, <1>13, <1>14, <1>15, <1>16, <1>17, <1>18, <1>19, <1>20, <1>21, <1>22 DEF Next, Pulls

LEMMA GroundedStep == IInv /\ [Next]_vars => (Grounded /\ FailClosed)'
<1> SUFFICES ASSUME IInv, [Next]_vars PROVE (Grounded /\ FailClosed)'
  OBVIOUS
<1> USE SealAssumption
<1>0. TypeOK /\ Off /\ Grounded /\ FailClosed
  BY DEF IInv
<1>1. CASE Up
  BY <1>0, <1>1 DEF Up, Sampling, Grounded, FailClosed, Off, TypeOK
<1>2. CASE Down
  BY <1>0, <1>2 DEF Down, Stops, Grounded, FailClosed, Off, TypeOK
<1>3. CASE Unlock
  BY <1>0, <1>3 DEF Unlock, Disturb, Grounded, FailClosed, Off, TypeOK
<1>4. CASE Lock
  BY <1>0, <1>4 DEF Lock, Disturb, Grounded, FailClosed, Off, TypeOK
<1>5. ASSUME NEW b \in Brains, BrainUse(b) PROVE (Grounded /\ FailClosed)'
  BY <1>0, <1>5 DEF BrainUse, Grounded, FailClosed, Off, TypeOK
<1>6. ASSUME NEW p \in {"e2e", "server-side"}, SetPolicy(p) PROVE (Grounded /\ FailClosed)'
  BY <1>0, <1>6 DEF SetPolicy, Grounded, FailClosed, Off, TypeOK
<1>7. ASSUME NEW g \in Samplers, Whoami(g) PROVE (Grounded /\ FailClosed)'
  BY <1>0, <1>7 DEF Whoami, Grounded, FailClosed, Off, TypeOK
<1>8. ASSUME NEW g \in Samplers, WhoamiFails(g) PROVE (Grounded /\ FailClosed)'
  BY <1>0, <1>8 DEF WhoamiFails, Grounded, FailClosed, Off, TypeOK
<1>9. ASSUME NEW g \in Samplers, SetShouldSeal(g) PROVE (Grounded /\ FailClosed)'
  BY <1>0, <1>9 DEF SetShouldSeal, Grounded, FailClosed, Off, TypeOK
<1>10. ASSUME NEW e \in Items, GetSealer(e) PROVE (Grounded /\ FailClosed)'
  BY <1>0, <1>10 DEF GetSealer, Grounded, FailClosed, Off, TypeOK
<1>11. ASSUME NEW e \in Items, GetShouldSeal(e) PROVE (Grounded /\ FailClosed)'
  BY <1>0, <1>11 DEF GetShouldSeal, Grounded, FailClosed, Off, TypeOK
<1>12. ASSUME NEW e \in Items, SealFails(e) PROVE (Grounded /\ FailClosed)'
  BY <1>0, <1>12 DEF SealFails, Grounded, FailClosed, Off, TypeOK
<1>13. ASSUME NEW e \in Items, EnqueueOutbox(e) PROVE (Grounded /\ FailClosed)'
  BY <1>0, <1>13 DEF EnqueueOutbox, Grounded, FailClosed, Off, TypeOK
<1>14. CASE StartPull
  BY <1>0, <1>14 DEF StartPull, Grounded, FailClosed, Off, TypeOK
<1>15. CASE List
  BY <1>0, <1>15 DEF List, Grounded, FailClosed, Off, TypeOK
<1>16. CASE PickSealer
  BY <1>0, <1>16 DEF PickSealer, Grounded, FailClosed, Off, TypeOK
<1>17. CASE Open
  BY <1>0, <1>17 DEF Open, Grounded, FailClosed, Off, TypeOK
<1>18. CASE OpenWiped
  BY <1>0, <1>18 DEF OpenWiped, Grounded, FailClosed, Off, TypeOK
<1>19. CASE OpenPanics
  BY <1>0, <1>19 DEF OpenPanics, Stops, Grounded, FailClosed, Off, TypeOK
<1>20. CASE SetCursor
  BY <1>0, <1>20 DEF SetCursor, Grounded, FailClosed, Off, TypeOK
<1>21. CASE PullFails
  BY <1>0, <1>21 DEF PullFails, Grounded, FailClosed, Off, TypeOK
<1>22. CASE UNCHANGED vars
  BY <1>0, <1>22 DEF vars, Grounded, FailClosed, Off, TypeOK
<1>23. QED BY <1>1, <1>2, <1>3, <1>4, <1>5, <1>6, <1>7, <1>8, <1>9, <1>10, <1>11, <1>12, <1>13, <1>14, <1>15, <1>16, <1>17, <1>18, <1>19, <1>20, <1>21, <1>22 DEF Next, Pulls

LEMMA CursorStep == IInv /\ [Next]_vars => Cursor'
<1> SUFFICES ASSUME IInv, [Next]_vars PROVE Cursor'
  OBVIOUS
<1> USE SealAssumption
<1>0. TypeOK /\ Cursor /\ Off
  BY DEF IInv
<1>1. CASE Up
  BY <1>0, <1>1 DEF Up, Sampling, Cursor, Upto, At, Seen, TypeOK
<1>2. CASE Down
  BY <1>0, <1>2 DEF Down, Stops, Cursor, Upto, At, Seen, TypeOK
<1>3. CASE Unlock
  BY <1>0, <1>3 DEF Unlock, Disturb, Cursor, Upto, At, Seen, TypeOK
<1>4. CASE Lock
  BY <1>0, <1>4 DEF Lock, Disturb, Cursor, Upto, At, Seen, TypeOK
<1>5. ASSUME NEW b \in Brains, BrainUse(b) PROVE Cursor'
  BY <1>0, <1>5 DEF BrainUse, Cursor, Upto, At, Seen, TypeOK
<1>6. ASSUME NEW p \in {"e2e", "server-side"}, SetPolicy(p) PROVE Cursor'
  BY <1>0, <1>6 DEF SetPolicy, Cursor, Upto, At, Seen, TypeOK
<1>7. ASSUME NEW g \in Samplers, Whoami(g) PROVE Cursor'
  BY <1>0, <1>7 DEF Whoami, Cursor, Upto, At, Seen, TypeOK
<1>8. ASSUME NEW g \in Samplers, WhoamiFails(g) PROVE Cursor'
  BY <1>0, <1>8 DEF WhoamiFails, Cursor, Upto, At, Seen, TypeOK
<1>9. ASSUME NEW g \in Samplers, SetShouldSeal(g) PROVE Cursor'
  BY <1>0, <1>9 DEF SetShouldSeal, Cursor, Upto, At, Seen, TypeOK
<1>10. ASSUME NEW e \in Items, GetSealer(e) PROVE Cursor'
  BY <1>0, <1>10 DEF GetSealer, Cursor, Upto, At, Seen, TypeOK
<1>11. ASSUME NEW e \in Items, GetShouldSeal(e) PROVE Cursor'
  BY <1>0, <1>11 DEF GetShouldSeal, Cursor, Upto, At, Seen, TypeOK
<1>12. ASSUME NEW e \in Items, SealFails(e) PROVE Cursor'
  BY <1>0, <1>12 DEF SealFails, Cursor, Upto, At, Seen, TypeOK
<1>13. ASSUME NEW e \in Items, EnqueueOutbox(e) PROVE Cursor'
  BY <1>0, <1>13 DEF EnqueueOutbox, Cursor, Upto, At, Seen, TypeOK
<1>14. CASE StartPull
  BY <1>0, <1>14 DEF StartPull, Cursor, Upto, At, Seen, TypeOK
<1>15. CASE List
  <2>1. pc' = "idle" \/ (page' = Page(brain, cur) /\ pc' = "row")
    <3> HIDE DEF Page
    <3>1. page' = Page(brain, cur)
      BY <1>15 DEF List
    <3>2. pc' = IF Page(brain, cur) = {} THEN "idle" ELSE "row"
      BY <1>15 DEF List
    <3>3. QED BY <3>1, <3>2
  <2>2. UNCHANGED <<others, alive, sealer, shouldSeal, cur, opener, saved, ingest, mixed, counters>> /\ pc = "list"
    BY <1>15 DEF List
  <2>3. \A r \in Rows[brain] : r <= cur \/ r \in Page(brain, cur) \/ \A q \in Page(brain, cur) : q < r
    <3> SUFFICES ASSUME NEW r \in Rows[brain], ~(r <= cur), r \notin Page(brain, cur), NEW q \in Page(brain, cur)
                 PROVE  q < r
      OBVIOUS
    <3>1. brain \in Brains /\ cur \in Nat
      BY <1>0 DEF TypeOK
    <3>2. r \in After(brain, cur)
      BY <3>1 DEF After
    <3>3. QED BY <3>1, <3>2, PageIsLowest
  <2>4. \A q \in Page(brain, cur) : cur < q
    <3>1. cur \in Nat /\ \A q \in Rows[brain] : q \in Nat
      BY <1>0 DEF TypeOK
    <3>2. QED BY <3>1 DEF Page, After
  <2> HIDE DEF Page
  <2>5. QED BY <1>0, <2>1, <2>2, <2>3, <2>4 DEF Cursor, Upto, At, Seen
<1>16. CASE PickSealer
  BY <1>0, <1>16 DEF PickSealer, Cursor, Upto, At, Seen, TypeOK
<1>17. CASE Open
  <2> SUFFICES ASSUME ~mixed, switches = 0 PROVE Cursor'
    BY <1>17 DEF Open, Cursor
  <2>1. /\ pc = "open" /\ pc' = "row" /\ page' = page \ {Next1}
        /\ UNCHANGED <<others, alive, sealer, shouldSeal, full, opener, saved, mixed, logins, flips, switches>>
    BY <1>17 DEF Open
  <2>2. /\ brain = chosen /\ Upto(saved) /\ At(saved) /\ sealer # 0 /\ Upto(cur) /\ At(cur)
        /\ \A q \in page : cur < q
        /\ \A r \in Rows[brain] : r <= cur \/ r \in page \/ Seen(r) \/ \A q \in page : q < r
    BY <1>0, <2>1 DEF Cursor
  <2>3. Next1 \in page /\ (\A q \in page : Next1 <= q) /\ page \subseteq Nat /\ cur \in Nat
    BY <1>0, <2>1, NextIsLeast DEF TypeOK
  <2>4. \A r \in Rows[brain] : r \in Nat
    BY <1>0 DEF TypeOK
  <2>5. /\ got \cup refused \cup missed \subseteq (got \cup refused \cup missed)'
        /\ got \subseteq got' /\ <<brain, Next1>> \in (got \cup refused \cup missed)'
        /\ cur' = cur \/ (cur' = Next1 /\ <<brain, Next1>> \in got')
    <3> HIDE DEF Next1, Fits
    <3>1. CASE Ingested /\ cur' = Next1
      BY <3>1 DEF Ingested
    <3>2. CASE (Refused \/ Misses) /\ cur' = cur
      BY <3>2 DEF Refused, Misses
    <3>3. QED BY <1>17, <3>1, <3>2 DEF Open
  <2> HIDE DEF Next1
  <2>6. /\ \A r : r = Next1 \/ Seen(r) => Seen(r)'
        /\ Rows[brain]' = Rows[brain]
    BY <2>1, <2>5 DEF Seen
  <2>7. Upto(saved)' /\ At(saved)'
    BY <2>1, <2>2, <2>5, <2>6 DEF Upto, At
  <2>8. \A r \in Rows[brain] : r <= cur' \/ r \in page' \/ Seen(r)' \/ \A q \in page' : q < r
    <3> SUFFICES ASSUME NEW r \in Rows[brain], ~(r <= cur'), r \notin page', ~Seen(r)', NEW q \in page'
                 PROVE  q < r
      OBVIOUS
    <3>1. r \in Nat /\ Next1 \in Nat /\ cur < Next1 /\ q \in page /\ r # Next1
      BY <2>1, <2>2, <2>3, <2>4, <2>6
    <3>2. r \notin page /\ ~(r <= cur) /\ ~Seen(r)
      BY <2>1, <2>3, <2>5, <2>6, <3>1
    <3>3. QED BY <2>2, <3>1, <3>2
  <2>9. \A q \in page' : cur' < q
    <3> SUFFICES ASSUME NEW q \in page' PROVE cur' < q
      OBVIOUS
    <3>1. q \in page /\ q # Next1 /\ Next1 <= q /\ q \in Nat /\ Next1 \in Nat
      BY <2>1, <2>3
    <3>2. QED BY <2>2, <2>3, <2>5, <3>1
  <2>10. Upto(cur)' /\ At(cur)'
    <3>1. CASE cur' = cur
      BY <2>1, <2>2, <2>5, <2>6, <3>1 DEF Upto, At
    <3>2. CASE cur' = Next1 /\ <<brain, Next1>> \in got'
      <4>1. ASSUME NEW r \in Rows[brain], r <= Next1 PROVE Seen(r)'
        <5>1. r \in Nat /\ Next1 \in Nat /\ ~(Next1 < r)
          BY <2>3, <2>4, <4>1
        <5>2. r <= cur \/ r \in page \/ Seen(r)
          BY <2>2, <2>3, <5>1
        <5>3. r \in page => r = Next1
          BY <2>3, <4>1, <5>1
        <5>4. r <= cur => Seen(r)
          BY <2>2 DEF Upto
        <5>5. QED BY <2>6, <5>2, <5>3, <5>4
      <4>2. QED BY <2>1, <2>6, <3>2, <4>1 DEF Upto, At
    <3>3. QED BY <2>5, <3>1, <3>2
  <2>11. QED BY <2>1, <2>2, <2>6, <2>7, <2>8, <2>9, <2>10 DEF Cursor
<1>18. CASE OpenWiped
  BY <1>0, <1>18 DEF OpenWiped, Cursor, Upto, At, Seen, TypeOK
<1>19. CASE OpenPanics
  BY <1>0, <1>19 DEF OpenPanics, Stops, Cursor, Upto, At, Seen, TypeOK
<1>20. CASE SetCursor
  BY <1>0, <1>20 DEF SetCursor, Cursor, Upto, At, Seen, TypeOK
<1>21. CASE PullFails
  BY <1>0, <1>21 DEF PullFails, Cursor, Upto, At, Seen, TypeOK
<1>22. CASE UNCHANGED vars
  BY <1>0, <1>22 DEF vars, Cursor, Upto, At, Seen, TypeOK
<1>23. QED BY <1>1, <1>2, <1>3, <1>4, <1>5, <1>6, <1>7, <1>8, <1>9, <1>10, <1>11, <1>12, <1>13, <1>14, <1>15, <1>16, <1>17, <1>18, <1>19, <1>20, <1>21, <1>22 DEF Next, Pulls

-------------------------------------------------------------------------------
THEOREM InvHolds == Spec => []IInv
<1>1. IInv /\ [Next]_vars => IInv'
  BY TypeStep, OffStep, GroundedStep, CursorStep DEF IInv
<1>2. QED BY InitOK, <1>1, PTL DEF Spec

(* Every variable keeps its type: no pull runs in a daemon that is down, and a *)
(* row that is being opened is a row of the page.                              *)
THEOREM TypeCorrect == Spec => []TypeOK
<1>1. IInv => TypeOK
  BY DEF IInv
<1>2. QED BY InvHolds, <1>1, PTL

(* A machine that is logged in leaves a row plain only on an answer of this    *)
(* process' own handshake (sync.go:91).                                        *)
THEOREM PlaintextIsDecided == Spec => []FailClosed
<1>1. IInv => FailClosed
  BY DEF IInv
<1>2. QED BY InvHolds, <1>1, PTL

(* While nothing changes under a pull and the brain stays, the cursor stands   *)
(* at a row that was ingested and passes none but those that had the other     *)
(* form or of which a statement failed (sync.go:669-683), for any rows, forms  *)
(* and page size.                                                              *)
THEOREM CursorIsSafe == Spec => []NoneSkipped
<1>1. IInv => NoneSkipped
  BY DEF IInv, Cursor, Upto, At, Seen, NoneSkipped, Passed
<1>2. QED BY InvHolds, <1>1, PTL
===============================================================================

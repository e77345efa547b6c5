----------------------------- MODULE AccountsProofs -----------------------------
(* Theorems about Accounts for any calls, machines, lifetimes and faults. *)
EXTENDS Accounts, TLAPS

USE DEF Goto, Some, Never, Signup, locals, account, pairing, machines

-------------------------------------------------------------------------------
(* Which verb comes to which statement, and what it has by then. *)
Doing(c) ==
  /\ pc[c] \in {"check", "insert", "provision"} => Kind[c] = "register"
  /\ pc[c] \in {"challenge", "verify"} => Kind[c] \in {"login", "invite"}
  /\ pc[c] \in {"publish", "sweep", "own"} => Kind[c] = "invite"
  /\ pc[c] = "read" => Kind[c] \in {"logout", "invite"}
  /\ pc[c] \in {"get", "claim", "record", "lockout", "forget", "clear"} => Kind[c] = "accept"
  /\ pc[c] = "mint" => Kind[c] \in {"register", "login", "invite", "accept"}
  /\ pc[c] = "put" => Kind[c] \in {"register", "login", "accept"}
  /\ pc[c] = "unlock" => Kind[c] \in {"login", "accept"}
  /\ pc[c] \in {"revoke", "delete", "lock"} => Kind[c] = "logout"
  /\ Kind[c] = "invite" /\ pc[c] \in {"mint", "read", "publish"} => got[c] # None

(* The account row is the first registration's, and stays. *)
Kept(c) ==
  /\ Kind[c] = "register" /\ pc[c] \in {"mint", "provision", "put", "ok"} => user = c
  /\ Kind[c] = "register" /\ pc[c] = "mint" => brain = 0
  /\ pc[c] = "provision" => brain < 3
  /\ Kind[c] = "register" /\ pc[c] \in {"put", "ok"} => brain = 3

Registered == (\A c \in Calls : Kept(c)) /\ (user = None => brain = 0)

(* One KEK is all that anyone has of the account. *)
OneKek ==
  /\ \A c \in Calls : got[c] \in {None, user}
  /\ \A i \in DOMAIN codes : codes[i].kek = user
  /\ \A m \in Machines : sealer[m] \in {None, user}

(* An invite that has printed its code publishes no other. *)
Past(i) == i \in Calls /\ Kind[i] = "invite" /\ pc[i] \in {"own"} \cup Ends

Claiming(c) ==
  Kind[c] = "accept" /\ pc[c] \in {"claim", "record", "lockout", "forget", "clear", "mint"}

Won(c, i) ==
  \/ Kind[c] = "accept" /\ pc[c] \in {"clear", "mint"} /\ claim[c].code = i
  \/ <<c, i>> \in paired

(* A code that was won is claimed or gone, and was won once. *)
Spent ==
  /\ \A c \in Calls : Claiming(c) => Past(claim[c].code)
  /\ \A c \in Calls, i \in Some : Won(c, i) => Past(i) /\ (i \in DOMAIN codes => codes[i].claimed)
  /\ \A c \in Calls, d \in Calls, i \in Some : Won(c, i) /\ Won(d, i) => c = d

IInv ==
  /\ TypeOK
  /\ \A c \in Calls : Doing(c)
  /\ Registered
  /\ OneKek
  /\ Spent

LEMMA InitOK == Init => IInv
<1> SUFFICES ASSUME Init PROVE IInv
  OBVIOUS
<1> USE AccountsAssumption
<1>1. \A c \in Calls : /\ pc[c] \in {"check", "challenge", "read", "get"}
                       /\ pc[c] = "check" <=> Kind[c] = "register"
                       /\ pc[c] = "challenge" <=> Kind[c] \in {"login", "invite"}
                       /\ pc[c] = "read" <=> Kind[c] = "logout"
                       /\ pc[c] = "get" <=> Kind[c] = "accept"
  BY DEF Init, First
<1>2. TypeOK
  <2>1. pc \in [Calls -> Pcs]
    BY <1>1 DEF Init, Pcs
  <2>2. devices \in [DOMAIN devices -> Nat] /\ DOMAIN devices \subseteq Calls
    BY DEF Init
  <2>3. codes \in [DOMAIN codes -> Code] /\ DOMAIN codes \subseteq Calls
    BY DEF Init
  <2>4. QED BY <2>1, <2>2, <2>3 DEF Init, TypeOK
<1>3. \A c \in Calls : Doing(c)
  BY <1>1 DEF Init, Doing
<1>4. Registered
  BY <1>1 DEF Init, Registered, Kept
<1>5. OneKek
  BY DEF Init, OneKek
<1>6. Spent
  BY <1>1 DEF Init, Spent, Claiming, Won
<1>7. QED BY <1>2, <1>3, <1>4, <1>5, <1>6 DEF IInv

-------------------------------------------------------------------------------
(* A step of one call that wins no code and takes up no claim. *)
Quiet == {"claim", "record", "lockout", "forget", "clear", "mint"}

Moves(c) ==
  /\ UNCHANGED <<claim, paired>>
  /\ \A d \in Calls : d # c => pc'[d] = pc[d]
  /\ Kind[c] = "accept" /\ pc'[c] \in Quiet =>
       /\ pc[c] \in Quiet
       /\ pc'[c] \in {"clear", "mint"} => pc[c] \in {"clear", "mint"}
  /\ Kind[c] = "invite" /\ pc[c] \in {"own"} \cup Ends => pc'[c] \in {"own"} \cup Ends

Fewer ==
  \A i \in DOMAIN codes' : i \in DOMAIN codes /\ codes'[i] = codes[i]

LEMMA StillSpent ==
  ASSUME TypeOK, Spent, NEW c \in Calls, Moves(c), Fewer
  PROVE  Spent'
<1>1. \A d \in Calls, i \in Some : Won(d, i)' => Won(d, i)
  BY DEF Moves, Quiet, Won
<1>2. \A i \in Some : Past(i) => Past(i)'
  BY DEF Moves, Past
<1>3. \A d \in Calls : Claiming(d)' => Claiming(d) /\ claim[d].code \in Some
  BY DEF Moves, Quiet, Claiming, TypeOK
<1>4. claim' = claim
  BY DEF Moves
<1>5. QED BY <1>1, <1>2, <1>3, <1>4 DEF Spent, Fewer

LEMMA TypeStep == IInv /\ [Next]_vars => TypeOK'
<1> SUFFICES ASSUME IInv, [Next]_vars PROVE TypeOK'
  OBVIOUS
<1> USE AccountsAssumption
<1>0. TypeOK /\ \A c \in Calls : Doing(c) /\ Kept(c)
  BY DEF IInv, Registered
<1>1. ASSUME NEW c \in Calls, Check(c) PROVE TypeOK'
  BY <1>0, <1>1 DEF Check, TypeOK, Pcs, Ends
<1>2. ASSUME NEW c \in Calls, Insert(c) PROVE TypeOK'
  BY <1>0, <1>2 DEF Insert, TypeOK, Pcs, Ends
<1>3. ASSUME NEW c \in Calls, Provision(c) PROVE TypeOK'
  <2>1. brain' \in 0..3
    BY <1>0, <1>3 DEF Provision, TypeOK, Kept
  <2>2. QED BY <1>0, <1>3, <2>1 DEF Provision, TypeOK, Pcs, Ends
<1>4. ASSUME NEW c \in Calls, Challenge(c) PROVE TypeOK'
  BY <1>0, <1>4 DEF Challenge, TypeOK, Pcs, Ends
<1>5. ASSUME NEW c \in Calls, Verify(c) PROVE TypeOK'
  BY <1>0, <1>5 DEF Verify, Unwraps, TypeOK, Pcs, Ends
<1>6. ASSUME NEW c \in Calls, Mint(c) PROVE TypeOK'
  <2>1. devices' \in [DOMAIN devices' -> Nat] /\ DOMAIN devices' \subseteq Calls
    <3> DEFINE v == IF Kind[c] = "invite" THEN now + ShortTtl ELSE Never
    <3>1. v \in Nat /\ devices' = With(devices, c, v)
      BY <1>0, <1>6 DEF Mint, TypeOK
    <3> HIDE DEF v
    <3>2. /\ devices \in [DOMAIN devices -> Nat] /\ DOMAIN devices \subseteq Calls
      BY <1>0 DEF TypeOK
    <3>3. QED BY <3>1, <3>2 DEF With
  <2>2. pc' \in [Calls -> Pcs]
    <3>1. AfterMint[Kind[c]] \in Pcs
      BY <1>0, <1>6 DEF Mint, AfterMint, Doing, Pcs
    <3>2. QED BY <1>0, <1>6, <3>1 DEF Mint, TypeOK
  <2>3. paired' \in SUBSET (Calls \X Some)
    BY <1>0, <1>6 DEF Mint, TypeOK
  <2>4. UNCHANGED <<got, tok, claim, account, pairing, machines, now, faults>>
    BY <1>6 DEF Mint
  <2>5. QED BY <1>0, <2>1, <2>2, <2>3, <2>4 DEF TypeOK
<1>7. ASSUME NEW c \in Calls, Revoke(c) PROVE TypeOK'
  <2>1. devices' \in [DOMAIN devices' -> Nat] /\ DOMAIN devices' \subseteq Calls
    <3>1. devices \in [DOMAIN devices -> Nat] /\ DOMAIN devices \subseteq Calls
      BY <1>0 DEF TypeOK
    <3>2. \E x \in Some : devices' = Without(devices, x)
      BY <1>0, <1>7 DEF Revoke, TypeOK
    <3>3. QED BY <3>1, <3>2 DEF Without
  <2>2. pc' \in [Calls -> Pcs]
    BY <1>0, <1>7 DEF Revoke, TypeOK, Pcs, Ends
  <2>3. UNCHANGED <<got, tok, claim, account, pairing, machines, now, faults, paired>>
    BY <1>7 DEF Revoke
  <2>4. QED BY <1>0, <2>1, <2>2, <2>3 DEF TypeOK
<1>8. ASSUME NEW c \in Calls, Publish(c) PROVE TypeOK'
  <2>1. devices' \in [DOMAIN devices' -> Nat] /\ DOMAIN devices' \subseteq Calls
    <3>1. devices' = devices \/ devices' = Without(devices, tok[c])
      BY <1>8 DEF Publish
    <3>2. devices \in [DOMAIN devices -> Nat] /\ DOMAIN devices \subseteq Calls
      BY <1>0 DEF TypeOK
    <3>3. QED BY <3>1, <3>2 DEF Without
  <2>2. codes' \in [DOMAIN codes' -> Code] /\ DOMAIN codes' \subseteq Calls
    <3> DEFINE row == [kek |-> got[c], exp |-> now + CodeTtl, claimed |-> FALSE]
    <3>1. codes' = codes \/ codes' = With(codes, c, row)
      BY <1>8 DEF Publish
    <3>2. row \in Code
      BY <1>0, <1>8 DEF Publish, Code, TypeOK, Doing
    <3> HIDE DEF row
    <3>3. codes \in [DOMAIN codes -> Code] /\ DOMAIN codes \subseteq Calls
      BY <1>0 DEF TypeOK
    <3>4. QED BY <3>1, <3>2, <3>3 DEF With
  <2>3. pc' \in [Calls -> Pcs]
    BY <1>0, <1>8 DEF Publish, TypeOK, Pcs
  <2>4. UNCHANGED <<got, tok, claim, account, attempts, machines, now, faults, paired>>
    BY <1>8 DEF Publish
  <2>5. QED BY <1>0, <2>1, <2>2, <2>3, <2>4 DEF TypeOK
<1>9. ASSUME NEW c \in Calls, SweepExpired(c) PROVE TypeOK'
  <2>1. codes' \in [DOMAIN codes' -> Code] /\ DOMAIN codes' \subseteq Calls
    BY <1>0, <1>9 DEF SweepExpired, TypeOK
  <2>2. pc' \in [Calls -> Pcs]
    BY <1>0, <1>9 DEF SweepExpired, TypeOK, Pcs
  <2>3. UNCHANGED <<got, tok, claim, account, devices, attempts, machines, now, faults, paired>>
    BY <1>9 DEF SweepExpired
  <2>4. QED BY <1>0, <2>1, <2>2, <2>3 DEF TypeOK
<1>10. ASSUME NEW c \in Calls, NEW i \in Calls, GetCode(c, i) PROVE TypeOK'
  <2>1. claim' \in [Calls -> [code : Some, at : Nat]]
    BY <1>0, <1>10 DEF GetCode, TypeOK
  <2>2. got' \in [Calls -> Some]
    <3>1. i \in DOMAIN codes => codes[i].kek \in Calls
      BY <1>0 DEF TypeOK, Code
    <3>2. QED BY <1>0, <1>10, <3>1 DEF GetCode, TypeOK
  <2>3. pc' \in [Calls -> Pcs]
    <3>1. \E s \in {"failed", "gone", "lockout", "claim", "record"} : pc' = [pc EXCEPT ![c] = s]
      BY <1>10 DEF GetCode
    <3>2. QED BY <1>0, <3>1 DEF TypeOK, Pcs, Ends
  <2>4. UNCHANGED <<tok, account, devices, pairing, machines, now, faults, paired>>
    BY <1>10 DEF GetCode
  <2>5. QED BY <1>0, <2>1, <2>2, <2>3, <2>4 DEF TypeOK
<1>11. ASSUME NEW c \in Calls, RecordFailure(c) PROVE TypeOK'
  <2>1. attempts' \in [Calls -> Nat]
    <3>1. attempts' = [attempts EXCEPT ![claim[c].code] = attempts[claim[c].code] + 1]
      BY <1>11 DEF RecordFailure
    <3>2. attempts \in [Calls -> Nat]
      BY <1>0 DEF TypeOK
    <3>3. CASE claim[c].code \in Calls
      BY <3>1, <3>2, <3>3
    <3>4. CASE claim[c].code \notin Calls
      BY <3>1, <3>2, <3>4
    <3>5. QED BY <3>3, <3>4
  <2>2. pc' \in [Calls -> Pcs]
    BY <1>0, <1>11 DEF RecordFailure, TypeOK, Pcs, Ends
  <2>3. UNCHANGED <<got, tok, claim, account, devices, codes, machines, now, faults, paired>>
    BY <1>11 DEF RecordFailure
  <2>4. QED BY <1>0, <2>1, <2>2, <2>3 DEF TypeOK
<1>12. ASSUME NEW c \in Calls, Lockout(c) PROVE TypeOK'
  <2>1. codes' \in [DOMAIN codes' -> Code] /\ DOMAIN codes' \subseteq Calls
    <3>1. codes' = Without(codes, claim[c].code)
      BY <1>12 DEF Lockout
    <3>2. codes \in [DOMAIN codes -> Code] /\ DOMAIN codes \subseteq Calls
      BY <1>0 DEF TypeOK
    <3>3. QED BY <3>1, <3>2 DEF Without
  <2>2. pc' \in [Calls -> Pcs]
    BY <1>0, <1>12 DEF Lockout, TypeOK, Pcs, Ends
  <2>3. UNCHANGED <<got, tok, claim, account, devices, attempts, machines, now, faults, paired>>
    BY <1>12 DEF Lockout
  <2>4. QED BY <1>0, <2>1, <2>2, <2>3 DEF TypeOK
<1>13. ASSUME NEW c \in Calls, Claim(c) PROVE TypeOK'
  <2>1. codes' \in [DOMAIN codes' -> Code] /\ DOMAIN codes' \subseteq Calls
    <3> DEFINE i == claim[c].code
    <3>1. codes \in [DOMAIN codes -> Code] /\ DOMAIN codes \subseteq Calls
      BY <1>0 DEF TypeOK
    <3>2. CASE codes' = codes
      BY <3>1, <3>2
    <3>3. CASE i \in DOMAIN codes /\ codes' = [codes EXCEPT ![i].claimed = TRUE]
      <4>1. [codes[i] EXCEPT !.claimed = TRUE] \in Code
        BY <3>1, <3>3 DEF Code
      <4>2. QED BY <3>1, <3>3, <4>1
    <3>4. QED BY <1>13, <3>2, <3>3 DEF Claim
  <2>2. pc' \in [Calls -> Pcs]
    BY <1>0, <1>13 DEF Claim, TypeOK, Pcs, Ends
  <2>3. UNCHANGED <<got, tok, claim, account, devices, attempts, machines, now, faults, paired>>
    BY <1>13 DEF Claim
  <2>4. QED BY <1>0, <2>1, <2>2, <2>3 DEF TypeOK
<1>14. ASSUME NEW c \in Calls, ClearAttempts(c) PROVE TypeOK'
  BY <1>0, <1>14 DEF ClearAttempts, TypeOK, Pcs, Ends
<1>15. ASSUME NEW c \in Calls, Put(c) PROVE TypeOK'
  BY <1>0, <1>15 DEF Put, TypeOK, Pcs, Ends
<1>16. ASSUME NEW c \in Calls, Unlock(c) PROVE TypeOK'
  BY <1>0, <1>16 DEF Unlock, TypeOK, Pcs, Ends
<1>17. ASSUME NEW c \in Calls, ReadToken(c) PROVE TypeOK'
  BY <1>0, <1>17 DEF ReadToken, TypeOK, Pcs, Ends
<1>18. ASSUME NEW c \in Calls, DeleteToken(c) PROVE TypeOK'
  BY <1>0, <1>18 DEF DeleteToken, TypeOK, Pcs, Ends
<1>19. ASSUME NEW c \in Calls, Lock(c) PROVE TypeOK'
  BY <1>0, <1>19 DEF Lock, TypeOK, Pcs, Ends
<1>20. ASSUME NEW c \in Calls, Fail(c) PROVE TypeOK'
  BY <1>0, <1>20 DEF Fail, AfterFault, Ends, TypeOK, Pcs, Ends
<1>21. ASSUME NEW m \in Machines, DaemonStops(m) PROVE TypeOK'
  BY <1>0, <1>21 DEF DaemonStops, TypeOK, Pcs, Ends
<1>22. CASE RestartServer
  BY <1>0, <1>22 DEF RestartServer, AfterFault, InServer, Ends, TypeOK, Pcs, Ends
<1>23. CASE Tick
  BY <1>0, <1>23 DEF Tick, TypeOK, Pcs, Ends
<1>24. CASE UNCHANGED vars
  BY <1>0, <1>24 DEF vars, TypeOK, Pcs, Ends
<1>25. QED BY <1>1, <1>2, <1>3, <1>4, <1>5, <1>6, <1>7, <1>8, <1>9, <1>10, <1>11, <1>12, <1>13, <1>14, <1>15, <1>16, <1>17, <1>18, <1>19, <1>20, <1>21, <1>22, <1>23, <1>24 DEF Next, ServerStep, ClientStep

LEMMA DoingStep == IInv /\ [Next]_vars => \A d \in Calls : Doing(d)'
<1> SUFFICES ASSUME IInv, [Next]_vars, NEW d \in Calls PROVE Doing(d)'
  OBVIOUS
<1> USE AccountsAssumption
<1>0. TypeOK /\ \A c \in Calls : Doing(c)
  BY DEF IInv
<1>1. ASSUME NEW c \in Calls, Check(c) PROVE Doing(d)'
  BY <1>0, <1>1 DEF Check, Doing, TypeOK
<1>2. ASSUME NEW c \in Calls, Insert(c) PROVE Doing(d)'
  BY <1>0, <1>2 DEF Insert, Doing, TypeOK
<1>3. ASSUME NEW c \in Calls, Provision(c) PROVE Doing(d)'
  BY <1>0, <1>3 DEF Provision, Doing, TypeOK
<1>4. ASSUME NEW c \in Calls, Challenge(c) PROVE Doing(d)'
  BY <1>0, <1>4 DEF Challenge, Doing, TypeOK
<1>5. ASSUME NEW c \in Calls, Verify(c) PROVE Doing(d)'
  BY <1>0, <1>5 DEF Verify, Unwraps, Doing, TypeOK
<1>6. ASSUME NEW c \in Calls, Mint(c) PROVE Doing(d)'
  BY <1>0, <1>6 DEF Mint, AfterMint, Doing, TypeOK
<1>7. ASSUME NEW c \in Calls, Revoke(c) PROVE Doing(d)'
  BY <1>0, <1>7 DEF Revoke, Doing, TypeOK
<1>8. ASSUME NEW c \in Calls, Publish(c) PROVE Doing(d)'
  BY <1>0, <1>8 DEF Publish, Doing, TypeOK
<1>9. ASSUME NEW c \in Calls, SweepExpired(c) PROVE Doing(d)'
  BY <1>0, <1>9 DEF SweepExpired, Doing, TypeOK
<1>10. ASSUME NEW c \in Calls, NEW i \in Calls, GetCode(c, i) PROVE Doing(d)'
  BY <1>0, <1>10 DEF GetCode, Printed, Doing, TypeOK
<1>11. ASSUME NEW c \in Calls, RecordFailure(c) PROVE Doing(d)'
  BY <1>0, <1>11 DEF RecordFailure, Doing, TypeOK
<1>12. ASSUME NEW c \in Calls, Lockout(c) PROVE Doing(d)'
  BY <1>0, <1>12 DEF Lockout, Doing, TypeOK
<1>13. ASSUME NEW c \in Calls, Claim(c) PROVE Doing(d)'
  BY <1>0, <1>13 DEF Claim, Doing, TypeOK
<1>14. ASSUME NEW c \in Calls, ClearAttempts(c) PROVE Doing(d)'
  BY <1>0, <1>14 DEF ClearAttempts, Doing, TypeOK
<1>15. ASSUME NEW c \in Calls, Put(c) PROVE Doing(d)'
  BY <1>0, <1>15 DEF Put, Doing, TypeOK
<1>16. ASSUME NEW c \in Calls, Unlock(c) PROVE Doing(d)'
  BY <1>0, <1>16 DEF Unlock, Doing, TypeOK
<1>17. ASSUME NEW c \in Calls, ReadToken(c) PROVE Doing(d)'
  BY <1>0, <1>17 DEF ReadToken, Doing, TypeOK
<1>18. ASSUME NEW c \in Calls, DeleteToken(c) PROVE Doing(d)'
  BY <1>0, <1>18 DEF DeleteToken, Doing, TypeOK
<1>19. ASSUME NEW c \in Calls, Lock(c) PROVE Doing(d)'
  BY <1>0, <1>19 DEF Lock, Doing, TypeOK
<1>20. ASSUME NEW c \in Calls, Fail(c) PROVE Doing(d)'
  BY <1>0, <1>20 DEF Fail, AfterFault, Ends, Doing, TypeOK
<1>21. ASSUME NEW m \in Machines, DaemonStops(m) PROVE Doing(d)'
  BY <1>0, <1>21 DEF DaemonStops, Doing, TypeOK
<1>22. CASE RestartServer
  BY <1>0, <1>22 DEF RestartServer, AfterFault, InServer, Ends, Doing, TypeOK
<1>23. CASE Tick
  BY <1>0, <1>23 DEF Tick, Doing, TypeOK
<1>24. CASE UNCHANGED vars
  BY <1>0, <1>24 DEF vars, Doing, TypeOK
<1>25. QED BY <1>1, <1>2, <1>3, <1>4, <1>5, <1>6, <1>7, <1>8, <1>9, <1>10, <1>11, <1>12, <1>13, <1>14, <1>15, <1>16, <1>17, <1>18, <1>19, <1>20, <1>21, <1>22, <1>23, <1>24 DEF Next, ServerStep, ClientStep

LEMMA RegisteredStep == IInv /\ [Next]_vars => Registered'
<1> SUFFICES ASSUME IInv, [Next]_vars PROVE Registered'
  OBVIOUS
<1> USE AccountsAssumption
<1>0. TypeOK /\ Registered /\ \A c \in Calls : Doing(c)
  BY DEF IInv
<1>1. ASSUME NEW c \in Calls, Check(c) PROVE Registered'
  BY <1>0, <1>1 DEF Check, Registered, Kept, Doing, TypeOK
<1>2. ASSUME NEW c \in Calls, Insert(c) PROVE Registered'
  BY <1>0, <1>2 DEF Insert, Registered, Kept, Doing, TypeOK
<1>3. ASSUME NEW c \in Calls, Provision(c) PROVE Registered'
  BY <1>0, <1>3 DEF Provision, Registered, Kept, Doing, TypeOK
<1>4. ASSUME NEW c \in Calls, Challenge(c) PROVE Registered'
  BY <1>0, <1>4 DEF Challenge, Registered, Kept, Doing, TypeOK
<1>5. ASSUME NEW c \in Calls, Verify(c) PROVE Registered'
  BY <1>0, <1>5 DEF Verify, Unwraps, Registered, Kept, Doing, TypeOK
<1>6. ASSUME NEW c \in Calls, Mint(c) PROVE Registered'
  BY <1>0, <1>6 DEF Mint, AfterMint, Registered, Kept, Doing, TypeOK
<1>7. ASSUME NEW c \in Calls, Revoke(c) PROVE Registered'
  BY <1>0, <1>7 DEF Revoke, Registered, Kept, Doing, TypeOK
<1>8. ASSUME NEW c \in Calls, Publish(c) PROVE Registered'
  BY <1>0, <1>8 DEF Publish, Registered, Kept, Doing, TypeOK
<1>9. ASSUME NEW c \in Calls, SweepExpired(c) PROVE Registered'
  BY <1>0, <1>9 DEF SweepExpired, Registered, Kept, Doing, TypeOK
<1>10. ASSUME NEW c \in Calls, NEW i \in Calls, GetCode(c, i) PROVE Registered'
  BY <1>0, <1>10 DEF GetCode, Printed, Registered, Kept, Doing, TypeOK
<1>11. ASSUME NEW c \in Calls, RecordFailure(c) PROVE Registered'
  BY <1>0, <1>11 DEF RecordFailure, Registered, Kept, Doing, TypeOK
<1>12. ASSUME NEW c \in Calls, Lockout(c) PROVE Registered'
  BY <1>0, <1>12 DEF Lockout, Registered, Kept, Doing, TypeOK
<1>13. ASSUME NEW c \in Calls, Claim(c) PROVE Registered'
  BY <1>0, <1>13 DEF Claim, Registered, Kept, Doing, TypeOK
<1>14. ASSUME NEW c \in Calls, ClearAttempts(c) PROVE Registered'
  BY <1>0, <1>14 DEF ClearAttempts, Registered, Kept, Doing, TypeOK
<1>15. ASSUME NEW c \in Calls, Put(c) PROVE Registered'
  BY <1>0, <1>15 DEF Put, Registered, Kept, Doing, TypeOK
<1>16. ASSUME NEW c \in Calls, Unlock(c) PROVE Registered'
  BY <1>0, <1>16 DEF Unlock, Registered, Kept, Doing, TypeOK
<1>17. ASSUME NEW c \in Calls, ReadToken(c) PROVE Registered'
  BY <1>0, <1>17 DEF ReadToken, Registered, Kept, Doing, TypeOK
<1>18. ASSUME NEW c \in Calls, DeleteToken(c) PROVE Registered'
  BY <1>0, <1>18 DEF DeleteToken, Registered, Kept, Doing, TypeOK
<1>19. ASSUME NEW c \in Calls, Lock(c) PROVE Registered'
  <2>1. pc[c] = "lock" /\ pc' = [pc EXCEPT ![c] = "ok"] /\ UNCHANGED account
    BY <1>19 DEF Lock
  <2>2. QED BY <1>0, <1>19, <2>1 DEF Registered, Kept, Doing, TypeOK
<1>20. ASSUME NEW c \in Calls, Fail(c) PROVE Registered'
  BY <1>0, <1>20 DEF Fail, AfterFault, Ends, Registered, Kept, Doing, TypeOK
<1>21. ASSUME NEW m \in Machines, DaemonStops(m) PROVE Registered'
  BY <1>0, <1>21 DEF DaemonStops, Registered, Kept, Doing, TypeOK
<1>22. CASE RestartServer
  BY <1>0, <1>22 DEF RestartServer, AfterFault, InServer, Ends, Registered, Kept, Doing, TypeOK
<1>23. CASE Tick
  BY <1>0, <1>23 DEF Tick, Registered, Kept, Doing, TypeOK
<1>24. CASE UNCHANGED vars
  BY <1>0, <1>24 DEF vars, Registered, Kept, Doing, TypeOK
<1>25. QED BY <1>1, <1>2, <1>3, <1>4, <1>5, <1>6, <1>7, <1>8, <1>9, <1>10, <1>11, <1>12, <1>13, <1>14, <1>15, <1>16, <1>17, <1>18, <1>19, <1>20, <1>21, <1>22, <1>23, <1>24 DEF Next, ServerStep, ClientStep

LEMMA OneKekStep == IInv /\ [Next]_vars => OneKek'
<1> SUFFICES ASSUME IInv, [Next]_vars PROVE OneKek'
  OBVIOUS
<1> USE AccountsAssumption
<1>0. TypeOK /\ OneKek /\ \A c \in Calls : Doing(c)
  BY DEF IInv
<1>1. ASSUME NEW c \in Calls, Check(c) PROVE OneKek'
  BY <1>0, <1>1 DEF Check, OneKek, TypeOK
<1>2. ASSUME NEW c \in Calls, Insert(c) PROVE OneKek'
  <2>1. CASE user = None
    <3>1. user' = c /\ got' = [got EXCEPT ![c] = c] /\ UNCHANGED <<codes, sealer>>
      BY <1>2, <2>1 DEF Insert
    <3>2. \A i \in DOMAIN codes : codes[i].kek \in Calls
      BY <1>0 DEF TypeOK, Code
    <3>3. QED BY <1>0, <2>1, <3>1, <3>2 DEF OneKek, TypeOK
  <2>2. CASE user # None
    BY <1>0, <1>2, <2>2 DEF Insert, OneKek
  <2>3. QED BY <2>1, <2>2
<1>3. ASSUME NEW c \in Calls, Provision(c) PROVE OneKek'
  BY <1>0, <1>3 DEF Provision, OneKek, TypeOK
<1>4. ASSUME NEW c \in Calls, Challenge(c) PROVE OneKek'
  BY <1>0, <1>4 DEF Challenge, OneKek, TypeOK
<1>5. ASSUME NEW c \in Calls, Verify(c) PROVE OneKek'
  BY <1>0, <1>5 DEF Verify, Unwraps, OneKek, TypeOK
<1>6. ASSUME NEW c \in Calls, Mint(c) PROVE OneKek'
  BY <1>0, <1>6 DEF Mint, AfterMint, OneKek, TypeOK
<1>7. ASSUME NEW c \in Calls, Revoke(c) PROVE OneKek'
  BY <1>0, <1>7 DEF Revoke, OneKek, TypeOK
<1>8. ASSUME NEW c \in Calls, Publish(c) PROVE OneKek'
  <2>1. UNCHANGED <<got, user, sealer>> /\ pc[c] = "publish"
    BY <1>8 DEF Publish
  <2>2. \A i \in DOMAIN codes' : codes'[i].kek = user
    <3> DEFINE row == [kek |-> got[c], exp |-> now + CodeTtl, claimed |-> FALSE]
    <3>1. codes' = codes \/ codes' = With(codes, c, row)
      BY <1>8 DEF Publish
    <3>2. row.kek = user
      BY <1>0, <2>1 DEF OneKek, Doing
    <3> HIDE DEF row
    <3>3. QED BY <1>0, <3>1, <3>2 DEF With, OneKek
  <2>3. QED BY <1>0, <2>1, <2>2 DEF OneKek
<1>9. ASSUME NEW c \in Calls, SweepExpired(c) PROVE OneKek'
  BY <1>0, <1>9 DEF SweepExpired, OneKek, TypeOK
<1>10. ASSUME NEW c \in Calls, NEW i \in Calls, GetCode(c, i) PROVE OneKek'
  BY <1>0, <1>10 DEF GetCode, Printed, OneKek, TypeOK
<1>11. ASSUME NEW c \in Calls, RecordFailure(c) PROVE OneKek'
  BY <1>0, <1>11 DEF RecordFailure, OneKek, TypeOK
<1>12. ASSUME NEW c \in Calls, Lockout(c) PROVE OneKek'
  <2>1. UNCHANGED <<got, user, sealer>> /\ codes' = Without(codes, claim[c].code)
    BY <1>12 DEF Lockout
  <2>2. QED BY <1>0, <2>1 DEF Without, OneKek
<1>13. ASSUME NEW c \in Calls, Claim(c) PROVE OneKek'
  <2>1. UNCHANGED <<got, user, sealer>> /\ DOMAIN codes' = DOMAIN codes
    BY <1>13 DEF Claim
  <2>2. \A i \in DOMAIN codes : codes'[i].kek = codes[i].kek
    BY <1>0, <1>13 DEF Claim, TypeOK, Code
  <2>3. QED BY <1>0, <2>1, <2>2 DEF OneKek
<1>14. ASSUME NEW c \in Calls, ClearAttempts(c) PROVE OneKek'
  BY <1>0, <1>14 DEF ClearAttempts, OneKek, TypeOK
<1>15. ASSUME NEW c \in Calls, Put(c) PROVE OneKek'
  BY <1>0, <1>15 DEF Put, OneKek, TypeOK
<1>16. ASSUME NEW c \in Calls, Unlock(c) PROVE OneKek'
  BY <1>0, <1>16 DEF Unlock, OneKek, TypeOK
<1>17. ASSUME NEW c \in Calls, ReadToken(c) PROVE OneKek'
  BY <1>0, <1>17 DEF ReadToken, OneKek, TypeOK
<1>18. ASSUME NEW c \in Calls, DeleteToken(c) PROVE OneKek'
  BY <1>0, <1>18 DEF DeleteToken, OneKek, TypeOK
<1>19. ASSUME NEW c \in Calls, Lock(c) PROVE OneKek'
  BY <1>0, <1>19 DEF Lock, OneKek, TypeOK
<1>20. ASSUME NEW c \in Calls, Fail(c) PROVE OneKek'
  BY <1>0, <1>20 DEF Fail, AfterFault, Ends, OneKek, TypeOK
<1>21. ASSUME NEW m \in Machines, DaemonStops(m) PROVE OneKek'
  BY <1>0, <1>21 DEF DaemonStops, OneKek, TypeOK
<1>22. CASE RestartServer
  BY <1>0, <1>22 DEF RestartServer, AfterFault, InServer, Ends, OneKek, TypeOK
<1>23. CASE Tick
  BY <1>0, <1>23 DEF Tick, OneKek, TypeOK
<1>24. CASE UNCHANGED vars
  BY <1>0, <1>24 DEF vars, OneKek, TypeOK
<1>25. QED BY <1>1, <1>2, <1>3, <1>4, <1>5, <1>6, <1>7, <1>8, <1>9, <1>10, <1>11, <1>12, <1>13, <1>14, <1>15, <1>16, <1>17, <1>18, <1>19, <1>20, <1>21, <1>22, <1>23, <1>24 DEF Next, ServerStep, ClientStep

LEMMA SpentStep == IInv /\ [Next]_vars => Spent'
<1> SUFFICES ASSUME IInv, [Next]_vars PROVE Spent'
  OBVIOUS
<1> USE AccountsAssumption
<1>0. TypeOK /\ Spent /\ \A c \in Calls : Doing(c)
  BY DEF IInv
<1>1. ASSUME NEW c \in Calls, Check(c) PROVE Spent'
  <2>1. Moves(c)
    BY <1>0, <1>1 DEF Check, Moves, Quiet, Doing, TypeOK, Ends
  <2>2. Fewer
    BY <1>0, <1>1 DEF Check, Fewer
  <2>3. QED BY <1>0, <2>1, <2>2, StillSpent
<1>2. ASSUME NEW c \in Calls, Insert(c) PROVE Spent'
  <2>1. Moves(c)
    BY <1>0, <1>2 DEF Insert, Moves, Quiet, Doing, TypeOK, Ends
  <2>2. Fewer
    BY <1>0, <1>2 DEF Insert, Fewer
  <2>3. QED BY <1>0, <2>1, <2>2, StillSpent
<1>3. ASSUME NEW c \in Calls, Provision(c) PROVE Spent'
  <2>1. Moves(c)
    BY <1>0, <1>3 DEF Provision, Moves, Quiet, Doing, TypeOK, Ends
  <2>2. Fewer
    BY <1>0, <1>3 DEF Provision, Fewer
  <2>3. QED BY <1>0, <2>1, <2>2, StillSpent
<1>4. ASSUME NEW c \in Calls, Challenge(c) PROVE Spent'
  <2>1. Moves(c)
    BY <1>0, <1>4 DEF Challenge, Moves, Quiet, Doing, TypeOK, Ends
  <2>2. Fewer
    BY <1>0, <1>4 DEF Challenge, Fewer
  <2>3. QED BY <1>0, <2>1, <2>2, StillSpent
<1>5. ASSUME NEW c \in Calls, Verify(c) PROVE Spent'
  <2>1. Moves(c)
    BY <1>0, <1>5 DEF Verify, Unwraps, Moves, Quiet, Doing, TypeOK, Ends
  <2>2. Fewer
    BY <1>0, <1>5 DEF Verify, Fewer
  <2>3. QED BY <1>0, <2>1, <2>2, StillSpent
<1>6. ASSUME NEW c \in Calls, Mint(c) PROVE Spent'
  <2>1. /\ pc[c] = "mint" /\ UNCHANGED <<claim, codes>>
        /\ \A d \in Calls : d # c => pc'[d] = pc[d]
        /\ pc'[c] \in {"provision", "put", "read"}
        /\ paired' = IF Kind[c] = "accept" THEN paired \cup {<<c, claim[c].code>>} ELSE paired
    BY <1>0, <1>6 DEF Mint, AfterMint, Doing, TypeOK
  <2>2. \A d \in Calls, i \in Some : Won(d, i)' => Won(d, i)
    BY <2>1 DEF Won
  <2>3. \A i \in Some : Past(i) => Past(i)'
    BY <2>1 DEF Past, Ends
  <2>4. \A d \in Calls : Claiming(d)' => Claiming(d) /\ claim[d].code \in Some
    BY <1>0, <2>1 DEF Claiming, TypeOK
  <2>5. QED BY <1>0, <2>1, <2>2, <2>3, <2>4 DEF Spent
<1>7. ASSUME NEW c \in Calls, Revoke(c) PROVE Spent'
  <2>1. Moves(c)
    BY <1>0, <1>7 DEF Revoke, Moves, Quiet, Doing, TypeOK, Ends
  <2>2. Fewer
    BY <1>0, <1>7 DEF Revoke, Fewer
  <2>3. QED BY <1>0, <2>1, <2>2, StillSpent
<1>8. ASSUME NEW c \in Calls, Publish(c) PROVE Spent'
  <2>1. /\ pc[c] = "publish" /\ UNCHANGED <<claim, paired>>
        /\ \A d \in Calls : d # c => pc'[d] = pc[d]
        /\ pc'[c] \in {"sweep", "own"}
    BY <1>0, <1>8 DEF Publish, TypeOK
  <2>2. \A d \in Calls, i \in Some : Won(d, i)' => Won(d, i)
    BY <2>1 DEF Won
  <2>3. ~Past(c) /\ \A i \in Some : Past(i) => Past(i)'
    BY <2>1 DEF Past, Ends
  <2>4. \A d \in Calls : Claiming(d)' => Claiming(d) /\ claim[d].code \in Some
    BY <1>0, <2>1 DEF Claiming, TypeOK
  <2>5. \A i \in DOMAIN codes' : i # c => i \in DOMAIN codes /\ codes'[i] = codes[i]
    <3> DEFINE row == [kek |-> got[c], exp |-> now + CodeTtl, claimed |-> FALSE]
    <3>1. codes' = codes \/ codes' = With(codes, c, row)
      BY <1>8 DEF Publish
    <3> HIDE DEF row
    <3>2. QED BY <3>1 DEF With
  <2>6. QED BY <1>0, <2>1, <2>2, <2>3, <2>4, <2>5 DEF Spent
<1>9. ASSUME NEW c \in Calls, SweepExpired(c) PROVE Spent'
  <2>1. Moves(c)
    BY <1>0, <1>9 DEF SweepExpired, Moves, Quiet, Doing, TypeOK, Ends
  <2>2. Fewer
    BY <1>0, <1>9 DEF SweepExpired, Fewer
  <2>3. QED BY <1>0, <2>1, <2>2, StillSpent
<1>10. ASSUME NEW c \in Calls, NEW i \in Calls, GetCode(c, i) PROVE Spent'
  <2>1. /\ pc[c] = "get" /\ UNCHANGED <<codes, paired>> /\ Past(i)
        /\ \A d \in Calls : d # c => pc'[d] = pc[d] /\ claim'[d] = claim[d]
        /\ claim'[c].code = i
    BY <1>0, <1>10 DEF GetCode, Printed, Past, Ends, TypeOK
  <2>2. pc'[c] \in {"failed", "gone", "lockout", "claim", "record"}
    BY <1>0, <1>10 DEF GetCode, TypeOK
  <2>3. \A d \in Calls, j \in Some : Won(d, j)' => Won(d, j)
    BY <2>1, <2>2 DEF Won
  <2>4. \A j \in Some : Past(j) => Past(j)'
    <3>1. Kind[c] # "invite"
      BY <1>0, <2>1 DEF Doing
    <3>2. QED BY <2>1, <3>1 DEF Past
  <2>5. \A d \in Calls : d # c /\ Claiming(d)' => Claiming(d) /\ claim[d].code \in Some
    BY <1>0, <2>1 DEF Claiming, TypeOK
  <2>6. \A d \in Calls : Claiming(d)' => Past(claim[d].code)'
    BY <1>0, <2>1, <2>4, <2>5 DEF Spent
  <2>7. QED BY <1>0, <2>1, <2>3, <2>4, <2>6 DEF Spent
<1>11. ASSUME NEW c \in Calls, RecordFailure(c) PROVE Spent'
  <2>1. Moves(c)
    BY <1>0, <1>11 DEF RecordFailure, Moves, Quiet, Doing, TypeOK, Ends
  <2>2. Fewer
    BY <1>0, <1>11 DEF RecordFailure, Fewer
  <2>3. QED BY <1>0, <2>1, <2>2, StillSpent
<1>12. ASSUME NEW c \in Calls, Lockout(c) PROVE Spent'
  <2>1. Moves(c)
    BY <1>0, <1>12 DEF Lockout, Moves, Quiet, Doing, TypeOK, Ends
  <2>2. Fewer
    BY <1>0, <1>12 DEF Lockout, Fewer, Without
  <2>3. QED BY <1>0, <2>1, <2>2, StillSpent
<1>13. ASSUME NEW c \in Calls, Claim(c) PROVE Spent'
  <2> DEFINE i == claim[c].code
  <2>1. /\ pc[c] = "claim" /\ UNCHANGED <<claim, paired>> /\ Kind[c] = "accept" /\ i \in Some
        /\ \A d \in Calls : d # c => pc'[d] = pc[d]
    BY <1>0, <1>13 DEF Claim, Doing, TypeOK
  <2>2. Past(i)
    BY <1>0, <2>1 DEF Spent, Claiming
  <2>3. \A j \in Some : Past(j) => Past(j)'
    BY <2>1 DEF Past
  <2>4. \A d \in Calls : Claiming(d)' => Claiming(d) /\ claim[d].code \in Some
    BY <1>0, <2>1 DEF Claiming, TypeOK
  <2>5. CASE i \in DOMAIN codes /\ ~codes[i].claimed /\ codes[i].exp > claim[c].at
    <3>1. codes' = [codes EXCEPT ![i].claimed = TRUE] /\ pc'[c] = "clear"
      BY <1>0, <1>13, <2>5 DEF Claim, TypeOK
    <3>2. /\ DOMAIN codes' = DOMAIN codes
          /\ \A j \in DOMAIN codes : codes[j].claimed => codes'[j].claimed
          /\ codes'[i].claimed
      BY <1>0, <2>5, <3>1 DEF TypeOK, Code
    <3>3. \A d \in Calls : ~Won(d, i)
      BY <1>0, <2>1, <2>5 DEF Spent
    <3>4. \A d \in Calls, j \in Some : Won(d, j)' => Won(d, j) \/ (d = c /\ j = i)
      BY <2>1 DEF Won
    <3> HIDE DEF i
    <3>5. \A d \in Calls, j \in Some : Won(d, j)' => Past(j)' /\ (j \in DOMAIN codes' => codes'[j].claimed)
      BY <1>0, <2>2, <2>3, <2>1, <3>2, <3>4 DEF Spent
    <3>6. \A d \in Calls, e \in Calls, j \in Some : Won(d, j)' /\ Won(e, j)' => d = e
      BY <1>0, <3>3, <3>4 DEF Spent
    <3>7. QED BY <1>0, <2>1, <2>3, <2>4, <3>5, <3>6 DEF Spent
  <2>6. CASE ~(i \in DOMAIN codes /\ ~codes[i].claimed /\ codes[i].exp > claim[c].at)
    <3>1. codes' = codes /\ pc'[c] = "gone"
      BY <1>0, <1>13, <2>6 DEF Claim, TypeOK
    <3>2. \A d \in Calls, j \in Some : Won(d, j)' => Won(d, j)
      BY <2>1, <3>1 DEF Won
    <3>3. QED BY <1>0, <2>1, <2>3, <2>4, <3>1, <3>2 DEF Spent
  <2>7. QED BY <2>5, <2>6
<1>14. ASSUME NEW c \in Calls, ClearAttempts(c) PROVE Spent'
  <2>1. Moves(c)
    BY <1>0, <1>14 DEF ClearAttempts, Moves, Quiet, Doing, TypeOK, Ends
  <2>2. Fewer
    BY <1>0, <1>14 DEF ClearAttempts, Fewer
  <2>3. QED BY <1>0, <2>1, <2>2, StillSpent
<1>15. ASSUME NEW c \in Calls, Put(c) PROVE Spent'
  <2>1. Moves(c)
    BY <1>0, <1>15 DEF Put, Moves, Quiet, Doing, TypeOK, Ends
  <2>2. Fewer
    BY <1>0, <1>15 DEF Put, Fewer
  <2>3. QED BY <1>0, <2>1, <2>2, StillSpent
<1>16. ASSUME NEW c \in Calls, Unlock(c) PROVE Spent'
  <2>1. Moves(c)
    BY <1>0, <1>16 DEF Unlock, Moves, Quiet, Doing, TypeOK, Ends
  <2>2. Fewer
    BY <1>0, <1>16 DEF Unlock, Fewer
  <2>3. QED BY <1>0, <2>1, <2>2, StillSpent
<1>17. ASSUME NEW c \in Calls, ReadToken(c) PROVE Spent'
  <2>1. Moves(c)
    BY <1>0, <1>17 DEF ReadToken, Moves, Quiet, Doing, TypeOK, Ends
  <2>2. Fewer
    BY <1>0, <1>17 DEF ReadToken, Fewer
  <2>3. QED BY <1>0, <2>1, <2>2, StillSpent
<1>18. ASSUME NEW c \in Calls, DeleteToken(c) PROVE Spent'
  <2>1. Moves(c)
    BY <1>0, <1>18 DEF DeleteToken, Moves, Quiet, Doing, TypeOK, Ends
  <2>2. Fewer
    BY <1>0, <1>18 DEF DeleteToken, Fewer
  <2>3. QED BY <1>0, <2>1, <2>2, StillSpent
<1>19. ASSUME NEW c \in Calls, Lock(c) PROVE Spent'
  <2>1. Moves(c)
    BY <1>0, <1>19 DEF Lock, Moves, Quiet, Doing, TypeOK, Ends
  <2>2. Fewer
    BY <1>0, <1>19 DEF Lock, Fewer
  <2>3. QED BY <1>0, <2>1, <2>2, StillSpent
<1>20. ASSUME NEW c \in Calls, Fail(c) PROVE Spent'
  <2>1. Moves(c)
    BY <1>0, <1>20 DEF Fail, AfterFault, Moves, Quiet, Doing, TypeOK, Ends
  <2>2. Fewer
    BY <1>0, <1>20 DEF Fail, Fewer
  <2>3. QED BY <1>0, <2>1, <2>2, StillSpent
<1>21. ASSUME NEW m \in Machines, DaemonStops(m) PROVE Spent'
  BY <1>0, <1>21 DEF DaemonStops, Spent, Claiming, Won, Past, Doing, TypeOK
<1>22. CASE RestartServer
  BY <1>0, <1>22 DEF RestartServer, AfterFault, InServer, Ends, Spent, Claiming, Won, Past, Doing, TypeOK
<1>23. CASE Tick
  BY <1>0, <1>23 DEF Tick, Spent, Claiming, Won, Past, Doing, TypeOK
<1>24. CASE UNCHANGED vars
  BY <1>0, <1>24 DEF vars, Spent, Claiming, Won, Past, Doing, TypeOK
<1>25. QED BY <1>1, <1>2, <1>3, <1>4, <1>5, <1>6, <1>7, <1>8, <1>9, <1>10, <1>11, <1>12, <1>13, <1>14, <1>15, <1>16, <1>17, <1>18, <1>19, <1>20, <1>21, <1>22, <1>23, <1>24 DEF Next, ServerStep, ClientStep

-------------------------------------------------------------------------------
THEOREM InvHolds == Spec => []IInv
<1>1. IInv /\ [Next]_vars => IInv'
  BY TypeStep, DoingStep, RegisteredStep, OneKekStep, SpentStep DEF IInv
<1>2. QED BY InitOK, <1>1, PTL DEF Spec

(* Every variable keeps its type: a brain has no more than its three rows,     *)
(* although each of them is a statement of its own.                            *)
THEOREM TypeCorrect == Spec => []TypeOK
<1>1. IInv => TypeOK
  BY DEF IInv
<1>2. QED BY InvHolds, <1>1, PTL

(* A pairing code brings in one device, for any number of claims, expiries,    *)
(* sweeps and restarts.                                                        *)
THEOREM OneWinner == Spec => []OneDevicePerCode
<1>1. IInv => OneDevicePerCode
  <2> SUFFICES ASSUME IInv, NEW p \in paired, NEW q \in paired, p[2] = q[2] PROVE p = q
    BY DEF OneDevicePerCode
  <2>1. PICK c \in Calls, i \in Some : p = <<c, i>>
    BY DEF IInv, TypeOK
  <2>2. PICK d \in Calls, j \in Some : q = <<d, j>>
    BY DEF IInv, TypeOK
  <2>3. i = j
    BY <2>1, <2>2
  <2>4. Won(c, i) /\ Won(d, i)
    BY <2>1, <2>2, <2>3 DEF Won
  <2>5. c = d
    BY <2>4 DEF IInv, Spent
  <2>6. QED BY <2>1, <2>2, <2>3, <2>5
<1>2. QED BY InvHolds, <1>1, PTL

(* A registration that was answered has its account row, brain, membership and *)
(* key, however many raced for the address.                                    *)
THEOREM RegisterIsWhole == Spec => []AnsweredRegister
<1>1. IInv => AnsweredRegister
  BY DEF IInv, Registered, Kept, AnsweredRegister
<1>2. QED BY InvHolds, <1>1, PTL

(* Every daemon of the account seals with the same KEK, for any number of      *)
(* registrations, logins and pairings.                                         *)
THEOREM OneSealer == Spec => []SealersAgree
<1>1. IInv => SealersAgree
  BY DEF IInv, OneKek, SealersAgree
<1>2. QED BY InvHolds, <1>1, PTL
===============================================================================

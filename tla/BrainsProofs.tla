------------------------------ MODULE BrainsProofs ------------------------------
(* Theorems about Brains for any requests, brains, users, keys and faults. *)
EXTENDS Brains, FiniteSetTheorems, TLAPS

USE DEF Ids, Some, Goto, ScopeKey, IsMember, ListByOwner, Use, Ends

-------------------------------------------------------------------------------
(* Which requests come to which statement, and what they have by then. *)

Working == {"cached", "lookup", "fill", "key", "warm", "reread", "put", "open"}

Doing(c) ==
  /\ pc[c] \in {"count", "insert", "join"} => Kind[c] = "create"
  /\ pc[c] \in {"owner", "apply"} => Kind[c] \in {"add", "remove"}
  /\ pc[c] \in {"admit", "cached", "lookup", "fill", "reread", "put"} => Kind[c] \in {"push", "pull"}
  /\ pc[c] \in {"key", "warm"} => Kind[c] \in {"create", "push", "pull"}
  /\ pc[c] \in {"list", "open", "unreadable"} => Kind[c] = "pull"
  /\ pc[c] \in {"count", "insert", "admit"} => dek[c] = None /\ blob[c] = None
  /\ Kind[c] = "pull" /\ pc[c] \in Working \cup {"unreadable"} => blob[c] # None
  /\ pc[c] \in {"fill", "put", "open", "unreadable"} => dek[c] # None
  /\ pc[c] = "unreadable" => at[c] \in Ids /\ dek[c] # blob[c]

(* Every key in use was once put for the brain it is used in. *)
FromMade(b) == made[b] \cup {None}

Keyed ==
  /\ \A b \in Ids :
       /\ keys[b] \in FromMade(b) /\ cache[b] \in FromMade(b)
       /\ \A k \in Keys : store[<<b, k>>] \in FromMade(b)
       /\ made[b] # {} => keys[b] # None
  /\ \A c \in Reqs :
       /\ at[c] \in Ids => dek[c] \in FromMade(at[c]) /\ blob[c] \in FromMade(at[c])
       /\ at[c] = None => dek[c] = None /\ blob[c] = None
       /\ pc[c] = "warm" => c \in made[at[c]]

(* How far a create has come, and whom a removal spares. *)
Owned(b, u) == b \in DOMAIN brains /\ brains[b] = u

Creating(c) ==
  /\ pc[c] \in {"count", "insert"} => c \notin DOMAIN brains
  /\ Kind[c] = "create" /\ pc[c] \in {"join", "key", "warm", "ok"} => Owned(c, User[c]) /\ at[c] = c
  /\ Kind[c] = "create" /\ pc[c] \in {"key", "warm", "ok"} => <<c, User[c]>> \in members
  /\ Kind[c] = "create" /\ pc[c] \in {"warm", "ok"} => keys[c] # None
  /\ pc[c] = "apply" => /\ Owned(Selector[c], User[c])
                        /\ Kind[c] = "remove" => Target[c] # User[c]

IInv ==
  /\ TypeOK
  /\ \A c \in Reqs : Doing(c)
  /\ Keyed
  /\ \A c \in Reqs : Creating(c)

-------------------------------------------------------------------------------
LEMMA InitOK == Init => IInv
<1> SUFFICES ASSUME Init PROVE IInv
  OBVIOUS
<1> USE BrainsAssumption
<1>1. \A c \in Reqs : /\ pc[c] \in {"count", "admit", "owner"}
                      /\ pc[c] = "count" <=> Kind[c] = "create"
                      /\ pc[c] = "owner" <=> Kind[c] \in {"add", "remove"}
  BY DEF Init, First
<1>2. TypeOK
  BY <1>1 DEF Init, TypeOK, Pcs, locals, tables
<1>3. \A c \in Reqs : Doing(c)
  BY <1>1 DEF Init, Doing, Working
<1>4. Keyed
  BY <1>1 DEF Init, Keyed, FromMade
<1>5. \A c \in Reqs : Creating(c)
  BY <1>1 DEF Init, Creating
<1>6. QED BY <1>2, <1>3, <1>4, <1>5 DEF IInv

-------------------------------------------------------------------------------
(* What List and Insert change. *)
LEMMA ListDoes ==
  ASSUME TypeOK, NEW c \in Reqs, List(c)
  PROVE  /\ pc[c] = "list" /\ at[c] \in Ids
         /\ \A e \in Reqs : e # c => pc'[e] = pc[e] /\ blob'[e] = blob[e]
         /\ (pc'[c] = "cached" /\ blob'[c] # None) \/ pc'[c] = "ok"
         /\ blob'[c] = blob[c] \/ \E k \in Keys : blob'[c] = store[<<at[c], k>>]
         /\ UNCHANGED <<at, dek, tables, cache, store, faults, made>>
<1> USE DEF TypeOK
<1>1. pc[c] = "list" /\ at[c] \in Ids /\ UNCHANGED <<at, dek, tables, cache, store, faults, made>>
  BY DEF List
<1>2. CASE \E k \in Keys : /\ store[<<at[c], k>>] # None
                          /\ blob' = [blob EXCEPT ![c] = store[<<at[c], k>>]]
                          /\ pc' = [pc EXCEPT ![c] = "cached"]
  BY <1>1, <1>2
<1>3. CASE pc' = [pc EXCEPT ![c] = "ok"] /\ blob' = blob
  BY <1>1, <1>3
<1>4. QED BY <1>2, <1>3 DEF List

LEMMA InsertDoes ==
  ASSUME TypeOK, NEW c \in Reqs, Doing(c), Creating(c), Insert(c)
  PROVE  /\ Kind[c] = "create" /\ pc[c] = "insert" /\ c \notin DOMAIN brains
         /\ dek[c] = None /\ blob[c] = None
         /\ \A b, u : Owned(b, u) => Owned(b, u)'
         /\ Owned(c, User[c])'
         /\ DOMAIN brains' = DOMAIN brains \cup {c}
         /\ pc' = [pc EXCEPT ![c] = "join"] /\ at' = [at EXCEPT ![c] = c]
         /\ UNCHANGED <<dek, blob, members, keys, cache, store, faults, made>>
BY DEF TypeOK, Doing, Creating, Insert, Owned

(* The guards of the two statements that change members. *)
LEMMA JoinOwned ==
  ASSUME \A d \in Reqs : Doing(d) /\ Creating(d), NEW c \in Reqs, pc[c] = "join"
  PROVE  Kind[c] = "create" /\ at[c] = c /\ Owned(c, User[c])
BY DEF Doing, Creating

LEMMA ApplyOwned ==
  ASSUME \A d \in Reqs : Doing(d) /\ Creating(d), NEW c \in Reqs, pc[c] = "apply"
  PROVE  Kind[c] \in {"add", "remove"} /\ Owned(Selector[c], User[c])
BY DEF Doing, Creating

-------------------------------------------------------------------------------
LEMMA RequireBrainTyped ==
  ASSUME TypeOK, NEW c \in Reqs, RequireBrain(c)
  PROVE  TypeOK'
<1>1. pc \in [Reqs -> Pcs] /\ at \in [Reqs -> Ids \cup {None}]
      /\ \A d \in Reqs : pc[d] \in {"list"} \cup Working => at[d] \in Ids
  BY DEF TypeOK, Working
<1>2. UNCHANGED <<dek, blob, brains, members, keys, cache, store, faults, made>>
  BY DEF RequireBrain, tables
<1>3. \E s \in {"cached", "list", "refused"} : pc' = [pc EXCEPT ![c] = s]
  BY DEF RequireBrain, Goto
<1>4. pc' \in [Reqs -> Pcs] /\ \A d \in Reqs : d # c => pc'[d] = pc[d]
  BY <1>1, <1>3 DEF Pcs
<1>5. CASE \E b \in Ids : at' = [at EXCEPT ![c] = b]
  <2>1. /\ at' \in [Reqs -> Ids \cup {None}] /\ at'[c] \in Ids
        /\ \A d \in Reqs : d # c => at'[d] = at[d]
    BY <1>1, <1>5
  <2>2. \A d \in Reqs : pc'[d] \in {"list"} \cup Working => at'[d] \in Ids
    BY <1>1, <1>4, <2>1
  <2>3. QED BY <1>2, <1>4, <2>1, <2>2 DEF TypeOK, Working
<1>6. CASE at' = at /\ pc' = [pc EXCEPT ![c] = "refused"]
  <2>1. \A d \in Reqs : pc'[d] \in {"list"} \cup Working => at'[d] \in Ids
    BY <1>1, <1>6 DEF Working
  <2>2. QED BY <1>2, <1>4, <1>6, <2>1 DEF TypeOK, Working
<1>7. QED BY <1>5, <1>6 DEF RequireBrain, Goto

LEMMA ListTyped ==
  ASSUME TypeOK, NEW c \in Reqs, List(c)
  PROVE  TypeOK'
<1>1. /\ pc \in [Reqs -> Pcs] /\ blob \in [Reqs -> Some] /\ at[c] \in Ids
      /\ \A d \in Reqs : pc[d] \in {"list"} \cup Working => at[d] \in Ids
  BY ListDoes DEF TypeOK, Working
<1>2. \A k \in Keys : store[<<at[c], k>>] \in Some
  BY <1>1 DEF TypeOK
<1>3. \E s \in {"cached", "ok"} : pc' = [pc EXCEPT ![c] = s]
  BY DEF List, Goto
<1>4. blob' = blob \/ \E k \in Keys : blob' = [blob EXCEPT ![c] = store[<<at[c], k>>]]
  BY DEF List, ScopeKey
<1>5. UNCHANGED <<at, dek, brains, members, keys, cache, store, faults, made>>
  BY DEF List, tables
<1>6. pc' \in [Reqs -> Pcs] /\ \A d \in Reqs : d # c => pc'[d] = pc[d]
  BY <1>1, <1>3 DEF Pcs
<1>7. blob' \in [Reqs -> Some]
  BY <1>1, <1>2, <1>4
<1>8. \A d \in Reqs : pc'[d] \in {"list"} \cup Working => at'[d] \in Ids
  BY <1>1, <1>5, <1>6
<1>9. QED BY <1>5, <1>6, <1>7, <1>8 DEF TypeOK, Working

LEMMA TypeStep == IInv /\ [Next]_vars => TypeOK'
<1> SUFFICES ASSUME IInv, [Next]_vars PROVE TypeOK'
  OBVIOUS
<1> USE BrainsAssumption DEF TypeOK, IInv, locals, tables
<1> DEFINE Typed == \A c \in Reqs : Doing(c) /\ Creating(c)
<1>0. Typed
  OBVIOUS
<1>1. ASSUME NEW c \in Reqs, Count(c) PROVE TypeOK'
  BY <1>0, <1>1 DEF Count, Doing, Creating, Owned, Pcs, Resolves, Working
<1>2. ASSUME NEW c \in Reqs, Insert(c) PROVE TypeOK'
  BY <1>0, <1>2 DEF Insert, Doing, Creating, Owned, Pcs, Resolves, Working
<1>3. ASSUME NEW c \in Reqs, Join(c) PROVE TypeOK'
  <2>0. pc[c] = "join"
    BY <1>3 DEF Join
  <2>1. c \in DOMAIN brains /\ User[c] \in Users
    BY <1>0, <2>0, JoinOwned DEF Owned
  <2>2. members' \subseteq (DOMAIN brains) \X Users
    BY <1>3, <2>1 DEF Join
  <2>3. pc' \in [Reqs -> Pcs]
    BY <1>3 DEF Join, Pcs
  <2>4. \A d \in Reqs : pc'[d] \in {"list"} \cup Working => at'[d] \in Ids
    <3>1. at'[c] \in Ids
      <4>1. at' = at
        BY <1>3 DEF Join
      <4>2. at[c] = c
        BY <1>0, <2>0, JoinOwned
      <4>3. QED BY <4>1, <4>2
    <3>2. QED BY <1>3, <3>1 DEF Join, Working
  <2>5. QED BY <1>3, <2>2, <2>3, <2>4 DEF Join, Working
<1>4. ASSUME NEW c \in Reqs, RequireOwner(c) PROVE TypeOK'
  BY <1>0, <1>4 DEF RequireOwner, Doing, Creating, Owned, Pcs, Resolves, Working
<1>5. ASSUME NEW c \in Reqs, Apply(c) PROVE TypeOK'
  <2>0. pc[c] = "apply"
    BY <1>5 DEF Apply
  <2>1. Selector[c] \in DOMAIN brains /\ Target[c] \in Users
    BY <1>0, <2>0, ApplyOwned DEF Owned
  <2>2. members' \subseteq (DOMAIN brains) \X Users
    BY <1>5, <2>1 DEF Apply
  <2>3. QED BY <1>5, <2>2 DEF Apply, Pcs
<1>6. ASSUME NEW c \in Reqs, RequireBrain(c) PROVE TypeOK'
  BY ONLY TypeOK, <1>6, RequireBrainTyped
<1>7. ASSUME NEW c \in Reqs, List(c) PROVE TypeOK'
  BY ONLY TypeOK, <1>7, ListTyped
<1>8. ASSUME NEW c \in Reqs, ReadCache(c) PROVE TypeOK'
  BY <1>0, <1>8 DEF ReadCache, Doing, Creating, Owned, Pcs, Resolves, Working
<1>9. ASSUME NEW c \in Reqs, GetBrainKey(c) PROVE TypeOK'
  BY <1>0, <1>9 DEF GetBrainKey, Doing, Creating, Owned, Pcs, Resolves, Working
<1>10. ASSUME NEW c \in Reqs, FillCache(c) PROVE TypeOK'
  BY <1>0, <1>10 DEF FillCache, Doing, Creating, Owned, Pcs, Resolves, Working
<1>11. ASSUME NEW c \in Reqs, PutBrainKey(c) PROVE TypeOK'
  BY <1>0, <1>11 DEF PutBrainKey, Doing, Creating, Owned, Pcs, Resolves, Working
<1>12. ASSUME NEW c \in Reqs, WarmCache(c) PROVE TypeOK'
  BY <1>0, <1>12 DEF WarmCache, Doing, Creating, Owned, Pcs, Resolves, Working
<1>13. ASSUME NEW c \in Reqs, Reread(c) PROVE TypeOK'
  BY <1>0, <1>13 DEF Reread, Doing, Creating, Owned, Pcs, Resolves, Working
<1>14. ASSUME NEW c \in Reqs, Put(c) PROVE TypeOK'
  BY <1>0, <1>14 DEF Put, Doing, Creating, Owned, Pcs, Resolves, Working
<1>15. ASSUME NEW c \in Reqs, Open(c) PROVE TypeOK'
  BY <1>0, <1>15 DEF Open, Doing, Creating, Owned, Pcs, Resolves, Working
<1>16. ASSUME NEW c \in Reqs, Fail(c) PROVE TypeOK'
  BY <1>16 DEF Fail, Pcs
<1>17. CASE RestartServer
  BY <1>17 DEF RestartServer, Begun, Pcs
<1>18. CASE UNCHANGED vars
  BY <1>18 DEF vars
<1>19. QED BY <1>1, <1>2, <1>3, <1>4, <1>5, <1>6, <1>7, <1>8, <1>9, <1>10, <1>11, <1>12, <1>13, <1>14, <1>15, <1>16, <1>17, <1>18 DEF Next, Handle

LEMMA DoingStep == IInv /\ [Next]_vars => \A c \in Reqs : Doing(c)'
<1> SUFFICES ASSUME IInv, [Next]_vars, NEW d \in Reqs PROVE Doing(d)'
  OBVIOUS
<1> USE BrainsAssumption DEF locals, tables, Working
<1>0. TypeOK /\ Keyed /\ (\A c \in Reqs : Doing(c))
  BY DEF IInv
<1>1. ASSUME NEW c \in Reqs, Count(c) PROVE Doing(d)'
  BY <1>0, <1>1 DEF Count, Doing, TypeOK
<1>2. ASSUME NEW c \in Reqs, Insert(c) PROVE Doing(d)'
  BY <1>0, <1>2 DEF Insert, Doing, TypeOK
<1>3. ASSUME NEW c \in Reqs, Join(c) PROVE Doing(d)'
  BY <1>0, <1>3 DEF Join, Doing, TypeOK
<1>4. ASSUME NEW c \in Reqs, RequireOwner(c) PROVE Doing(d)'
  BY <1>0, <1>4 DEF RequireOwner, Doing, TypeOK
<1>5. ASSUME NEW c \in Reqs, Apply(c) PROVE Doing(d)'
  BY <1>0, <1>5 DEF Apply, Doing, TypeOK
<1>6. ASSUME NEW c \in Reqs, RequireBrain(c) PROVE Doing(d)'
  BY <1>0, <1>6 DEF RequireBrain, Doing, TypeOK
<1>7. ASSUME NEW c \in Reqs, List(c) PROVE Doing(d)'
  BY <1>0, <1>7, ListDoes DEF Doing
<1>8. ASSUME NEW c \in Reqs, ReadCache(c) PROVE Doing(d)'
  BY <1>0, <1>8 DEF ReadCache, Doing, TypeOK
<1>9. ASSUME NEW c \in Reqs, GetBrainKey(c) PROVE Doing(d)'
  BY <1>0, <1>9 DEF GetBrainKey, Doing, TypeOK
<1>10. ASSUME NEW c \in Reqs, FillCache(c) PROVE Doing(d)'
  BY <1>0, <1>10 DEF FillCache, Doing, TypeOK
<1>11. ASSUME NEW c \in Reqs, PutBrainKey(c) PROVE Doing(d)'
  BY <1>0, <1>11 DEF PutBrainKey, Doing, TypeOK
<1>12. ASSUME NEW c \in Reqs, WarmCache(c) PROVE Doing(d)'
  BY <1>0, <1>12 DEF WarmCache, Doing, TypeOK
<1>13. ASSUME NEW c \in Reqs, Reread(c) PROVE Doing(d)'
  BY <1>0, <1>13 DEF Reread, Doing, TypeOK
<1>14. ASSUME NEW c \in Reqs, Put(c) PROVE Doing(d)'
  BY <1>0, <1>14 DEF Put, Doing, TypeOK
<1>15. ASSUME NEW c \in Reqs, Open(c) PROVE Doing(d)'
  BY <1>0, <1>15 DEF Open, Doing, TypeOK
<1>16. ASSUME NEW c \in Reqs, Fail(c) PROVE Doing(d)'
  BY <1>0, <1>16 DEF Fail, Doing, TypeOK
<1>17. CASE RestartServer
  BY <1>0, <1>17 DEF RestartServer, Begun, Doing, TypeOK
<1>18. CASE UNCHANGED vars
  BY <1>0, <1>18 DEF vars, Doing
<1>19. QED BY <1>1, <1>2, <1>3, <1>4, <1>5, <1>6, <1>7, <1>8, <1>9, <1>10, <1>11, <1>12, <1>13, <1>14, <1>15, <1>16, <1>17, <1>18 DEF Next, Handle

LEMMA CreatingStep == IInv /\ [Next]_vars => \A c \in Reqs : Creating(c)'
<1> SUFFICES ASSUME IInv, [Next]_vars, NEW d \in Reqs PROVE Creating(d)'
  OBVIOUS
<1> USE BrainsAssumption DEF locals, tables
<1>0. TypeOK /\ (\A c \in Reqs : Doing(c) /\ Creating(c))
  BY DEF IInv
<1>1. ASSUME NEW c \in Reqs, Count(c) PROVE Creating(d)'
  BY <1>0, <1>1 DEF Count, Doing, Creating, Owned, TypeOK
<1>2. ASSUME NEW c \in Reqs, Insert(c) PROVE Creating(d)'
  <2>1. /\ \A b, u : Owned(b, u) => Owned(b, u)'
        /\ Owned(c, User[c])' /\ DOMAIN brains' = DOMAIN brains \cup {c}
        /\ pc' = [pc EXCEPT ![c] = "join"] /\ at' = [at EXCEPT ![c] = c]
        /\ UNCHANGED <<members, keys>>
    BY <1>0, <1>2, InsertDoes
  <2>2. CASE d = c
    <3>1. pc'[c] = "join" /\ at'[c] = c
      BY <1>0, <2>1 DEF TypeOK
    <3>2. QED BY <2>1, <2>2, <3>1 DEF Creating
  <2>3. CASE d # c
    <3>1. pc'[d] = pc[d] /\ at'[d] = at[d] /\ members' = members /\ keys' = keys
      BY <1>0, <2>1, <2>3 DEF TypeOK
    <3>2. Owned(d, User[d]) => Owned(d, User[d])'
      BY <2>1
    <3>3. Owned(Selector[d], User[d]) => Owned(Selector[d], User[d])'
      BY <2>1
    <3>4. d \notin DOMAIN brains => d \notin DOMAIN brains'
      BY <2>1, <2>3
    <3>5. QED BY <1>0, <3>1, <3>2, <3>3, <3>4 DEF Creating
  <2>4. QED BY <2>2, <2>3
<1>3. ASSUME NEW c \in Reqs, Join(c) PROVE Creating(d)'
  BY <1>0, <1>3 DEF Join, Doing, Creating, Owned, TypeOK
<1>4. ASSUME NEW c \in Reqs, RequireOwner(c) PROVE Creating(d)'
  BY <1>0, <1>4 DEF RequireOwner, Doing, Creating, Owned, TypeOK
<1>5. ASSUME NEW c \in Reqs, Apply(c) PROVE Creating(d)'
  <2>1. Owned(Selector[c], User[c]) /\ (Kind[c] = "remove" => Target[c] # User[c])
    BY <1>0, <1>5 DEF Apply, Creating
  <2>2. Owned(d, User[d]) /\ <<d, User[d]>> \in members => <<d, User[d]>> \in members'
    <3> SUFFICES ASSUME Owned(d, User[d]), <<d, User[d]>> \in members PROVE <<d, User[d]>> \in members'
      OBVIOUS
    <3>1. CASE Kind[c] = "add"
      BY <1>5, <3>1 DEF Apply
    <3>2. CASE Kind[c] # "add"
      <4>1. Kind[c] = "remove"
        BY <1>0, <1>5, <3>2 DEF Apply, Doing
      <4>2. Selector[c] # d \/ Target[c] # User[d]
        BY <2>1, <4>1 DEF Owned
      <4>3. members' = members \ {<<Selector[c], Target[c]>>}
        BY <1>5, <3>2 DEF Apply
      <4>4. QED BY <4>2, <4>3
    <3>3. QED BY <3>1, <3>2
  <2>3. Kind[c] \in {"add", "remove"} /\ UNCHANGED <<at, brains, keys>>
        /\ pc' = [pc EXCEPT ![c] = "ok"]
    BY <1>0, <1>5 DEF Apply, Doing
  <2>4. QED BY <1>0, <2>2, <2>3 DEF Creating, Owned, TypeOK
<1>6. ASSUME NEW c \in Reqs, RequireBrain(c) PROVE Creating(d)'
  BY <1>0, <1>6 DEF RequireBrain, Doing, Creating, Owned, TypeOK
<1>7. ASSUME NEW c \in Reqs, List(c) PROVE Creating(d)'
  BY <1>0, <1>7, ListDoes DEF Doing, Creating, Owned
<1>8. ASSUME NEW c \in Reqs, ReadCache(c) PROVE Creating(d)'
  BY <1>0, <1>8 DEF ReadCache, Doing, Creating, Owned, TypeOK
<1>9. ASSUME NEW c \in Reqs, GetBrainKey(c) PROVE Creating(d)'
  BY <1>0, <1>9 DEF GetBrainKey, Doing, Creating, Owned, TypeOK
<1>10. ASSUME NEW c \in Reqs, FillCache(c) PROVE Creating(d)'
  BY <1>0, <1>10 DEF FillCache, Doing, Creating, Owned, TypeOK
<1>11. ASSUME NEW c \in Reqs, PutBrainKey(c) PROVE Creating(d)'
  BY <1>0, <1>11 DEF PutBrainKey, Doing, Creating, Owned, TypeOK
<1>12. ASSUME NEW c \in Reqs, WarmCache(c) PROVE Creating(d)'
  BY <1>0, <1>12 DEF WarmCache, Doing, Creating, Owned, TypeOK
<1>13. ASSUME NEW c \in Reqs, Reread(c) PROVE Creating(d)'
  BY <1>0, <1>13 DEF Reread, Doing, Creating, Owned, TypeOK
<1>14. ASSUME NEW c \in Reqs, Put(c) PROVE Creating(d)'
  <2>1. Kind[c] \in {"push", "pull"} /\ pc' = [pc EXCEPT ![c] = "ok"]
        /\ UNCHANGED <<at, brains, members, keys>>
    BY <1>0, <1>14 DEF Put, Doing
  <2>2. QED BY <1>0, <2>1 DEF Creating, Owned, TypeOK
<1>15. ASSUME NEW c \in Reqs, Open(c) PROVE Creating(d)'
  BY <1>0, <1>15 DEF Open, Doing, Creating, Owned, TypeOK
<1>16. ASSUME NEW c \in Reqs, Fail(c) PROVE Creating(d)'
  BY <1>0, <1>16 DEF Fail, Creating, Owned, TypeOK
<1>17. CASE RestartServer
  BY <1>0, <1>17 DEF RestartServer, Begun, Creating, Owned, TypeOK
<1>18. CASE UNCHANGED vars
  BY <1>0, <1>18 DEF vars, Creating, Owned
<1>19. QED BY <1>1, <1>2, <1>3, <1>4, <1>5, <1>6, <1>7, <1>8, <1>9, <1>10, <1>11, <1>12, <1>13, <1>14, <1>15, <1>16, <1>17, <1>18 DEF Next, Handle

LEMMA KeyedStep == IInv /\ [Next]_vars => Keyed'
<1> SUFFICES ASSUME IInv, [Next]_vars PROVE Keyed'
  OBVIOUS
<1> USE BrainsAssumption DEF locals, tables, FromMade
<1>0. TypeOK /\ Keyed /\ (\A c \in Reqs : Doing(c) /\ Creating(c))
  BY DEF IInv
<1>1. ASSUME NEW c \in Reqs, Count(c) PROVE Keyed'
  BY <1>0, <1>1 DEF Count, Keyed, Doing, Creating, TypeOK
<1>2. ASSUME NEW c \in Reqs, Insert(c) PROVE Keyed'
  <2>1. /\ dek[c] = None /\ blob[c] = None
        /\ pc' = [pc EXCEPT ![c] = "join"] /\ at' = [at EXCEPT ![c] = c]
        /\ UNCHANGED <<dek, blob, keys, cache, store, made>>
    BY <1>0, <1>2, InsertDoes
  <2>2. pc'[c] # "warm" /\ \A e \in Reqs : e # c => at'[e] = at[e] /\ pc'[e] = pc[e]
    BY <1>0, <2>1 DEF TypeOK
  <2>3. QED BY <1>0, <2>1, <2>2 DEF Keyed
<1>3. ASSUME NEW c \in Reqs, Join(c) PROVE Keyed'
  BY <1>0, <1>3 DEF Join, Keyed, Doing, Creating, TypeOK
<1>4. ASSUME NEW c \in Reqs, RequireOwner(c) PROVE Keyed'
  BY <1>0, <1>4 DEF RequireOwner, Keyed, Doing, Creating, TypeOK
<1>5. ASSUME NEW c \in Reqs, Apply(c) PROVE Keyed'
  BY <1>0, <1>5 DEF Apply, Keyed, Doing, Creating, TypeOK
<1>6. ASSUME NEW c \in Reqs, RequireBrain(c) PROVE Keyed'
  <2>1. dek[c] = None /\ blob[c] = None /\ pc'[c] # "warm"
    BY <1>0, <1>6 DEF RequireBrain, Doing, TypeOK
  <2>2. \A e \in Reqs : e # c => at'[e] = at[e] /\ pc'[e] = pc[e]
    BY <1>0, <1>6 DEF RequireBrain, TypeOK
  <2>3. UNCHANGED <<dek, blob, keys, cache, store, made>>
    BY <1>6 DEF RequireBrain
  <2>4. QED BY <1>0, <2>1, <2>2, <2>3 DEF Keyed
<1>7. ASSUME NEW c \in Reqs, List(c) PROVE Keyed'
  <2>1. /\ at[c] \in Ids /\ pc'[c] # "warm"
        /\ \A e \in Reqs : e # c => pc'[e] = pc[e] /\ blob'[e] = blob[e]
        /\ blob'[c] = blob[c] \/ \E k \in Keys : blob'[c] = store[<<at[c], k>>]
        /\ UNCHANGED <<at, dek, keys, cache, store, made>>
    BY <1>0, <1>7, ListDoes
  <2>2. blob'[c] \in FromMade(at[c])
    BY <1>0, <2>1 DEF Keyed
  <2>3. QED BY <1>0, <2>1, <2>2 DEF Keyed
<1>8. ASSUME NEW c \in Reqs, ReadCache(c) PROVE Keyed'
  BY <1>0, <1>8 DEF ReadCache, Keyed, Doing, Creating, TypeOK
<1>9. ASSUME NEW c \in Reqs, GetBrainKey(c) PROVE Keyed'
  BY <1>0, <1>9 DEF GetBrainKey, Keyed, Doing, Creating, TypeOK
<1>10. ASSUME NEW c \in Reqs, FillCache(c) PROVE Keyed'
  BY <1>0, <1>10 DEF FillCache, Keyed, Doing, Creating, TypeOK
<1>11. ASSUME NEW c \in Reqs, PutBrainKey(c) PROVE Keyed'
  BY <1>0, <1>11 DEF PutBrainKey, Keyed, Doing, Creating, TypeOK
<1>12. ASSUME NEW c \in Reqs, WarmCache(c) PROVE Keyed'
  BY <1>0, <1>12 DEF WarmCache, Keyed, Doing, Creating, TypeOK
<1>13. ASSUME NEW c \in Reqs, Reread(c) PROVE Keyed'
  BY <1>0, <1>13 DEF Reread, Keyed, Doing, Creating, TypeOK
<1>14. ASSUME NEW c \in Reqs, Put(c) PROVE Keyed'
  BY <1>0, <1>14 DEF Put, Keyed, Doing, Creating, TypeOK
<1>15. ASSUME NEW c \in Reqs, Open(c) PROVE Keyed'
  BY <1>0, <1>15 DEF Open, Keyed, Doing, Creating, TypeOK
<1>16. ASSUME NEW c \in Reqs, Fail(c) PROVE Keyed'
  BY <1>0, <1>16 DEF Fail, Keyed, TypeOK
<1>17. CASE RestartServer
  BY <1>0, <1>17 DEF RestartServer, Begun, Keyed, TypeOK
<1>18. CASE UNCHANGED vars
  BY <1>0, <1>18 DEF vars, Keyed
<1>19. QED BY <1>1, <1>2, <1>3, <1>4, <1>5, <1>6, <1>7, <1>8, <1>9, <1>10, <1>11, <1>12, <1>13, <1>14, <1>15, <1>16, <1>17, <1>18 DEF Next, Handle

THEOREM InvHolds == Spec => []IInv
<1>1. IInv /\ [Next]_vars => IInv'
  BY TypeStep, DoingStep, CreatingStep, KeyedStep DEF IInv
<1>2. QED BY InitOK, <1>1, PTL DEF Spec

-------------------------------------------------------------------------------
(* The types hold, and what works on a brain's key was admitted to the brain  *)
(* (serve/server.go, withBrain).                                              *)
THEOREM TypeCorrect == Spec => []TypeOK
<1>1. IInv => TypeOK
  BY DEF IInv
<1>2. QED BY <1>1, InvHolds, PTL

(* A set of at most one element. *)
LEMMA AtMostOne ==
  ASSUME NEW S, IsFiniteSet(S), Cardinality(S) <= 1, NEW x \in S, NEW y \in S
  PROVE  x = y
<1> SUFFICES ASSUME x # y PROVE FALSE
  OBVIOUS
<1>1. IsFiniteSet({x}) /\ Cardinality({x}) = 1
  BY FS_Singleton
<1>2. Cardinality({x} \cup {y}) = 2
  <2> DEFINE X == {x}
  <2>1. IsFiniteSet(X) /\ Cardinality(X) = 1 /\ y \notin X
    BY <1>1
  <2> HIDE DEF X
  <2>2. Cardinality(X \cup {y}) = Cardinality(X) + 1
    BY <2>1, FS_AddElement
  <2>3. Cardinality(X \cup {y}) = 2
    BY <2>1, <2>2
  <2>4. QED BY <2>3 DEF X
<1>3. {x} \cup {y} \in SUBSET S
  OBVIOUS
<1>4. Cardinality({x} \cup {y}) <= Cardinality(S)
  BY <1>3, FS_Subset
<1>5. Cardinality(S) \in Nat
  BY FS_CardinalityType
<1>6. QED BY <1>2, <1>4, <1>5

(* As long as one key at most was put for a brain (serve/atrest.go: eagerly   *)
(* by the create, else by the first that wants it), what is stored in it      *)
(* opens with the key that is persisted, and no pull fails on a blob.         *)
THEOREM OneKeyIsReadable == Spec => []OneKeyReadable
<1>1. ASSUME IInv PROVE OneKeyReadable
  <2> SUFFICES ASSUME NEW b \in Ids, Cardinality(made[b]) <= 1
               PROVE  /\ \A k \in Keys : store[<<b, k>>] \in {None, keys[b]}
                      /\ \A c \in Reqs : at[c] = b => pc[c] # "unreadable"
    BY DEF OneKeyReadable
  <2> USE DEF FromMade
  <2>1. made[b] \subseteq Reqs /\ None \notin made[b]
    BY <1>1, BrainsAssumption DEF IInv, TypeOK
  <2>2. IsFiniteSet(made[b])
    <3>1. made[b] \in SUBSET Ids
      BY <2>1
    <3>2. QED BY <3>1, BrainsAssumption, FS_Subset
  <2>3. \A x, y \in made[b] : x = y
    BY <2>2, AtMostOne
  <2>4. \A k \in Keys : store[<<b, k>>] \in {None, keys[b]}
    BY <1>1, <2>3 DEF IInv, Keyed
  <2>5. \A c \in Reqs : at[c] = b => pc[c] # "unreadable"
    <3> SUFFICES ASSUME NEW c \in Reqs, at[c] = b, pc[c] = "unreadable" PROVE FALSE
      OBVIOUS
    <3>1. dek[c] # None /\ blob[c] # None /\ dek[c] # blob[c]
      BY <1>1 DEF IInv, Doing, Working
    <3>2. dek[c] \in made[b] /\ blob[c] \in made[b]
      BY <1>1, <3>1 DEF IInv, Keyed
    <3>3. QED BY <2>3, <3>1, <3>2
  <2>6. QED BY <2>4, <2>5
<1>2. QED BY <1>1, InvHolds, PTL

(* Whoever was answered 201 by POST /v1/brains can use the brain from then on: *)
(* nobody, the owner included, takes the owner's membership or the key away    *)
(* (serve/brains.go, "owner-cannot-orphan").                                   *)
THEOREM CreatedStaysUsable == Spec => []CreatedIsUsable
<1>1. IInv => CreatedIsUsable
  BY DEF IInv, Creating, CreatedIsUsable
<1>2. QED BY <1>1, InvHolds, PTL
===============================================================================

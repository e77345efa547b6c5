--------------------------------- MODULE Brains ---------------------------------
(***************************************************************************)
(* The brains of `resleeve serve`: creation, membership, and the key under *)
(* which the server encrypts a brain's blobs at rest (serve/brains.go,     *)
(* serve/tenancy.go, serve/atrest.go, storage/sql/sqlite/tenancy.go).      *)
(* Requests are handled concurrently; each reads and writes the tables and *)
(* the key cache one statement at a time and without a transaction.        *)
(*                                                                         *)
(* A request that makes a data encryption key gives it its own name, and a *)
(* blob is the name of the key it was encrypted with: GCM opens it with    *)
(* that key and with no other.  A push carries one row, a pull reads one.  *)
(***************************************************************************)
EXTENDS Naturals, FiniteSets

CONSTANTS
  Users, Keys,
  Reqs,        \* requests
  Kind,        \* what a request asks for
  User,        \* whose device sends it
  Selector,    \* ?brain=, or the {id} of the path; a create names its new brain
  Row,         \* the key a push writes
  Target,      \* whom add and remove are about
  Old,         \* brains from before the master key was configured
  OldOwner,    \* ... and their owners; they are personal
  None,        \* no selector, no key, no blob
  MaxBrains,   \* maxBrainsPerUser
  MaxFaults    \* bound: failed statements and restarts

Ids == Reqs \cup Old
Some == Reqs \cup {None}

ASSUME BrainsAssumption ==
  /\ Kind \in [Reqs -> {"create", "push", "pull", "add", "remove"}]
  /\ User \in [Reqs -> Users]
  /\ Selector \in [Reqs -> Ids \cup {None}]
  /\ Row \in [Reqs -> Keys]
  /\ Target \in [Reqs -> Users]
  /\ OldOwner \in [Old -> Users]
  /\ Old \cap Reqs = {} /\ None \notin Ids
  /\ \A c \in Reqs : Kind[c] = "create" => Selector[c] = c
  /\ IsFiniteSet(Ids)
  /\ MaxBrains \in Nat
  /\ MaxFaults \in Nat

VARIABLES
  pc,       \* where a request is, or how it ended
  at,       \* the brain a request was admitted to
  dek,      \* the key a request has got hold of
  blob,     \* the blob a pull has read
  brains,   \* brains: the owner of each row
  members,  \* memberships
  keys,     \* brain_keys
  cache,    \* dekCache, in memory
  store,    \* the backend, by brain and key
  faults,
  made      \* history: the keys that were ever put for a brain

locals == <<pc, at, dek, blob>>
tables == <<brains, members, keys>>
vars == <<locals, tables, cache, store, faults, made>>

First == [create |-> "count", push |-> "admit", pull |-> "admit", add |-> "owner", remove |-> "owner"]
Ends == {"ok", "refused", "failed", "unreadable"}

Init ==
  /\ pc = [c \in Reqs |-> First[Kind[c]]]
  /\ at = [c \in Reqs |-> None]
  /\ dek = [c \in Reqs |-> None]
  /\ blob = [c \in Reqs |-> None]
  /\ brains = OldOwner
  /\ members = {<<b, OldOwner[b]>> : b \in Old}
  /\ keys = [b \in Ids |-> None]
  /\ cache = [b \in Ids |-> None]
  /\ store = [r \in Ids \X Keys |-> None]
  /\ faults = 0
  /\ made = [b \in Ids |-> {}]

Goto(c, s) == pc' = [pc EXCEPT ![c] = s]

-------------------------------------------------------------------------------
(* Tables *)

ListByOwner(u) == {b \in DOMAIN brains : brains[b] = u}
IsMember(u, b) == <<b, u>> \in members

(* scopeKey: the server puts the brain before the key of the client. *)
ScopeKey(b, k) == <<b, k>>

-------------------------------------------------------------------------------
(* POST /v1/brains *)

Count(c) ==
  /\ pc[c] = "count"
  /\ Goto(c, IF Cardinality(ListByOwner(User[c])) < MaxBrains THEN "insert" ELSE "refused")
  /\ UNCHANGED <<at, dek, blob, tables, cache, store, faults, made>>

Insert(c) ==
  /\ pc[c] = "insert"
  /\ brains' = [b \in DOMAIN brains \cup {c} |-> IF b = c THEN User[c] ELSE brains[b]]
  /\ at' = [at EXCEPT ![c] = c]
  /\ Goto(c, "join")
  /\ UNCHANGED <<dek, blob, members, keys, cache, store, faults, made>>

Join(c) ==
  /\ pc[c] = "join"
  /\ members' = members \cup {<<c, User[c]>>}
  /\ Goto(c, "key")
  /\ UNCHANGED <<at, dek, blob, brains, keys, cache, store, faults, made>>

-------------------------------------------------------------------------------
(* POST and DELETE /v1/brains/{id}/members *)

(* Mutant: the owner may leave. *)
RequireOwnerOnly(c) ==
  /\ pc[c] = "owner"
  /\ Goto(c, IF Selector[c] \in DOMAIN brains /\ brains[Selector[c]] = User[c]
             THEN "apply" ELSE "refused")
  /\ UNCHANGED <<at, dek, blob, tables, cache, store, faults, made>>

(* requireOwner, and for a removal the guard for the owner. *)
RequireOwner(c) ==
  /\ pc[c] = "owner"
  /\ Goto(c, IF /\ Selector[c] \in DOMAIN brains
                /\ brains[Selector[c]] = User[c]
                /\ Kind[c] = "remove" => Target[c] # User[c]
             THEN "apply" ELSE "refused")
  /\ UNCHANGED <<at, dek, blob, tables, cache, store, faults, made>>

Apply(c) ==
  /\ pc[c] = "apply"
  /\ members' = IF Kind[c] = "add" THEN members \cup {<<Selector[c], Target[c]>>}
                                   ELSE members \ {<<Selector[c], Target[c]>>}
  /\ Goto(c, "ok")
  /\ UNCHANGED <<at, dek, blob, brains, keys, cache, store, faults, made>>

-------------------------------------------------------------------------------
(* POST /v2/sync/push and GET /v2/sync/pull *)

(* resolveBrain: a selected brain wants a membership, none means the user's  *)
(* personal brain, for which nobody asks.                                    *)
Resolves(c, b) ==
  IF Selector[c] = None THEN b \in Old \cap ListByOwner(User[c])
                        ELSE b = Selector[c] /\ IsMember(User[c], b)

RequireBrain(c) ==
  /\ pc[c] = "admit"
  /\ \/ \E b \in Ids : /\ Resolves(c, b)
                       /\ at' = [at EXCEPT ![c] = b]
                       /\ Goto(c, IF Kind[c] = "push" THEN "cached" ELSE "list")
     \/ (\A b \in Ids : ~Resolves(c, b)) /\ Goto(c, "refused") /\ UNCHANGED at
  /\ UNCHANGED <<dek, blob, tables, cache, store, faults, made>>

(* List and Get: a pull of an empty brain never asks for a key. *)
List(c) ==
  /\ pc[c] = "list"
  /\ \/ \E k \in Keys : /\ store[ScopeKey(at[c], k)] # None
                        /\ blob' = [blob EXCEPT ![c] = store[ScopeKey(at[c], k)]]
                        /\ Goto(c, "cached")
     \/ /\ \A k \in Keys : store[ScopeKey(at[c], k)] = None
        /\ Goto(c, "ok") /\ UNCHANGED blob
  /\ UNCHANGED <<at, dek, tables, cache, store, faults, made>>

(* What a request does with its key. *)
Use(c) == IF Kind[c] = "push" THEN "put" ELSE "open"

(* brainDEK *)
ReadCache(c) ==
  /\ pc[c] = "cached"
  /\ dek' = [dek EXCEPT ![c] = cache[at[c]]]
  /\ Goto(c, IF cache[at[c]] # None THEN Use(c) ELSE "lookup")
  /\ UNCHANGED <<at, blob, tables, cache, store, faults, made>>

GetBrainKey(c) ==
  /\ pc[c] = "lookup"
  /\ dek' = [dek EXCEPT ![c] = keys[at[c]]]
  /\ Goto(c, IF keys[at[c]] # None THEN "fill" ELSE "key")
  /\ UNCHANGED <<at, blob, tables, cache, store, faults, made>>

FillCache(c) ==
  /\ pc[c] = "fill"
  /\ cache' = [cache EXCEPT ![at[c]] = dek[c]]
  /\ Goto(c, Use(c))
  /\ UNCHANGED <<at, dek, blob, tables, store, faults, made>>

(* Mutant: the cache is warmed before the row is put. *)
WarmFirst(c) ==
  /\ pc[c] = "key"
  /\ IF cache[at[c]] # c
     THEN cache' = [cache EXCEPT ![at[c]] = c] /\ UNCHANGED <<keys, made, pc>>
     ELSE /\ keys' = [keys EXCEPT ![at[c]] = c]
          /\ made' = [made EXCEPT ![at[c]] = @ \cup {c}]
          /\ Goto(c, "warm") /\ UNCHANGED cache
  /\ UNCHANGED <<at, dek, blob, brains, members, store, faults>>

(* provisionBrainKey: a new key replaces the row, then goes to the cache. *)
PutBrainKey(c) ==
  /\ pc[c] = "key"
  /\ keys' = [keys EXCEPT ![at[c]] = c]
  /\ made' = [made EXCEPT ![at[c]] = @ \cup {c}]
  /\ Goto(c, "warm")
  /\ UNCHANGED <<at, dek, blob, brains, members, cache, store, faults>>

WarmCache(c) ==
  /\ pc[c] = "warm"
  /\ cache' = [cache EXCEPT ![at[c]] = c]
  /\ Goto(c, IF Kind[c] = "create" THEN "ok" ELSE "reread")
  /\ UNCHANGED <<at, dek, blob, tables, store, faults, made>>

Reread(c) ==
  /\ pc[c] = "reread"
  /\ dek' = [dek EXCEPT ![c] = cache[at[c]]]
  /\ Goto(c, IF cache[at[c]] # None THEN Use(c) ELSE "failed")
  /\ UNCHANGED <<at, blob, tables, cache, store, faults, made>>

Put(c) ==
  /\ pc[c] = "put"
  /\ store' = [store EXCEPT ![ScopeKey(at[c], Row[c])] = dek[c]]
  /\ Goto(c, "ok")
  /\ UNCHANGED <<at, dek, blob, tables, cache, faults, made>>

(* One row that does not open fails the whole page. *)
Open(c) ==
  /\ pc[c] = "open"
  /\ Goto(c, IF dek[c] = blob[c] THEN "ok" ELSE "unreadable")
  /\ UNCHANGED <<at, dek, blob, tables, cache, store, faults, made>>

-------------------------------------------------------------------------------
(* Faults *)

(* A statement fails, or the client hangs up. *)
Fail(c) ==
  /\ faults < MaxFaults
  /\ pc[c] \notin Ends
  /\ faults' = faults + 1
  /\ Goto(c, "failed")
  /\ UNCHANGED <<at, dek, blob, tables, cache, store, made>>

Begun(c) == pc[c] \notin Ends /\ pc[c] # First[Kind[c]]

RestartServer ==
  /\ faults < MaxFaults
  /\ faults' = faults + 1
  /\ cache' = [b \in Ids |-> None]
  /\ pc' = [c \in Reqs |-> IF Begun(c) THEN "failed" ELSE pc[c]]
  /\ UNCHANGED <<at, dek, blob, tables, store, made>>

Handle(c) ==
  \/ Count(c) \/ Insert(c) \/ Join(c)
  \/ RequireOwner(c) \/ Apply(c)
  \/ RequireBrain(c) \/ List(c)
  \/ ReadCache(c) \/ GetBrainKey(c) \/ FillCache(c)
  \/ PutBrainKey(c) \/ WarmCache(c) \/ Reread(c)
  \/ Put(c) \/ Open(c)

Next == (\E c \in Reqs : Handle(c) \/ Fail(c)) \/ RestartServer

Spec == Init /\ [][Next]_vars

-------------------------------------------------------------------------------
(* Properties *)

Pcs == {"count", "insert", "join", "owner", "apply", "admit", "list", "cached", "lookup",
        "fill", "key", "warm", "reread", "put", "open"} \cup Ends

(* Types; only an admitted request works on a brain's key. *)
TypeOK ==
  /\ pc \in [Reqs -> Pcs]
  /\ at \in [Reqs -> Ids \cup {None}]
  /\ dek \in [Reqs -> Some]
  /\ blob \in [Reqs -> Some]
  /\ brains \in [DOMAIN brains -> Users] /\ DOMAIN brains \subseteq Ids
  /\ members \subseteq (DOMAIN brains) \X Users
  /\ keys \in [Ids -> Some]
  /\ cache \in [Ids -> Some]
  /\ store \in [Ids \X Keys -> Some]
  /\ faults \in Nat
  /\ made \in [Ids -> SUBSET Reqs]
  /\ \A c \in Reqs :
       pc[c] \in {"list", "cached", "lookup", "fill", "key", "warm", "reread", "put", "open"}
       => at[c] \in Ids

(* A brain for which one key was put keeps all its blobs readable, through   *)
(* failed requests, restarts and every order of the cache and the table; and *)
(* no pull of it fails on a blob that does not open.                         *)
OneKeyReadable ==
  \A b \in Ids :
    Cardinality(made[b]) <= 1
    => /\ \A k \in Keys : store[ScopeKey(b, k)] \in {None, keys[b]}
       /\ \A c \in Reqs : at[c] = b => pc[c] # "unreadable"

(* When a create has answered 201 its owner can use the brain, and whatever  *)
(* members are added and removed later the owner stays one of them           *)
(* ("owner-cannot-orphan", serve/brains.go) and the key stays there.         *)
CreatedIsUsable ==
  \A c \in Reqs :
    Kind[c] = "create" /\ pc[c] = "ok"
    => IsMember(User[c], c) /\ keys[c] # None

-------------------------------------------------------------------------------
(* Stated by the docs and not kept by the code (README, "Disagreements"); no *)
(* run checks it.                                                            *)

(* "the server encrypts every blob with a per-brain Data Encryption Key      *)
(* (DEK) before backend.Put and decrypts after backend.Get ... The DEK is    *)
(* wrapped under the master key and persisted in brain_keys"                 *)
(* (serve/atrest.go): what is stored opens with what is persisted.           *)
BlobsReadable ==
  \A b \in Ids, k \in Keys : store[ScopeKey(b, k)] \in {None, keys[b]}
===============================================================================

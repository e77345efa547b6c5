-------------------------------- MODULE Accounts --------------------------------
(***************************************************************************)
(* Registration, login, logout and pairing: CLI calls on several machines  *)
(* (cli/auth.go, cli/pair.go) against the handlers of `resleeve serve`     *)
(* (serve/auth_handlers.go), which run their SQL statements one by one and *)
(* without a transaction (storage/sql/sqlite/identity.go, tenancy.go).     *)
(*                                                                         *)
(* One email address.  A call that mints a device names that device, its   *)
(* token, and for a registration the account row and the KEK made with it; *)
(* an invite also names its pairing code.  Verifiers, salts and envelopes  *)
(* come down to whether the user typed the right secret: a KEK unwraps     *)
(* with the secret it was wrapped under and with no other.  A wrong secret *)
(* is a choice of the action that checks it.                               *)
(***************************************************************************)
EXTENDS Naturals, FiniteSets

CONSTANTS
  Calls,       \* calls of the CLI
  Kind,        \* which verb a call runs
  Machines,
  MachineOf,   \* where a call runs
  None,        \* no row, no token, no sealer
  MaxAttempts, \* pairClaimMaxAttempts
  ShortTtl,    \* what `pair invite` asks for its own device
  CodeTtl,     \* life of a pairing code
  MaxTime,     \* bound: time passes up to here, and on to the last expiry
  MaxFaults    \* bound: failed statements, lost answers and restarts

ASSUME AccountsAssumption ==
  /\ Kind \in [Calls -> {"register", "login", "logout", "invite", "accept"}]
  /\ MachineOf \in [Calls -> Machines]
  /\ None \notin Calls
  /\ MaxAttempts \in Nat \ {0}
  /\ ShortTtl \in Nat \ {0}
  /\ CodeTtl \in Nat \ {0}
  /\ MaxTime \in Nat
  /\ MaxFaults \in Nat

Never == 0   \* expires_at is NULL
Code == [kek : Calls, exp : Nat, claimed : BOOLEAN]
Some == Calls \cup {None}

VARIABLES
  pc,        \* where a call is, or how it ended
  got,       \* the KEK a call has unwrapped
  tok,       \* the token a call has read from the keychain
  claim,     \* the code an accept was given and the time it was looked up
  user,      \* server_users: the registration whose row is there
  brain,     \* how many of the three rows of the personal brain are there
  devices,   \* devices: the tokens with a row, and when they expire
  codes,     \* pairing_codes
  attempts,  \* pairAttempts, in memory
  keychain,  \* per machine: the token stored for this account
  sealer,    \* per machine: the KEK in the daemon
  now,
  faults,
  paired     \* history: which device was minted for which code

locals == <<pc, got, tok, claim>>
account == <<user, brain>>
pairing == <<codes, attempts>>
machines == <<keychain, sealer>>
vars == <<locals, account, devices, pairing, machines, now, faults, paired>>

First == [register |-> "check", login |-> "challenge", invite |-> "challenge",
          logout |-> "read", accept |-> "get"]
Ends == {"ok", "locked", "failed", "gone"}

Init ==
  /\ pc = [c \in Calls |-> First[Kind[c]]]
  /\ got = [c \in Calls |-> None]
  /\ tok = [c \in Calls |-> None]
  /\ claim = [c \in Calls |-> [code |-> None, at |-> 0]]
  /\ user = None
  /\ brain = 0
  /\ devices = [d \in {} |-> 0]
  /\ codes = [i \in {} |-> [kek |-> None, exp |-> 0, claimed |-> FALSE]]
  /\ attempts = [c \in Calls |-> 0]
  /\ keychain = [m \in Machines |-> None]
  /\ sealer = [m \in Machines |-> None]
  /\ now = 0
  /\ faults = 0
  /\ paired = {}

Goto(c, s) == pc' = [pc EXCEPT ![c] = s]
Without(f, x) == [y \in DOMAIN f \ {x} |-> f[y]]
With(f, x, v) == [y \in DOMAIN f \cup {x} |-> IF y = x THEN v ELSE f[y]]

(* deviceFromBearer: an expired row is deleted when it is presented. *)
Live(t) == t \in DOMAIN devices /\ (devices[t] = Never \/ now < devices[t])

(* A registration makes a KEK of its own, on the client. *)
Signup(c) == c

(* A call has the right verifier, and unwraps the KEK, if the row its        *)
(* challenge was answered from is still the account's.                       *)
Unwraps(c) == got[c] # None /\ got[c] = user

-------------------------------------------------------------------------------
(* POST /v2/auth/register *)

Check(c) ==
  /\ pc[c] = "check"
  /\ Goto(c, IF user = None THEN "insert" ELSE "failed")
  /\ UNCHANGED <<got, tok, claim, account, devices, pairing, machines, now, faults, paired>>

(* Mutant: a second registration replaces the row of the first. *)
Upsert(c) ==
  /\ pc[c] = "insert"
  /\ user' = c
  /\ got' = [got EXCEPT ![c] = Signup(c)]
  /\ Goto(c, "mint")
  /\ UNCHANGED <<tok, claim, brain, devices, pairing, machines, now, faults, paired>>

(* server_users.email is UNIQUE: the later of two insertions fails. *)
Insert(c) ==
  /\ pc[c] = "insert"
  /\ IF user = None
     THEN user' = c /\ got' = [got EXCEPT ![c] = Signup(c)] /\ Goto(c, "mint")
     ELSE UNCHANGED <<user, got>> /\ Goto(c, "failed")
  /\ UNCHANGED <<tok, claim, brain, devices, pairing, machines, now, faults, paired>>

(* Mutant: the key of the brain is left to the first request that needs it. *)
ProvisionLazily(c) ==
  /\ pc[c] = "provision"
  /\ brain' = brain + 1
  /\ Goto(c, IF brain + 1 >= 2 THEN "put" ELSE "provision")
  /\ UNCHANGED <<got, tok, claim, user, devices, pairing, machines, now, faults, paired>>

(* provisionPersonalBrain: the brain, the membership, the key. *)
Provision(c) ==
  /\ pc[c] = "provision"
  /\ brain' = brain + 1
  /\ Goto(c, IF brain + 1 = 3 THEN "put" ELSE "provision")
  /\ UNCHANGED <<got, tok, claim, user, devices, pairing, machines, now, faults, paired>>

-------------------------------------------------------------------------------
(* POST /v2/auth/login-challenge and /v2/auth/login.  The challenge for an   *)
(* unknown address is a made-up salt, with which no later login succeeds.    *)

Challenge(c) ==
  /\ pc[c] = "challenge"
  /\ got' = [got EXCEPT ![c] = user]
  /\ Goto(c, "verify")
  /\ UNCHANGED <<tok, claim, account, devices, pairing, machines, now, faults, paired>>

Verify(c) ==
  /\ pc[c] = "verify"
  /\ \/ Unwraps(c) /\ Goto(c, "mint")
     \/ Goto(c, "failed")
  /\ UNCHANGED <<got, tok, claim, account, devices, pairing, machines, now, faults, paired>>

AfterMint == [register |-> "provision", login |-> "put", accept |-> "put", invite |-> "read"]

(* Mutant: the lifetime the client asks for is ignored. *)
MintForEver(c) ==
  /\ pc[c] = "mint"
  /\ devices' = With(devices, c, Never)
  /\ paired' = IF Kind[c] = "accept" THEN paired \cup {<<c, claim[c].code>>} ELSE paired
  /\ Goto(c, AfterMint[Kind[c]])
  /\ UNCHANGED <<got, tok, claim, account, pairing, machines, now, faults>>

(* mintDeviceWithTTL; only `pair invite` asks for an expiry. *)
Mint(c) ==
  /\ pc[c] = "mint"
  /\ devices' = With(devices, c, IF Kind[c] = "invite" THEN now + ShortTtl ELSE Never)
  /\ paired' = IF Kind[c] = "accept" THEN paired \cup {<<c, claim[c].code>>} ELSE paired
  /\ Goto(c, AfterMint[Kind[c]])
  /\ UNCHANGED <<got, tok, claim, account, pairing, machines, now, faults>>

-------------------------------------------------------------------------------
(* The client's side: keychain and daemon. *)

(* An accept without an email stores no token. *)
Put(c) ==
  /\ pc[c] = "put"
  /\ \/ keychain' = [keychain EXCEPT ![MachineOf[c]] = c]
     \/ Kind[c] = "accept" /\ UNCHANGED keychain
  /\ Goto(c, IF Kind[c] = "register" THEN "ok" ELSE "unlock")
  /\ UNCHANGED <<got, tok, claim, account, devices, pairing, sealer, now, faults, paired>>

(* unlockLocalDaemon is best effort: the verb succeeds without a daemon. *)
Unlock(c) ==
  /\ pc[c] = "unlock"
  /\ \/ sealer' = [sealer EXCEPT ![MachineOf[c]] = got[c]] /\ Goto(c, "ok")
     \/ UNCHANGED sealer /\ Goto(c, "locked")
  /\ UNCHANGED <<got, tok, claim, account, devices, pairing, keychain, now, faults, paired>>

ReadToken(c) ==
  /\ pc[c] = "read"
  /\ tok' = [tok EXCEPT ![c] = keychain[MachineOf[c]]]
  /\ Goto(c, CASE keychain[MachineOf[c]] = None /\ Kind[c] = "logout" -> "failed"
               [] keychain[MachineOf[c]] = None /\ Kind[c] = "invite" -> "own"
               [] keychain[MachineOf[c]] # None /\ Kind[c] = "logout" -> "revoke"
               [] OTHER -> "publish")
  /\ UNCHANGED <<got, claim, account, devices, pairing, machines, now, faults, paired>>

(* POST /v2/auth/logout with a token: a dead one is refused and the row, if  *)
(* it was only expired, deleted all the same.  `logout` goes on after a      *)
(* refusal, and an invite revokes the device of its own login on the way out.*)
Revoke(c) ==
  /\ pc[c] \in {"revoke", "own"}
  /\ devices' = Without(devices, IF pc[c] = "own" THEN c ELSE tok[c])
  /\ Goto(c, IF pc[c] = "own" THEN "ok" ELSE "delete")
  /\ UNCHANGED <<got, tok, claim, account, pairing, machines, now, faults, paired>>

DeleteToken(c) ==
  /\ pc[c] = "delete"
  /\ keychain' = [keychain EXCEPT ![MachineOf[c]] = None]
  /\ Goto(c, "lock")
  /\ UNCHANGED <<got, tok, claim, account, devices, pairing, sealer, now, faults, paired>>

Lock(c) ==
  /\ pc[c] = "lock"
  /\ \/ sealer' = [sealer EXCEPT ![MachineOf[c]] = None]
     \/ UNCHANGED sealer
  /\ Goto(c, "ok")
  /\ UNCHANGED <<got, tok, claim, account, devices, pairing, keychain, now, faults, paired>>

DaemonStops(m) ==
  /\ sealer[m] # None
  /\ sealer' = [sealer EXCEPT ![m] = None]
  /\ UNCHANGED <<locals, account, devices, pairing, keychain, now, faults, paired>>

-------------------------------------------------------------------------------
(* POST /v2/auth/pair/publish, with the machine's own token *)

Publish(c) ==
  /\ pc[c] = "publish"
  /\ IF Live(tok[c])
     THEN /\ codes' = With(codes, c, [kek |-> got[c], exp |-> now + CodeTtl, claimed |-> FALSE])
          /\ Goto(c, "sweep")
          /\ UNCHANGED devices
     ELSE /\ devices' = Without(devices, tok[c])
          /\ Goto(c, "own")
          /\ UNCHANGED codes
  /\ UNCHANGED <<got, tok, claim, account, attempts, machines, now, faults, paired>>

(* SweepExpired, with the time read before the insertion; the in-memory      *)
(* counters of the codes it deletes stay.                                    *)
SweepExpired(c) ==
  /\ pc[c] = "sweep"
  /\ LET at == IF c \in DOMAIN codes THEN codes[c].exp - CodeTtl ELSE 0
     IN codes' = [i \in {j \in DOMAIN codes : codes[j].exp > at} |-> codes[i]]
  /\ Goto(c, "own")
  /\ UNCHANGED <<got, tok, claim, account, devices, attempts, machines, now, faults, paired>>

-------------------------------------------------------------------------------
(* POST /v2/auth/pair/claim *)

Printed(i) == Kind[i] = "invite" /\ pc[i] \in {"own", "ok"} /\ tok[i] # None

(* The row is read once; everything until Claim goes by this copy.           *)
GetCode(c, i) ==
  /\ pc[c] = "get"
  /\ Printed(i)
  /\ claim' = [claim EXCEPT ![c] = [code |-> i, at |-> now]]
  /\ IF i \notin DOMAIN codes THEN Goto(c, "failed")
     ELSE IF codes[i].claimed THEN Goto(c, "gone")
     ELSE IF codes[i].exp < now THEN Goto(c, "lockout")
     ELSE Goto(c, "claim") \/ Goto(c, "record")
  /\ got' = [got EXCEPT ![c] = IF i \in DOMAIN codes THEN codes[i].kek ELSE None]
  /\ UNCHANGED <<tok, account, devices, pairing, machines, now, faults, paired>>

(* pairClaimRecordFailure, after a wrong code. *)
RecordFailure(c) ==
  LET i == claim[c].code IN
  /\ pc[c] = "record"
  /\ attempts' = [attempts EXCEPT ![i] = @ + 1]
  /\ Goto(c, IF attempts[i] + 1 >= MaxAttempts THEN "lockout" ELSE "failed")
  /\ UNCHANGED <<got, tok, claim, account, devices, codes, machines, now, faults, paired>>

(* pairClaimLockout deletes the row, then the counter. *)
Lockout(c) ==
  /\ pc[c] = "lockout"
  /\ codes' = Without(codes, claim[c].code)
  /\ Goto(c, "forget")
  /\ UNCHANGED <<got, tok, claim, account, devices, attempts, machines, now, faults, paired>>

(* Mutant: the update does not look at claimed_at. *)
ClaimAgain(c) ==
  LET i == claim[c].code IN
  /\ pc[c] = "claim"
  /\ IF i \in DOMAIN codes /\ codes[i].exp > claim[c].at
     THEN codes' = [codes EXCEPT ![i].claimed = TRUE] /\ Goto(c, "clear")
     ELSE UNCHANGED codes /\ Goto(c, "gone")
  /\ UNCHANGED <<got, tok, claim, account, devices, attempts, machines, now, faults, paired>>

(* The one UPDATE that decides between two claims of a code. *)
Claim(c) ==
  LET i == claim[c].code IN
  /\ pc[c] = "claim"
  /\ IF i \in DOMAIN codes /\ ~codes[i].claimed /\ codes[i].exp > claim[c].at
     THEN codes' = [codes EXCEPT ![i].claimed = TRUE] /\ Goto(c, "clear")
     ELSE UNCHANGED codes /\ Goto(c, "gone")
  /\ UNCHANGED <<got, tok, claim, account, devices, attempts, machines, now, faults, paired>>

ClearAttempts(c) ==
  /\ pc[c] \in {"clear", "forget"}
  /\ attempts' = [attempts EXCEPT ![claim[c].code] = 0]
  /\ Goto(c, IF pc[c] = "clear" THEN "mint" ELSE "failed")
  /\ UNCHANGED <<got, tok, claim, account, devices, codes, machines, now, faults, paired>>

-------------------------------------------------------------------------------
(* Faults *)

(* Where a call goes on when a request fails: `logout` goes on to its local  *)
(* half, an invite that is logged in revokes that login, the others end.     *)
AfterFault(c) ==
  CASE pc[c] = "revoke" -> "delete"
    [] pc[c] \in {"publish", "sweep"} -> "own"
    [] OTHER -> "failed"

(* A statement fails, an answer is lost, or the user interrupts the call. *)
Fail(c) ==
  /\ faults < MaxFaults
  /\ pc[c] \notin Ends
  /\ faults' = faults + 1
  /\ Goto(c, AfterFault(c))
  /\ UNCHANGED <<got, tok, claim, account, devices, pairing, machines, now, paired>>

InServer == {"check", "insert", "mint", "provision", "verify", "revoke", "publish", "sweep",
             "claim", "record", "lockout", "forget", "clear"}

RestartServer ==
  /\ faults < MaxFaults
  /\ faults' = faults + 1
  /\ attempts' = [c \in Calls |-> 0]
  /\ pc' = [c \in Calls |-> IF pc[c] \in InServer THEN AfterFault(c) ELSE pc[c]]
  /\ UNCHANGED <<got, tok, claim, account, devices, codes, machines, now, paired>>

(* Past MaxTime the clock runs on for as long as a device has to expire. *)
Tick ==
  /\ now < MaxTime \/ \E c \in Calls : Live(c) /\ devices[c] # Never
  /\ now' = now + 1
  /\ UNCHANGED <<locals, account, devices, pairing, machines, faults, paired>>

ServerStep(c) ==
  \/ Check(c) \/ Insert(c) \/ Provision(c)
  \/ Challenge(c) \/ Verify(c) \/ Mint(c)
  \/ Revoke(c) \/ Publish(c) \/ SweepExpired(c)
  \/ \E i \in Calls : GetCode(c, i)
  \/ RecordFailure(c) \/ Lockout(c) \/ Claim(c) \/ ClearAttempts(c)

ClientStep(c) ==
  \/ Put(c) \/ Unlock(c) \/ ReadToken(c) \/ DeleteToken(c) \/ Lock(c)

Next ==
  \/ \E c \in Calls : ServerStep(c) \/ ClientStep(c) \/ Fail(c)
  \/ \E m \in Machines : DaemonStops(m)
  \/ RestartServer
  \/ Tick

Spec == Init /\ [][Next]_vars

(* Time passes whatever the calls do. *)
FairSpec == Spec /\ WF_vars(Tick)

-------------------------------------------------------------------------------
(* Properties *)

Pcs == {"check", "insert", "mint", "provision", "challenge", "verify", "put", "unlock",
        "read", "revoke", "own", "delete", "lock", "publish", "sweep", "get", "record",
        "lockout", "forget", "claim", "clear"} \cup Ends

(* Types; the personal brain has at most its three rows. *)
TypeOK ==
  /\ pc \in [Calls -> Pcs]
  /\ got \in [Calls -> Some]
  /\ tok \in [Calls -> Some]
  /\ claim \in [Calls -> [code : Some, at : Nat]]
  /\ user \in Some
  /\ brain \in 0..3
  /\ devices \in [DOMAIN devices -> Nat] /\ DOMAIN devices \subseteq Calls
  /\ codes \in [DOMAIN codes -> Code] /\ DOMAIN codes \subseteq Calls
  /\ attempts \in [Calls -> Nat]
  /\ keychain \in [Machines -> Some]
  /\ sealer \in [Machines -> Some]
  /\ now \in Nat /\ faults \in Nat
  /\ paired \in SUBSET (Calls \X Some)

(* A pairing code brings in one device, however many machines claim it at    *)
(* the same time and however late their claims are: handlePairClaim says     *)
(* "Atomic claim before minting the device so a concurrent claim loses".     *)
OneDevicePerCode ==
  \A p \in paired, q \in paired : p[2] = q[2] => p = q

(* When register has answered 201, its account row is the one that is kept   *)
(* and the brain, the membership and the key are there: no later request has *)
(* to make up for a half-done registration.                                  *)
AnsweredRegister ==
  \A c \in Calls :
    Kind[c] = "register" /\ pc[c] \in {"put", "ok"} => user = c /\ brain = 3

(* Every daemon of the account seals with the same KEK, through two          *)
(* registrations of the address at once, logins during them, and pairing;    *)
(* two KEKs would leave each machine unable to open the other's rows.        *)
SealersAgree ==
  \A m \in Machines : sealer[m] \in {None, user}

(* The device that `pair invite` logs in with stops being usable, also when  *)
(* the call that should revoke it never happens: cli/pair.go asks for a      *)
(* lifetime as "belt-and-braces".                                            *)
EphemeralEnds ==
  \A c \in Calls : Kind[c] = "invite" => []<>(~Live(c))

-------------------------------------------------------------------------------
(* Stated by the docs and not kept by the code (README, "Disagreements"); no *)
(* run checks it.                                                            *)

(* "Every user is a member of exactly one (their own) brain"                 *)
(* (serve/auth_handlers.go), once the registration is over.                  *)
EveryUserHasBrain ==
  user # None /\ pc[user] \in Ends => brain >= 2

(* "start daemon with `resleeve up --upstream`, then re-run pair accept"     *)
(* (cli/pair.go): an accept that found no daemon can be run again.           *)
RerunUnlocks ==
  \A c \in Calls, d \in Calls :
    Kind[c] = "accept" /\ Kind[d] = "accept" /\ c # d /\ MachineOf[c] = MachineOf[d]
      /\ claim[c].code = claim[d].code /\ pc[c] = "locked"
    => pc[d] # "gone"
===============================================================================

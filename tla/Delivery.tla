------------------------------ MODULE Delivery ------------------------------
(***************************************************************************)
(* What the push half of sync promises, without batches, requests, retries *)
(* or restarts: a key handed to the outbox stays owed to the upstream      *)
(* until the upstream holds a blob under it.  A key may be handed over and *)
(* delivered any number of times; only a delivered key may stop being      *)
(* owed.  "Writes queue in outbox. No data loss."                          *)
(*                                     (docs/design/round-4/03, line 116)  *)
(***************************************************************************)

CONSTANT Keys

VARIABLES
  accepted,   \* keys a daemon handler has handed over
  owed,       \* keys still waiting for the upstream's acknowledgement
  delivered   \* keys the upstream holds a blob under

dvars == <<accepted, owed, delivered>>

DInit ==
  /\ accepted = {}
  /\ owed = {}
  /\ delivered = {}

Accept(k) ==
  /\ accepted' = accepted \cup {k}
  /\ owed' = owed \cup {k}
  /\ UNCHANGED delivered

Deliver(k) ==
  /\ k \in accepted
  /\ delivered' = delivered \cup {k}
  /\ UNCHANGED <<accepted, owed>>

Settle(K) ==
  /\ K \subseteq delivered
  /\ owed' = owed \ K
  /\ UNCHANGED <<accepted, delivered>>

DNext ==
  \/ \E k \in Keys : Accept(k) \/ Deliver(k)
  \/ \E K \in SUBSET Keys : Settle(K)

DSpec == DInit /\ [][DNext]_dvars
=============================================================================

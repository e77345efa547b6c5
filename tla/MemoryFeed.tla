------------------------------ MODULE MemoryFeed ------------------------------
(***************************************************************************)
(* How rows of kind memory reach a device: handlePush stores a row and     *)
(* publishes it to the hub (serve/server.go, serve/fanout.go), handleSSE   *)
(* replays the backlog and forwards what the hub gives it, and the device  *)
(* ingests the stream (sseLoop, runSSE) beside its periodic pull           *)
(* (pullKind), both over the one memory cursor (agent/sync.go).            *)
(*                                                                         *)
(* A row is the rank of its key in the order List returns, with a version  *)
(* that counts the blobs put under it; only scope rows are written again.  *)
(* One brain; its other members and this device's own outbox are Put.      *)
(***************************************************************************)
EXTENDS Naturals, Sequences, FiniteSets

CONSTANTS
  Scopes,      \* keys memory/<scope>
  Learnings,   \* keys memory/<scope>/learnings/<id>
  Plans,       \* keys memory/<scope>/plans/<slot>/<version>
  ScopeOf,     \* the scope row a key belongs to (its foreign key)
  MaxConns,    \* bound: SSE requests at a time
  Limit,       \* rows per List
  Buffer,      \* fanoutBuffer
  Wire,        \* rows a connection holds before a write blocks
  MaxSlots,    \* maxSSEPerUser
  Rewritten,   \* bound: scopes that are written a second time
  Late,        \* bound: keys that are put after a later one
  MaxFailures  \* bound: broken connections, failed pulls and statements, restarts

Conns == 1..MaxConns
Keys == Scopes \cup Learnings \cup Plans

ASSUME FeedAssumption ==
  /\ Keys \subseteq Nat \ {0}
  /\ Scopes \cap (Learnings \cup Plans) = {}
  /\ Learnings \cap Plans = {}
  /\ ScopeOf \in [Keys -> Scopes]
  /\ \A s \in Scopes : ScopeOf[s] = s
  /\ \A k \in Keys : ScopeOf[k] <= k
  /\ Limit \in Nat \ {0}
  /\ Buffer \in Nat \ {0}
  /\ Wire \in Nat \ {0}
  /\ MaxConns \in Nat
  /\ MaxSlots \in Nat \ {0}
  /\ Rewritten \subseteq Scopes
  /\ Late \subseteq Keys
  /\ MaxFailures \in Nat

VARIABLES
  store,    \* the backend: the version put under each key, 0 if none
  putting,  \* rows that handlePush has put and not yet published
  conn,     \* the server's side of each SSE request
  slots,    \* sseCounts of the user
  reading,  \* the connections runSSE reads from: one or none
  moved,    \* the key of the row runSSE has ingested and not yet saved, or 0
  cursor,   \* sync_state.cursor of kind memory
  local,    \* the version in the device's tables, 0 if none
  pull,     \* pullKind: where it is, its cursor and the rest of its page
  failures, \* how many faults have happened
  twice,    \* history: plans appended more than once
  dropped,  \* history: keys dropped by a full buffer
  missed,   \* history: keys of rows whose statement has failed
  inOrder   \* history: has one handler put the rows, in the order of their keys

client == <<reading, moved, cursor, local, twice>>
feedVars == <<store, putting, conn, slots, client, pull, failures, dropped, missed, inOrder>>

Row == [key : Keys, version : Nat]

(* told: the keys whose present row was sent on the connection, or dropped. *)
Request == [state : {"free", "dial", "open", "sub", "backlog", "live"},
            start : Nat, since : Nat, todo : SUBSET Keys, full : BOOLEAN,
            buf : Seq(Row), wire : Seq(Row), told : SUBSET Keys]
NoConn == [state |-> "free", start |-> 0, since |-> 0, todo |-> {}, full |-> FALSE,
           buf |-> <<>>, wire |-> <<>>, told |-> {}]

PullRun == [at : {"idle", "list", "ingest"}, cursor : Nat, page : SUBSET Row, full : BOOLEAN]
NoPull == [at |-> "idle", cursor |-> 0, page |-> {}, full |-> FALSE]

FeedInit ==
  /\ store = [k \in Keys |-> 0]
  /\ putting = {}
  /\ conn = [x \in Conns |-> NoConn]
  /\ slots = 0
  /\ reading = {}
  /\ moved = 0
  /\ cursor = 0
  /\ local = [k \in Keys |-> 0]
  /\ pull = NoPull
  /\ failures = 0
  /\ twice = {}
  /\ dropped = {}
  /\ missed = {}
  /\ inOrder = TRUE

-------------------------------------------------------------------------------
(* The backend's List: the first Limit keys after a cursor.                 *)
After(c) == {k \in Keys : store[k] # 0 /\ k > c}
Page(c) == {k \in After(c) : Cardinality({j \in After(c) : j < k}) < Limit}
First(k, page) == k \in page /\ \A j \in page : k <= j

Current(k) == [key |-> k, version |-> store[k]]

(* handlePush: a row is in the backend before it is published.  Other       *)
(* requests may come in between.                                            *)
Put(k) ==
  /\ store[k] < IF k \in Rewritten THEN 2 ELSE 1
  /\ After(k) = {} \/ k \in Late
  /\ store' = [store EXCEPT ![k] = @ + 1]
  /\ putting' = putting \cup {[key |-> k, version |-> store[k] + 1]}
  /\ conn' = [x \in Conns |-> [conn[x] EXCEPT !.told = @ \ {k}]]
  /\ inOrder' = (inOrder /\ putting = {} /\ After(k - 1) = {} /\ (k \in Scopes \/ store[ScopeOf[k]] # 0))
  /\ UNCHANGED <<slots, client, pull, failures, dropped, missed>>

(* Mutant: the handler subscribes once the backlog has been sent.           *)
SubscribedLate(x) == conn[x].state = "live"

Subscribed(x) == conn[x].state \in {"sub", "backlog", "live"}

(* Publish: never waits for a subscriber; a full buffer drops the row.      *)
Deliver(x, row) ==
  IF ~Subscribed(x) THEN conn[x]
  ELSE IF Len(conn[x].buf) < Buffer THEN [conn[x] EXCEPT !.buf = Append(@, row)]
  ELSE IF row = Current(row.key) THEN [conn[x] EXCEPT !.told = @ \cup {row.key}]
  ELSE conn[x]

Publish(row) ==
  /\ row \in putting
  /\ putting' = putting \ {row}
  /\ conn' = [x \in Conns |-> Deliver(x, row)]
  /\ dropped' = IF \E x \in Conns : Subscribed(x) /\ Len(conn[x].buf) = Buffer
                THEN dropped \cup {row.key} ELSE dropped
  /\ UNCHANGED <<store, slots, client, pull, failures, missed, inOrder>>

-------------------------------------------------------------------------------
(* handleSSE, one request. *)

(* Mutant: no cap. *)
AcceptAny(x) ==
  /\ conn[x].state = "dial"
  /\ slots' = slots + 1
  /\ conn' = [conn EXCEPT ![x].state = "open"]
  /\ UNCHANGED <<store, putting, client, pull, failures, dropped, missed, inOrder>>

Accept(x) ==
  /\ conn[x].state = "dial"
  /\ slots < MaxSlots
  /\ slots' = slots + 1
  /\ conn' = [conn EXCEPT ![x].state = "open"]
  /\ UNCHANGED <<store, putting, client, pull, failures, dropped, missed, inOrder>>

(* 429; runSSE returns an error and sseLoop backs off.                      *)
Reject(x) ==
  /\ conn[x].state = "dial"
  /\ slots >= MaxSlots
  /\ conn' = [conn EXCEPT ![x] = NoConn]
  /\ reading' = reading \ {x}
  /\ UNCHANGED <<store, putting, slots, moved, cursor, local, twice, pull, failures,
                 dropped, missed, inOrder>>

server == <<store, putting, slots, client, pull, failures, dropped, missed, inOrder>>

(* "Subscribe FIRST ... so events that arrive between the backlog read and  *)
(* the live loop aren't lost."                                              *)
Subscribe(x) ==
  /\ conn[x].state = "open"
  /\ conn' = [conn EXCEPT ![x].state = "sub"]
  /\ UNCHANGED server

ListBacklog(x) ==
  /\ conn[x].state = "sub"
  /\ conn' = [conn EXCEPT ![x].state = "backlog",
                          ![x].todo = Page(conn[x].since),
                          ![x].full = Cardinality(Page(conn[x].since)) = Limit]
  /\ UNCHANGED server

(* The blob is read when the row's turn comes, not when it is listed.       *)
BacklogRow(x, k) ==
  /\ conn[x].state = "backlog"
  /\ First(k, conn[x].todo)
  /\ Len(conn[x].wire) < Wire
  /\ conn' = [conn EXCEPT ![x].todo = @ \ {k},
                          ![x].since = k,
                          ![x].wire = Append(@, Current(k)),
                          ![x].told = @ \cup {k}]
  /\ UNCHANGED server

(* Mutant: the backlog is one page.                                         *)
BacklogOnePage(x) ==
  /\ conn[x].state = "backlog"
  /\ conn[x].todo = {}
  /\ conn' = [conn EXCEPT ![x].state = "live", ![x].since = 0, ![x].full = FALSE]
  /\ UNCHANGED server

BacklogPage(x) ==
  /\ conn[x].state = "backlog"
  /\ conn[x].todo = {}
  /\ \/ /\ conn[x].full
        /\ conn' = [conn EXCEPT ![x].state = "sub"]
     \/ /\ ~conn[x].full
        /\ conn' = [conn EXCEPT ![x].state = "live", ![x].since = 0]
  /\ UNCHANGED server

LiveRow(x) ==
  /\ conn[x].state = "live"
  /\ conn[x].buf # <<>>
  /\ Len(conn[x].wire) < Wire
  /\ LET row == Head(conn[x].buf) IN
     conn' = [conn EXCEPT ![x].buf = Tail(@),
                          ![x].wire = Append(@, row),
                          ![x].told = IF row = Current(row.key) THEN @ \cup {row.key} ELSE @]
  /\ UNCHANGED server

(* Mutant: the slot is given back on a clean end only.                      *)
HangupKeepsSlot(x) ==
  /\ conn[x].state \notin {"free", "dial"}
  /\ x \notin reading
  /\ conn' = [conn EXCEPT ![x] = NoConn]
  /\ UNCHANGED server

(* The server notices that the client has gone, by the request's context or *)
(* by a write that fails; the deferred cancel and release run.              *)
Hangup(x) ==
  /\ conn[x].state \notin {"free", "dial"}
  /\ x \notin reading
  /\ conn' = [conn EXCEPT ![x] = NoConn]
  /\ slots' = slots - 1
  /\ UNCHANGED <<store, putting, client, pull, failures, dropped, missed, inOrder>>

-------------------------------------------------------------------------------
(* sseLoop and runSSE. *)

Dial(x) ==
  /\ reading = {}
  /\ First(x, {y \in Conns : conn[y].state = "free"})
  /\ reading' = {x}
  /\ conn' = [conn EXCEPT ![x] = [NoConn EXCEPT !.state = "dial", !.start = cursor,
                                                !.since = cursor]]
  /\ UNCHANGED <<store, putting, slots, moved, cursor, local, twice, pull, failures,
                 dropped, missed, inOrder>>

Fault == failures < MaxFailures /\ failures' = failures + 1

(* ingestMemoryRow: a plan or a learning needs its scope row (the foreign   *)
(* key); a learning is a plain INSERT, a scope an upsert and a plan a       *)
(* forced append.                                                           *)
Ingestible(k) ==
  /\ k \notin Scopes => local[ScopeOf[k]] # 0
  /\ k \in Learnings => local[k] = 0

IngestMemoryRow(row) ==
  /\ local' = [local EXCEPT ![row.key] = row.version]
  /\ twice' = IF row.key \in Plans /\ local[row.key] # 0 THEN twice \cup {row.key} ELSE twice

(* A statement of it fails (SQLITE_BUSY, a full disk): the error is logged, *)
(* and the reader goes on to the next row.                                  *)
RowFails(key) ==
  /\ Fault
  /\ missed' = missed \cup {key}
  /\ UNCHANGED <<local, twice>>

StreamRow(x) ==
  /\ reading = {x}
  /\ moved = 0
  /\ conn[x].wire # <<>>
  /\ conn' = [conn EXCEPT ![x].wire = Tail(@)]
  /\ LET row == Head(conn[x].wire) IN
     \/ /\ Ingestible(row.key)
        /\ IngestMemoryRow(row)
        /\ moved' = row.key
        /\ UNCHANGED <<failures, missed>>
     \/ /\ ~Ingestible(row.key)
        /\ UNCHANGED <<local, twice, moved, failures, missed>>
     \/ /\ RowFails(row.key)
        /\ UNCHANGED moved
  /\ UNCHANGED <<store, putting, slots, reading, cursor, pull, dropped, inOrder>>

(* SetCursor to the key of the row, wherever the cursor is by now.          *)
StreamCursor ==
  /\ moved # 0
  /\ cursor' = moved
  /\ moved' = 0
  /\ UNCHANGED <<store, putting, conn, slots, reading, local, twice, pull, failures,
                 dropped, missed, inOrder>>

-------------------------------------------------------------------------------
(* pullKind for kind memory. *)

PullStart ==
  /\ pull.at = "idle"
  /\ pull' = [pull EXCEPT !.at = "list", !.cursor = cursor]
  /\ UNCHANGED <<store, putting, conn, slots, client, failures, dropped, missed, inOrder>>

(* Mutant: the cursor is saved when the page has come.                      *)
PullListAndSave ==
  /\ pull.at = "list"
  /\ LET page == Page(pull.cursor) IN
     IF page = {} THEN pull' = NoPull /\ UNCHANGED cursor
     ELSE /\ pull' = [pull EXCEPT !.at = "ingest", !.page = {Current(k) : k \in page},
                                  !.full = Cardinality(page) = Limit]
          /\ \E k \in page : (\A j \in page : j <= k) /\ cursor' = k
  /\ UNCHANGED <<store, putting, conn, slots, reading, moved, local, twice, failures,
                 dropped, missed, inOrder>>

PullList ==
  /\ pull.at = "list"
  /\ LET page == Page(pull.cursor) IN
     pull' = IF page = {} THEN NoPull
             ELSE [pull EXCEPT !.at = "ingest", !.page = {Current(k) : k \in page},
                               !.full = Cardinality(page) = Limit]
  /\ UNCHANGED <<store, putting, conn, slots, client, failures, dropped, missed, inOrder>>

PullRow(row) ==
  /\ pull.at = "ingest"
  /\ First(row.key, {r.key : r \in pull.page})
  /\ \/ /\ Ingestible(row.key)
        /\ IngestMemoryRow(row)
        /\ pull' = [pull EXCEPT !.page = @ \ {row}, !.cursor = row.key]
        /\ UNCHANGED <<failures, missed>>
     \/ /\ ~Ingestible(row.key)
        /\ pull' = [pull EXCEPT !.page = @ \ {row}]
        /\ UNCHANGED <<local, twice, failures, missed>>
     \/ /\ RowFails(row.key)
        /\ pull' = [pull EXCEPT !.page = @ \ {row}]
  /\ UNCHANGED <<store, putting, conn, slots, reading, moved, cursor, dropped, inOrder>>

PullCursor ==
  /\ pull.at = "ingest"
  /\ pull.page = {}
  /\ cursor' = IF pull.cursor # 0 THEN pull.cursor ELSE cursor
  /\ pull' = IF pull.full THEN [pull EXCEPT !.at = "list", !.full = FALSE] ELSE NoPull
  /\ UNCHANGED <<store, putting, conn, slots, reading, moved, local, twice, failures,
                 dropped, missed, inOrder>>

-------------------------------------------------------------------------------
(* Faults. *)

(* The client loses its connection, or its request has timed out.           *)
Break ==
  /\ Fault
  /\ reading # {}
  /\ moved = 0
  /\ reading' = {}
  /\ UNCHANGED <<store, putting, conn, slots, moved, cursor, local, twice, pull, dropped, missed, inOrder>>

PullFails ==
  /\ Fault
  /\ pull.at # "idle"
  /\ pull' = NoPull
  /\ UNCHANGED <<store, putting, conn, slots, client, dropped, missed, inOrder>>

RestartDaemon ==
  /\ Fault
  /\ reading' = {}
  /\ moved' = 0
  /\ pull' = NoPull
  /\ UNCHANGED <<store, putting, conn, slots, cursor, local, twice, dropped, missed, inOrder>>

(* The hub, the slots and the requests are gone; what was put stays.        *)
RestartServer ==
  /\ Fault
  /\ putting' = {}
  /\ conn' = [x \in Conns |-> NoConn]
  /\ slots' = 0
  /\ reading' = {}
  /\ UNCHANGED <<store, moved, cursor, local, twice, pull, dropped, missed, inOrder>>

-------------------------------------------------------------------------------
ServerStep(x) ==
  \/ Accept(x)
  \/ Reject(x)
  \/ Subscribe(x)
  \/ ListBacklog(x)
  \/ \E k \in conn[x].todo : BacklogRow(x, k)
  \/ BacklogPage(x)
  \/ LiveRow(x)
  \/ Hangup(x)

ClientStep ==
  \/ \E x \in Conns : Dial(x) \/ StreamRow(x)
  \/ StreamCursor

PullStep ==
  \/ PullStart
  \/ PullList
  \/ \E row \in pull.page : PullRow(row)
  \/ PullCursor

FeedNext ==
  \/ \E k \in Keys : Put(k)
  \/ \E row \in putting : Publish(row)
  \/ \E x \in Conns : ServerStep(x)
  \/ ClientStep
  \/ PullStep
  \/ Break
  \/ PullFails
  \/ RestartDaemon
  \/ RestartServer

FeedSpec == FeedInit /\ [][FeedNext]_feedVars

(* The goroutines of the stream's two ends run, and a push that has stored  *)
(* a row goes on to publish it; the pull is not needed.                     *)
Fairness ==
  /\ \A x \in Conns : WF_feedVars(ServerStep(x))
  /\ WF_feedVars(ClientStep)
  /\ WF_feedVars(\E row \in putting : Publish(row))

FairSpec == FeedSpec /\ Fairness

-------------------------------------------------------------------------------
(* Types of the hub, the connections and the tables. *)
FeedTypeOK ==
  /\ store \in [Keys -> Nat]
  /\ putting \subseteq Row
  /\ conn \in [Conns -> Request]
  /\ slots \in 0..MaxSlots
  /\ reading \subseteq Conns
  /\ moved \in Nat
  /\ cursor \in Nat
  /\ local \in [Keys -> Nat]
  /\ pull \in PullRun
  /\ failures \in Nat
  /\ twice \subseteq Plans
  /\ {dropped, missed} \subseteq SUBSET Keys
  /\ inOrder \in BOOLEAN

(* "so events that arrive between the backlog read and the live loop aren't *)
(* lost" (serve/server.go, line 637): once a stream is live, the present    *)
(* row of every key after its since= has been sent, is buffered, was        *)
(* dropped, or is about to be published to it.                              *)
NoGap ==
  \A x \in Conns : conn[x].state = "live" =>
    \A k \in After(conn[x].start) :
      \/ k \in conn[x].told
      \/ Current(k) \in putting
      \/ \E i \in DOMAIN conn[x].buf : conn[x].buf[i] = Current(k)

(* The count of a user's streams is that of the requests that have not      *)
(* ended: "reject 429 over the cap, and release on disconnect".             *)
SlotsCounted == slots = Cardinality({x \in Conns : conn[x].state \notin {"free", "dial"}})

(* A full buffer dropped the row, or a statement of its ingestion failed,   *)
(* or it waits for a scope with which that happened.                        *)
Lost(k) == {k, ScopeOf[k]} \cap (dropped \cup missed) # {}

(* "Each successful ingestion advances the memory cursor so a subsequent    *)
(* reconnect picks up exactly where we left off" (agent/sync.go, line 923): *)
(* as long as rows are pushed one at a time and in the order of their keys, *)
(* what the cursor has passed is in the tables, however the stream, the     *)
(* backlog, the pull, broken connections, failed pulls and restarts         *)
(* interleave, but for the rows that are Lost.                              *)
CursorSafe ==
  inOrder => \A k \in Keys : store[k] # 0 /\ k <= cursor /\ ~Lost(k) => local[k] # 0

(* "missed rows during downtime are replayed by the server's backlog walk"  *)
(* (agent/sync.go, line 880): under the same conditions the stream alone,   *)
(* without the pull, brings every row that is not Lost.                     *)
StreamDelivers ==
  <>[](inOrder => \A k \in Keys : store[k] # 0 /\ ~Lost(k) => local[k] # 0)

-------------------------------------------------------------------------------
(* Stated by the docs and not kept by the code (README, "Disagreements"); no *)
(* run checks it.                                                            *)

(* "All operations are idempotent against the local memory store, so        *)
(* replaying the same row (e.g. SSE backlog + live) is safe"                *)
(* (agent/sync.go, line 745): no plan version is appended twice.            *)
ReplaySafe == twice = {}

(* "picks up exactly where we left off", with rows whose statement failed.  *)
CursorOnSuccess ==
  inOrder => \A k \in Keys :
    store[k] # 0 /\ k <= cursor /\ {k, ScopeOf[k]} \cap dropped = {} => local[k] # 0

(* "The periodic pull remains the correctness backstop" (serve/fanout.go,   *)
(* line 10): with the pull running, the device ends up with the rows of the  *)
(* backend.                                                                 *)
PullFairness == WF_feedVars(PullStep)
BackstopSpec == FairSpec /\ PullFairness
Converges == <>[](\A k \in Keys : local[k] = store[k])
===============================================================================

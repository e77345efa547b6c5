------------------------------ MODULE Transport ------------------------------
(***************************************************************************)
(* One conversation on several machines: its transcript is captured on     *)
(* one, travels as events, and `resleeve resume` writes it out on another, *)
(* where the vendor's CLI goes on with it and the next sweep captures the  *)
(* result (adapter/claude, adapter/codex, cli/resume.go).                  *)
(*                                                                         *)
(* A record is numbered by its place in "record"; a transcript holds       *)
(* lines: a record, the envelope of a hook, or a session_meta that         *)
(* resleeve made up.  A row is a stored event: the key its deterministic   *)
(* UUID is the hash of, its seq, the record it is about, and its native    *)
(* payload.  How a batch becomes rows is module Capture, how rows reach    *)
(* the other machine Outbox and PullCursor; here both are one step.  A     *)
(* hook adds a row that is not there yet or nothing, so that one that      *)
(* comes after a sweep is one that was not captured, and it is part of the *)
(* step of the CLI that runs it.                                           *)
(***************************************************************************)
EXTENDS Naturals, Sequences, FiniteSets, SequencesExt

CONSTANTS
  Machines,    \* machines with a daemon and the vendor's CLI
  Origins,     \* those where the conversation may begin
  Hooked,      \* those with the hooks installed
  Vendors,     \* "claude" or "codex"
  Written,     \* kinds of records that the CLI writes
  Texts,       \* texts of prompts, as numbers
  Ahead,       \* how far the clock of a machine is ahead
  PageSize,    \* pageSize of loadAllEvents
  RecentN,     \* defaultRecentN of the prime prompt
  MaxRecords,  \* bound: records of the conversation
  MaxNow,      \* bound: milliseconds
  MaxResumes   \* bound: `resleeve resume`

ASSUME TransportAssumption ==
  /\ Origins \subseteq Machines /\ Hooked \subseteq Machines
  /\ Vendors \subseteq {"claude", "codex"}
  /\ Written \subseteq {"prompt", "blocks", "text", "call", "result", "note", "noise"}
  /\ Texts \subseteq Nat \ {0}
  /\ Ahead \in [Machines -> Nat]
  /\ PageSize \in Nat \ {0} /\ RecentN \in Nat \ {0}
  /\ MaxRecords \in Nat /\ MaxNow \in Nat /\ MaxResumes \in Nat

VARIABLES
  cli,      \* the vendor of the conversation
  flip,     \* which way the UUIDs, being hashes, sort two events of one seq
  now,      \* the time
  record,   \* the records the CLI has written, in order
  file,     \* the transcript on each machine
  store,    \* table events of each machine
  started,  \* sessions.started_at, 0 without a session row
  prime,    \* the last prompt that prime mode made, on each machine
  resumes   \* how often `resleeve resume` ran

transportVars == <<cli, flip, now, record, file, store, started, prime, resumes>>

NoFile == <<[n |-> 0, as |-> "none", ts |-> 0]>>
Line(n) == [n |-> n, as |-> "line", ts |-> record[n].ts]
Envelope(n) == [n |-> n, as |-> "envelope", ts |-> 0]
Meta(ts) == [n |-> 0, as |-> "meta", ts |-> ts]
NoPayload == [n |-> 0, as |-> "none", ts |-> 0]
NoKey == <<"none", 0>>
NoPrime == [recent |-> <<>>, pairs |-> {}, next |-> NoKey]

Clock(m) == now + Ahead[m]

(* Timestamps have a resolution of a millisecond and seq one of a            *)
(* nanosecond: Ms(t) + k is a little after the millisecond t, and no two     *)
(* hooks read the same time.                                                 *)
Step == 4 * (MaxRecords + 4)
Ms(t) == Step * t
HookSeq(m) == Ms(Clock(m)) + MaxRecords + 3 * Len(record)

TransportInit ==
  /\ cli \in Vendors
  /\ flip \in BOOLEAN
  /\ now = 1
  /\ record = <<>>
  /\ file = [m \in Machines |-> NoFile]
  /\ store = [m \in Machines |-> {}]
  /\ started = [m \in Machines |-> 0]
  /\ prime = [m \in Machines |-> NoPrime]
  /\ resumes = 0

-------------------------------------------------------------------------------
(* The keys. *)

StartKey == <<"start", 0>>
EndKey == <<"end", 0>>

(* Mutant: a prompt of codex is known by its time. *)
UserKeyByTime(n) == <<"user", IF cli = "claude" THEN n ELSE record[n].ts + 1>>

(* The prompt's id, or for codex, which has none to share between its hook   *)
(* and its rollout, the text.                                                *)
UserKey(n) == <<"user", IF cli = "claude" THEN n ELSE record[n].text>>

(* The record's uuid, or for codex, without an item id, the timestamp.       *)
OwnKey(kind, n, i) == <<kind, IF cli = "claude" THEN n ELSE record[n].ts>>

CallKey(n) == <<"call", n>>
ResultKey(n) == <<"result", record[n].call>>

(* A record of claude: the user's, with a prompt or a result; the            *)
(* assistant's, with a block of text before each call; a note has no uuid.   *)
(* A prompt whose content is an array of blocks, or whose record has no      *)
(* promptId, is known by the record's uuid: its kind is "blocks".            *)
UserFromJSONL(n) ==
  <<CASE record[n].kind = "prompt" -> UserKey(n)
      [] record[n].kind = "blocks" -> OwnKey("text", n, 0)
      [] OTHER -> ResultKey(n)>>

AssistantFromJSONL(n) ==
  <<OwnKey("text", n, 0)>> \o (IF record[n].kind = "call" THEN <<CallKey(n)>> ELSE <<>>)

SystemFromJSONL(n) == <<<<"note", 0>>>>

ClaudeFromJSONL(n) ==
  CASE record[n].kind \in {"prompt", "blocks", "result"} -> UserFromJSONL(n)
    [] record[n].kind \in {"text", "call"} -> AssistantFromJSONL(n)
    [] record[n].kind = "note" -> SystemFromJSONL(n)
    [] OTHER -> <<>>

(* A line of a rollout of codex: the session_meta, a response_item, the      *)
(* event_msg with a prompt, a mark like turn_context; other event_msg are    *)
(* for the screen and give nothing.                                          *)
MessageFromResponseItem(n, i) == <<OwnKey("text", n, i)>>

ResponseItemFromJSONL(n, i) ==
  CASE record[n].kind = "text" -> MessageFromResponseItem(n, i)
    [] record[n].kind = "call" -> <<CallKey(n)>>
    [] OTHER -> <<ResultKey(n)>>

EventMsgFromJSONL(n) == IF record[n].kind = "prompt" THEN <<UserKey(n)>> ELSE <<>>

MarkFromJSONL(n, i) == <<OwnKey("note", n, i)>>

CodexFromJSONL(n, i) ==
  CASE record[n].kind = "meta" -> <<StartKey>>
    [] record[n].kind \in {"text", "call", "result"} -> ResponseItemFromJSONL(n, i)
    [] record[n].kind = "note" -> MarkFromJSONL(n, i)
    [] OTHER -> EventMsgFromJSONL(n)

(* What line i of a transcript is made into; the envelope of a hook parses   *)
(* as no record.                                                             *)
KeysOf(line, i) ==
  CASE line.as = "meta" -> <<StartKey>>
    [] line.as = "line" -> IF cli = "claude" THEN ClaudeFromJSONL(line.n)
                           ELSE CodexFromJSONL(line.n, i)
    [] OTHER -> <<>>

LineEvents(line, i) ==
  [k \in DOMAIN KeysOf(line, i) |->
     [key |-> KeysOf(line, i)[k], rec |-> line.n, seq |-> Ms(line.ts) + k - 1, native |-> line]]

(* Mutant: the seq of a line is its timestamp. *)
AsStamped(E) == E

(* lastSeq: within a rollout of codex the seq only grows. *)
Bumped(E) ==
  IF cli = "claude" THEN E
  ELSE LET upTo[i \in 0..Len(E)] ==
             IF i = 0 THEN <<>>
             ELSE LET done == upTo[i - 1]
                      lastSeq == IF i = 1 THEN 0 ELSE done[i - 1].seq
                  IN Append(done, IF E[i].seq > lastSeq THEN E[i]
                                  ELSE [E[i] EXCEPT !.seq = lastSeq + 1])
       IN upTo[Len(E)]

(* synthesizeSessionStart, for a transcript that does not name its start.    *)
(* A note of claude has no cwd to make one from.                             *)
Start(E) == [key |-> StartKey, rec |-> 0, seq |-> E[1].seq - 1, native |-> NoPayload]

Starts(E) ==
  IF cli = "codex" THEN E # <<>> /\ \A i \in DOMAIN E : E[i].key # StartKey
  ELSE \E i \in DOMAIN E : E[i].key[1] # "note"

FromFile(lines) ==
  LET E == Bumped(FlattenSeq([i \in DOMAIN lines |-> LineEvents(lines[i], i)]))
  IN IF Starts(E) THEN <<Start(E)>> \o E ELSE E

(* The timestamp of an event of a transcript; a made up start has that of    *)
(* the first line.                                                           *)
Timestamp(e) == IF e.native.as = "none" THEN (e.seq + 1) \div Step ELSE e.native.ts

KeysIn(S) == {e.key : e \in S}

(* Mutant: a plain INSERT. *)
AddedAlways(S, E) == S \cup ToSet(E)

(* INSERT OR IGNORE on the UUID: the row that came first stays. *)
Added(S, E) ==
  S \cup {E[i] : i \in {j \in DOMAIN E : /\ E[j].key \notin KeysIn(S)
                                         /\ \A k \in 1..(j - 1) : E[k].key # E[j].key}}

(* The same for rows of another machine. *)
Merged(S, R) == S \cup {e \in R : e.key \notin KeysIn(S)}

(* IngestBatch: the session row of the first batch stays too. *)
IngestBatch(m, E, ts) ==
  /\ store' = [store EXCEPT ![m] = Added(@, E)]
  /\ started' = [started EXCEPT ![m] = IF @ = 0 /\ E # <<>> THEN ts ELSE @]

-------------------------------------------------------------------------------
(* The vendor's CLI. *)

HookRow(m, key, n, after) ==
  [key |-> key, rec |-> n, seq |-> HookSeq(m) + after, native |-> Envelope(n)]

(* What `resleeve hook` sends: one call of PostToolUse is two events, and a  *)
(* prompt without a prompt_id none, as if the hook had not come through.     *)
HookEvents(m, n) ==
  CASE record'[n].kind \in {"prompt", "blocks"} ->
         <<HookRow(m, <<"user", IF cli = "claude" THEN n ELSE record'[n].text>>, n, 0)>>
    [] record'[n].kind = "result" ->
         <<HookRow(m, CallKey(record'[n].call), record'[n].call, 0),
           HookRow(m, <<"result", record'[n].call>>, n, 1)>>
    [] OTHER -> <<>>

Hook(m, E, captured) ==
  IF captured THEN IngestBatch(m, E, Clock(m)) ELSE UNCHANGED <<store, started>>

(* Records a transcript shows to the CLI that reads it. *)
Shown(lines) == {lines[i].n : i \in {j \in DOMAIN lines : lines[j].as = "line"}}

(* A record's "after" is what its author could read before it. *)
NewRecord(m, kind, text, call) ==
  [kind |-> kind, ts |-> Clock(m), text |-> text, call |-> call,
   after |-> IF file[m] = NoFile THEN {} ELSE Shown(file[m])]

Tick == now' \in {now, now + 1} /\ now' <= MaxNow

(* The conversation begins, on one machine. *)
Open(m, captured) ==
  /\ record = <<>> /\ file[m] = NoFile
  /\ record' = IF cli = "codex" THEN <<NewRecord(m, "meta", 0, 0)>>
               ELSE <<NewRecord(m, "noise", 0, 0)>>
  /\ file' = [file EXCEPT ![m] = <<[n |-> 1, as |-> "line", ts |-> Clock(m)]>>]
  /\ Hook(m, <<HookRow(m, StartKey, 0, 0)>>, captured)
  /\ Tick
  /\ UNCHANGED <<cli, flip, prime, resumes>>

Calls(m) == {n \in Shown(file[m]) : record[n].kind = "call"}
OpenCalls(m) == {c \in Calls(m) : \A i \in DOMAIN record : record[i].call # c}

Write(m, kind, text, call, captured) ==
  /\ file[m] # NoFile
  /\ kind = "blocks" => cli = "claude"
  /\ Len(record) < MaxRecords
  /\ record' = Append(record, NewRecord(m, kind, text, call))
  /\ file' = [file EXCEPT ![m] = Append(@, [n |-> Len(record'), as |-> "line", ts |-> Clock(m)])]
  /\ Hook(m, HookEvents(m, Len(record')), captured)
  /\ Tick
  /\ UNCHANGED <<cli, flip, prime, resumes>>

(* The Stop hook. *)
Stop(m) ==
  /\ file[m] # NoFile
  /\ m \in Hooked
  /\ IngestBatch(m, <<HookRow(m, EndKey, 0, 0)>>, Clock(m))
  /\ UNCHANGED <<cli, flip, now, record, file, prime, resumes>>

-------------------------------------------------------------------------------
(* resleeve. *)

(* ReconcileOnce: a daemon starts. *)
Sweep(m) ==
  /\ file[m] # NoFile
  /\ LET E == FromFile(file[m])
     IN IngestBatch(m, E, IF E = <<>> THEN 0 ELSE Timestamp(E[1]))
  /\ UNCHANGED <<cli, flip, now, record, file, prime, resumes>>

(* A push and a pull later the rows are on another machine. *)
Sync(m, from) ==
  /\ store' = [store EXCEPT ![m] = Merged(@, store[from])]
  /\ started' = [started EXCEPT ![m] = IF @ = 0 THEN started[from] ELSE @]
  /\ UNCHANGED <<cli, flip, now, record, file, prime, resumes>>

(* ORDER BY seq, and by the UUID where two are equal. *)
Earlier(a, b) == a[1] < b[1] \/ (a[1] = b[1] /\ a[2] < b[2])
Rank(key) == CASE key[1] = "start" -> <<0, 0>> [] key[1] = "end" -> <<9, 0>>
               [] key[1] = "user" -> <<1, key[2]>> [] key[1] = "text" -> <<2, key[2]>>
               [] key[1] = "call" -> <<3, key[2]>> [] key[1] = "result" -> <<4, key[2]>>
               [] OTHER -> <<5, key[2]>>

Precedes(a, b) ==
  \/ a.seq < b.seq
  \/ a.seq = b.seq /\ a # b /\ (Earlier(Rank(a.key), Rank(b.key)) # flip)

Sorted(S) ==
  LET sorted[R \in SUBSET S] ==
        IF R = {} THEN <<>>
        ELSE LET e == CHOOSE e \in R : \A d \in R \ {e} : Precedes(e, d)
             IN <<e>> \o sorted[R \ {e}]
  IN sorted[S]

(* The cursor is the seq of the last row of the page, and exclusive.         *)
SinceSeq(s, e) == s[e].seq

(* loadAllEvents: page by page. *)
LoadAllEvents(S) ==
  LET s == Sorted(S)
      from[p \in 1..(Len(s) + 1)] ==
        IF p > Len(s) THEN <<>>
        ELSE LET e == IF p + PageSize - 1 < Len(s) THEN p + PageSize - 1 ELSE Len(s)
                 rest == {q \in (e + 1)..Len(s) : s[q].seq > SinceSeq(s, e)}
                 next == IF rest = {} THEN Len(s) + 1
                         ELSE CHOOSE q \in rest : \A r \in rest : q <= r
             IN SubSeq(s, p, e) \o from[next]
  IN from[1]

(* toNativeReplay: the payloads as they are.  The one row without a payload  *)
(* is the start that was made up, from which codex can have a session_meta.  *)
ClaudeReplay(E) ==
  FlattenSeq([i \in DOMAIN E |-> IF E[i].native.as = "none" THEN <<>> ELSE <<E[i].native>>])

SynthesizeRolloutLine(e) == Meta(Timestamp(e))

CodexReplay(E) ==
  [i \in DOMAIN E |-> IF E[i].native.as = "none" THEN SynthesizeRolloutLine(E[i]) ELSE E[i].native]

IsMeta(line) == line.as = "meta" \/ (line.as = "line" /\ record[line.n].kind = "meta")

(* Mutant: the rollout is written as it was rendered. *)
AsRendered(lines, ts) == lines

EnsureLeadingSessionMeta(lines, ts) ==
  IF lines # <<>> /\ IsMeta(lines[1]) THEN lines ELSE <<Meta(ts)>> \o lines

ClaudeHydrate(E) == <<>> \o ClaudeReplay(E)
CodexHydrate(E, ts) == <<>> \o EnsureLeadingSessionMeta(CodexReplay(E), ts)

(* resolveSession: a pull, which may come to nothing ("from" is m), and then *)
(* the session row.                                                          *)
ResolveSession(m, from) ==
  /\ resumes < MaxResumes
  /\ resumes' = resumes + 1
  /\ started[m] # 0 \/ started[from] # 0
  /\ started' = [started EXCEPT ![m] = IF @ = 0 THEN started[from] ELSE @]

Pulled(m, from) == Merged(store[m], store[from])

(* execOrPrint: the CLI starts on the transcript, and runs its hook. *)
ExecOrPrint(m, S, captured) ==
  IF captured THEN Added(S, <<HookRow(m, StartKey, 0, 0)>>) ELSE S

(* Hydrate in replay mode: the transcript is replaced. *)
Replay(m, from, captured) ==
  LET E == LoadAllEvents(Pulled(m, from))
  IN /\ file' = [file EXCEPT ![m] =
          IF cli = "claude" THEN ClaudeHydrate(E) ELSE CodexHydrate(E, started'[m])]
     /\ store' = [store EXCEPT ![m] = ExecOrPrint(m, Pulled(m, from), captured)]
     /\ UNCHANGED <<cli, flip, now, record, prime>>

(* Mutant: a call is given the result that follows it. *)
PairsWithNext(E) ==
  {E[i].key[2] : i \in {j \in DOMAIN E : /\ E[j].key[1] = "call"
                                         /\ j < Len(E) /\ E[j + 1].key[1] = "result"}}

(* resultsByCall *)
ResultsByCall(E) == {E[i].key[2] : i \in {j \in DOMAIN E : E[j].key[1] = "result"}}

(* The rows that have a text or a call to show. *)
RenderRows(E) ==
  FlattenSeq([i \in DOMAIN E |->
                IF E[i].key[1] \in {"user", "text", "call"} THEN <<E[i].key>> ELSE <<>>])

(* Event.Kind, told by the key but for a prompt of blocks. *)
EventKind(e) == IF e.key[1] = "text" /\ record[e.rec].kind = "blocks" THEN "user" ELSE e.key[1]

(* The last prompt, and without one the last call that is open. *)
PickNext(E) ==
  LET prompts == {i \in DOMAIN E : EventKind(E[i]) = "user"}
      open == {i \in DOMAIN E : E[i].key[1] = "call" /\ E[i].key[2] \notin ResultsByCall(E)}
      last(I) == E[CHOOSE i \in I : \A j \in I : j <= i].key
  IN IF prompts # {} THEN last(prompts) ELSE IF open # {} THEN last(open) ELSE NoKey

SynthesizePrime(E) ==
  LET rows == RenderRows(E)
      first == IF Len(rows) > RecentN THEN Len(rows) - RecentN + 1 ELSE 1
  IN [recent |-> SubSeq(rows, first, Len(rows)), pairs |-> ResultsByCall(E), next |-> PickNext(E)]

(* Hydrate in prime mode: a prompt for a new conversation. *)
Prime(m, from) ==
  /\ store' = [store EXCEPT ![m] = Pulled(m, from)]
  /\ prime' = [prime EXCEPT ![m] = SynthesizePrime(LoadAllEvents(Pulled(m, from)))]
  /\ UNCHANGED <<cli, flip, now, record, file>>

(* Does a hook get through: if it is installed and a daemon runs. *)
Captures(m) == IF m \in Hooked THEN BOOLEAN ELSE {FALSE}

Resume(m, from) ==
  /\ ResolveSession(m, from)
  /\ Prime(m, from) \/ \E captured \in Captures(m) : Replay(m, from, captured)

TransportNext ==
  \E m \in Machines :
    \/ m \in Origins /\ \E captured \in Captures(m) : Open(m, captured)
    \/ \E kind \in Written, captured \in Captures(m) :
         \E text \in IF kind = "prompt" THEN Texts ELSE {0},
            call \in IF kind = "result" THEN OpenCalls(m) ELSE {0} :
           Write(m, kind, text, call, captured)
    \/ Stop(m)
    \/ Sweep(m)
    \/ \E from \in Machines \ {m} : Sync(m, from)
    \/ \E from \in Machines : Resume(m, from)

TransportSpec == TransportInit /\ [][TransportNext]_transportVars

-------------------------------------------------------------------------------
EventKeys == {StartKey, EndKey} \cup ({"user", "text", "call", "result", "note"} \X Nat)
Records == [kind : Written \cup {"meta", "noise"}, ts : Nat \ {0}, text : Nat, call : Nat,
            after : SUBSET Nat]
Lines == [n : 0..Len(record), as : {"line", "envelope", "meta", "none"}, ts : Nat]
EventRows == [key : EventKeys, rec : 0..Len(record), seq : Nat, native : Lines]
Prompts == [recent : Seq(EventKeys), pairs : SUBSET Nat, next : EventKeys \cup {NoKey}]

(* The rows of a machine have keys of their own, which the primary key of    *)
(* table events says.                                                        *)
TransportTypeOK ==
  /\ cli \in Vendors /\ flip \in BOOLEAN /\ now \in Nat \ {0} /\ resumes \in Nat
  /\ record \in Seq(Records)
  /\ file \in [Machines -> Seq(Lines)]
  /\ store \in [Machines -> SUBSET EventRows]
  /\ started \in [Machines -> Nat]
  /\ prime \in [Machines -> Prompts]
  /\ \A m \in Machines : \A a, b \in store[m] : a.key = b.key => a = b

(* The UUIDs are deterministic so that one event is stored once, whichever   *)
(* path saw it (adapter/codex/uuid.go, adapter/claude/uuid.go): the hook and *)
(* the sweep, and the sweep of another machine that reads the transcript     *)
(* `resleeve resume` wrote there, which lacks lines and has others.  Only a  *)
(* prompt of blocks has two rows, one of the hook and one of the transcript. *)
NothingTwice ==
  \A m, k \in Machines : \A a \in store[m], b \in store[k] :
    a.rec = b.rec /\ EventKind(a) = EventKind(b) =>
      a.key = b.key \/ (record[a.rec].kind = "blocks" /\ a.key[1] # b.key[1])

(* A transcript shows the lines in the order in which they were written      *)
(* (adapter/codex/watcher.go, lastSeq): also when two bear the same          *)
(* millisecond and when the machine that went on with the conversation has   *)
(* a clock that is behind.  For claude, whose sweep has no lastSeq, only     *)
(* while the clocks tell them apart.  For codex lastSeq is found anew from   *)
(* the transcript that was written out, so only while that shows all that    *)
(* the first one did.                                                        *)
OutOfOrder(a, b) ==
  /\ b.n \in record[a.n].after /\ a.n # b.n
  /\ cli = "claude" => record[b.n].ts < record[a.n].ts

(* A page may end between two rows of one seq.                               *)
Torn(S) == Cardinality(S) > PageSize /\ \E a, b \in S : a # b /\ a.seq = b.seq

SameKey(a, b) ==
  a # b /\ CodexFromJSONL(a, 0) # <<>> /\ CodexFromJSONL(a, 0) = CodexFromJSONL(b, 0)

(* A hook was first, two lines have one key (a prompt typed twice, two texts *)
(* of one millisecond), or rows fall between two pages.                      *)
LinesMissing ==
  \/ \E m \in Machines : \E e \in store[m] : e.rec # 0 /\ e.native.as = "envelope"
  \/ \E a, b \in DOMAIN record : SameKey(a, b)
  \/ \E m \in Machines : Torn(store[m])

(* The session row bears another time than the transcript, or the Stop hook  *)
(* of a clock that is behind comes before the start.                         *)
StartMoved ==
  \E m \in Machines :
    \/ started[m] # 0 /\ started[m] # record[1].ts
    \/ \E e \in store[m] : e.key = EndKey /\ e.seq <= Ms(record[1].ts)

OrderKept ==
  (cli = "codex" => ~LinesMissing /\ ~StartMoved) => \A m \in Machines : \A i, j \in DOMAIN file[m] :
    i < j /\ file[m][i].as = "line" /\ file[m][j].as = "line"
      => ~OutOfOrder(file[m][i], file[m][j])

Replayed(m) == resumes' # resumes /\ \E from \in Machines, captured \in Captures(m) :
  ResolveSession(m, from) /\ Replay(m, from, captured)

(* What was captured from a transcript is in the transcript that resume      *)
(* writes, behind a session_meta for codex ("Hard requirements honored",     *)
(* adapter/codex/hydrate.go), whatever the pages it was read in; only rows   *)
(* of one seq can fall between two pages (cli/resume.go says so).            *)
ResumeIsWhole ==
  [][\A m \in Machines : Replayed(m) =>
       /\ cli = "codex" => IsMeta(file'[m][1])
       /\ ~Torn(store'[m]) => \A e \in store'[m] :
            e.native.as = "line" => \E i \in DOMAIN file'[m] : file'[m][i] = e.native]_transportVars

(* A prompt of prime mode shows a call with its result if the machine has    *)
(* it, though the two may come from different paths, records and machines,   *)
(* and names no call as awaiting a result that has one                       *)
(* (adapter/common/prime.go).                                                *)
PrimePairs ==
  [][\A m \in Machines : prime'[m] # prime[m] /\ ~Torn(store'[m]) =>
       \A c \in 1..Len(record) :
         LET has == <<"result", c>> \in KeysIn(store'[m])
         IN /\ <<"call", c>> \in ToSet(prime'[m].recent) => (c \in prime'[m].pairs <=> has)
            /\ prime'[m].next = <<"call", c>> => ~has]_transportVars

-------------------------------------------------------------------------------
(* Stated by the docs and not kept by the code (README, "Disagreements"); no *)
(* run checks it.                                                            *)

(* `"user:"+prompt_id - user_message (UserPromptSubmit hook or user JSONL     *)
(* record)` (adapter/claude/uuid.go:22): a prompt, too, is stored once.       *)
PromptsOnce ==
  \A m, k \in Machines : \A a \in store[m], b \in store[k] :
    a.rec = b.rec /\ EventKind(a) = EventKind(b) => a.key = b.key

(* "Fidelity invariant: the resumed CC session is bit-equivalent to the      *)
(* original up to the resume point" (docs/design/round-4/                    *)
(* 01-conversation-transport.md): on the machine that holds the original, at *)
(* least every record of the conversation is still there.                    *)
OriginalKept ==
  [][\A m \in Machines : Replayed(m) /\ file[m] # NoFile =>
       {n \in Shown(file[m]) : record[n].kind # "noise"} \subseteq Shown(file'[m])]_transportVars
=============================================================================

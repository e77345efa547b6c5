----------------------------- MODULE CaptureProofs -----------------------------
(* Theorems about Capture for any transcript, hooks, batch sizes and faults. *)
EXTENDS Capture, FiniteSetTheorems, TLAPS

USE DEF Callers, FromFile, tables, outbox

(* What a batch holds. *)
LEMMA FileEventsAreEvents == ASSUME NEW n \in 0..Length PROVE FileEvent(n) \in Event
BY CaptureAssumption DEF FileEvent, Event

LEMMA InBatchConcat ==
  ASSUME NEW S, NEW a \in Seq(S), NEW b \in Seq(S)
  PROVE  InBatch(a \o b) = InBatch(a) \cup InBatch(b)
<1>1. ASSUME NEW x \in InBatch(a \o b) PROVE x \in InBatch(a) \cup InBatch(b)
  <2>1. PICK i \in 1..Len(a) + Len(b) : x = (a \o b)[i]
    BY <1>1 DEF InBatch
  <2>2. CASE i <= Len(a)
    BY <2>1, <2>2 DEF InBatch
  <2>3. CASE i > Len(a)
    <3>1. i - Len(a) \in 1..Len(b) /\ x = b[i - Len(a)]
      BY <2>1, <2>3
    <3>2. QED BY <3>1 DEF InBatch
  <2>4. QED BY <2>1, <2>2, <2>3
<1>2. ASSUME NEW x \in InBatch(a) PROVE x \in InBatch(a \o b)
  <2>1. PICK i \in 1..Len(a) : x = a[i]
    BY <1>2 DEF InBatch
  <2>2. i \in 1..Len(a \o b) /\ x = (a \o b)[i]
    BY <2>1
  <2>3. QED BY <2>2 DEF InBatch
<1>3. ASSUME NEW x \in InBatch(b) PROVE x \in InBatch(a \o b)
  <2>1. PICK i \in 1..Len(b) : x = b[i]
    BY <1>3 DEF InBatch
  <2>2. Len(a) + i \in 1..Len(a \o b) /\ x = (a \o b)[Len(a) + i]
    BY <2>1
  <2>3. QED BY <2>2 DEF InBatch
<1>4. QED BY <1>1, <1>2, <1>3

LEMMA InBatchOne == ASSUME NEW x PROVE InBatch(<<x>>) = {x}
BY DEF InBatch

LEMMA InBatchEmpty == InBatch(<<>>) = {}
BY DEF InBatch

LEMMA InBatchAppend ==
  ASSUME NEW S, NEW a \in Seq(S), NEW x \in S
  PROVE  InBatch(Append(a, x)) = InBatch(a) \cup {x}
<1> DEFINE one == <<x>>
<1>1. Append(a, x) = a \o one /\ one \in Seq(S)
  OBVIOUS
<1>2. InBatch(one) = {x}
  BY InBatchOne
<1> HIDE DEF one
<1>3. InBatch(a \o one) = InBatch(a) \cup InBatch(one)
  BY <1>1, InBatchConcat
<1>4. QED BY <1>1, <1>2, <1>3

LEMMA AppendEvent ==
  ASSUME NEW a \in Seq(Event), NEW x \in Event
  PROVE  Append(a, x) \in Seq(Event) /\ InBatch(Append(a, x)) = InBatch(a) \cup {x}
<1>1. Append(a, x) \in Seq(Event)
  OBVIOUS
<1>2. QED BY <1>1, InBatchAppend

LEMMA ConcatEvents ==
  ASSUME NEW a \in Seq(Event), NEW b \in Seq(Event)
  PROVE  a \o b \in Seq(Event) /\ InBatch(a \o b) = InBatch(a) \cup InBatch(b)
<1>1. a \o b \in Seq(Event)
  OBVIOUS
<1>2. QED BY <1>1, InBatchConcat

LEMMA InBatchHead ==
  ASSUME NEW S, NEW a \in Seq(S), a # <<>>
  PROVE  InBatch(a) = {Head(a)} \cup InBatch(Tail(a))
<1> DEFINE first == <<Head(a)>>
           rest  == Tail(a)
<1>1. a = first \o rest /\ first \in Seq(S) /\ rest \in Seq(S)
  OBVIOUS
<1>2. InBatch(first) = {Head(a)}
  BY InBatchOne
<1> HIDE DEF first, rest
<1>3. InBatch(first \o rest) = InBatch(first) \cup InBatch(rest)
  BY <1>1, InBatchConcat
<1>4. InBatch(a) = {Head(a)} \cup InBatch(rest)
  BY <1>1, <1>2, <1>3
<1>5. QED BY <1>4 DEF rest

LEMMA InBatchEvents == ASSUME NEW b \in Seq(Event) PROVE InBatch(b) \subseteq Event
BY DEF InBatch

-------------------------------------------------------------------------------
(* What Buffer makes of a record. *)
SweepType == [at : {"off", "read", "flush", "last flush", "done"}, pos : 0..Length,
              pending : Seq(Event), batch : Seq(Event),
              synthesized : BOOLEAN, clean : BOOLEAN]

CallType == [pc : {"idle", "create", "append", "count", "session", "events"},
             batch : Seq(Event)]

(* A sweep that has found no cwd has no batch, one that has found one has    *)
(* nothing pending.                                                          *)
OneBuffer(s) ==
  /\ s.synthesized => s.pending = <<>>
  /\ ~s.synthesized => s.batch = <<>>

Held(s) == InBatch(s.pending) \cup InBatch(s.batch)

LEMMA BufferKeeps ==
  ASSUME NEW s \in SweepType, NEW n \in 1..Length, OneBuffer(s)
  PROVE  LET t == Buffer(s, n) IN
         /\ t \in SweepType
         /\ t.at = s.at /\ t.pos = n /\ t.clean = s.clean
         /\ OneBuffer(t)
         /\ t.batch # <<>> => t.pending = <<>>
         /\ Held(s) \cup {FileEvent(n)} \subseteq Held(t)
<1> DEFINE t == Buffer(s, n)
<1> DEFINE e == FileEvent(n)
<1>1. e \in Event /\ FileEvent(0) \in Event
  BY CaptureAssumption, FileEventsAreEvents
<1>f. /\ s.pending \in Seq(Event) /\ s.batch \in Seq(Event)
      /\ s.at \in {"off", "read", "flush", "last flush", "done"}
      /\ s.synthesized \in BOOLEAN /\ s.clean \in BOOLEAN
  BY DEF SweepType
<1>n. n \in 0..Length
  BY CaptureAssumption
<1>2. CASE s.synthesized
  <2>1. t = [s EXCEPT !.pos = n, !.batch = Append(@, e)]
    BY <1>2 DEF Buffer
  <2>2. /\ t.at = s.at /\ t.pos = n /\ t.clean = s.clean /\ t.synthesized = s.synthesized
        /\ t.pending = s.pending /\ t.batch = Append(s.batch, e)
    BY <2>1 DEF SweepType
  <2>3. InBatch(Append(s.batch, e)) = InBatch(s.batch) \cup {e} /\ Append(s.batch, e) \in Seq(Event)
    BY <1>1, <1>f, AppendEvent
  <2>4. InBatch(t.batch) = InBatch(s.batch) \cup {e} /\ InBatch(t.pending) = InBatch(s.pending)
    BY <2>2, <2>3
  <2>6. t \in SweepType
    BY <2>1, <2>3, <1>n DEF SweepType
  <2>7. OneBuffer(t) /\ t.pending = <<>>
    BY <1>2, <2>2 DEF OneBuffer
  <2>8. Held(s) \cup {e} \subseteq Held(t)
    BY <2>4 DEF Held
  <2>9. QED BY <2>2, <2>6, <2>7, <2>8
<1>3. CASE ~s.synthesized /\ n \notin Rooted
  <2>1. t = [s EXCEPT !.pos = n, !.pending = Append(@, e)]
    BY <1>3 DEF Buffer
  <2>2. /\ t.at = s.at /\ t.pos = n /\ t.clean = s.clean /\ t.synthesized = s.synthesized
        /\ t.batch = s.batch /\ t.pending = Append(s.pending, e)
    BY <2>1 DEF SweepType
  <2>3. InBatch(Append(s.pending, e)) = InBatch(s.pending) \cup {e} /\ Append(s.pending, e) \in Seq(Event)
    BY <1>1, <1>f, AppendEvent
  <2>4. InBatch(t.pending) = InBatch(s.pending) \cup {e} /\ InBatch(t.batch) = InBatch(s.batch)
    BY <2>2, <2>3
  <2>6. t \in SweepType
    BY <2>1, <2>3, <1>n DEF SweepType
  <2>7. OneBuffer(t) /\ t.batch = <<>>
    BY <1>3, <2>2 DEF OneBuffer
  <2>8. Held(s) \cup {e} \subseteq Held(t)
    BY <2>4 DEF Held
  <2>9. QED BY <2>2, <2>6, <2>7, <2>8
<1>4. CASE ~s.synthesized /\ n \in Rooted
  <2> DEFINE a == <<FileEvent(0)>> \o s.pending
  <2> DEFINE b == a \o <<e>>
  <2>1. t = [s EXCEPT !.pos = n, !.batch = b, !.pending = <<>>, !.synthesized = TRUE]
    BY <1>4 DEF Buffer
  <2>2. /\ <<FileEvent(0)>> \in Seq(Event)
        /\ <<e>> \in Seq(Event)
    BY <1>1
  <2>3. a \in Seq(Event) /\ InBatch(a) = InBatch(<<FileEvent(0)>>) \cup InBatch(s.pending)
    BY <2>2, <1>f, ConcatEvents
  <2> HIDE DEF a
  <2>4. b \in Seq(Event) /\ InBatch(b) = InBatch(a) \cup InBatch(<<e>>)
    BY <2>2, <2>3, ConcatEvents
  <2>5. b # <<>> /\ <<>> \in Seq(Event)
    BY <2>2, <2>3
  <2> HIDE DEF b
  <2>6. t.at = s.at /\ t.pos = n /\ t.clean = s.clean /\ t.batch = b
        /\ t.pending = <<>> /\ t.synthesized
    BY <2>1 DEF SweepType
  <2>7. t \in SweepType
    BY <2>1, <2>4, <2>5, <1>n DEF SweepType
  <2>8. OneBuffer(t)
    BY <2>6 DEF OneBuffer
  <2>9. s.batch = <<>>
    BY <1>4 DEF OneBuffer
  <2>10. Held(s) = InBatch(s.pending)
    BY <2>9, InBatchEmpty DEF Held
  <2>11. Held(t) = InBatch(b)
    BY <2>6, InBatchEmpty DEF Held
  <2>12. Held(s) \cup {e} \subseteq Held(t)
    BY <2>3, <2>4, <2>10, <2>11, InBatchOne
  <2>13. QED BY <2>6, <2>7, <2>8, <2>12
<1>5. QED BY <1>2, <1>3, <1>4


-------------------------------------------------------------------------------
(* The invariant. *)

(* TypeOK in terms of the two types above. *)
Types ==
  /\ written \in 0..Length /\ fires \in 0..MaxFires /\ up \in BOOLEAN
  /\ sweep \in SweepType
  /\ call \in [Callers -> CallType]
  /\ session \in Event \cup {None}
  /\ outSession \in Event \cup {None} /\ upSession \in Event \cup {None}
  /\ events \subseteq Event /\ handed \subseteq Event
  /\ faults \in 0..MaxFaults /\ torn \in BOOLEAN

(* A call has something to do, and what its statements have done so far.     *)
CallOK(c) ==
  /\ call[c].pc # "idle" => call[c].batch # <<>>
  /\ call[c].pc = "idle" => call[c].batch = <<>>
  /\ call[c].pc \in {"append", "count", "session", "events"} => session # None
  /\ call[c].pc \in {"count", "session", "events"} => Ids(InBatch(call[c].batch)) \subseteq Ids(events)
  /\ call[c].pc = "events" => outSession # None \/ upSession # None

Calls == \A c \in Callers : CallOK(c)

Grounded ==
  handed # {} =>
    /\ outSession # None \/ upSession # None
    /\ session # None
    /\ Ids(handed) \subseteq Ids(events)

(* The sweep waits for its call, and holds nothing back while it waits.      *)
Waits ==
  /\ ~up => sweep.at = "off"
  /\ sweep.at \in {"flush", "last flush"} <=> call[Sweep].pc # "idle"
  /\ sweep.at # "read" => sweep.batch = <<>> /\ sweep.pending = <<>>
  /\ OneBuffer(sweep)

(* Every record the sweep has read is handed over, in its call or held back. *)
Kept ==
  sweep.clean => \A n \in 1..sweep.pos :
    FileEvent(n) \in handed \cup InBatch(call[Sweep].batch) \cup Held(sweep)

IInv == Types /\ Calls /\ Grounded /\ Waits /\ Kept

LEMMA InvInit == Init => IInv
<1> SUFFICES ASSUME Init PROVE IInv
  OBVIOUS
<1> USE CaptureAssumption
<1>0. <<>> \in Seq(Event)
  OBVIOUS
<1>1. NoSweep \in SweepType /\ NoCall \in CallType
  BY <1>0 DEF NoSweep, NoCall, SweepType, CallType
<1>2. sweep \in SweepType /\ call \in [Callers -> CallType]
  BY <1>1 DEF Init
<1>n. written \in 0..Length /\ fires \in 0..MaxFires /\ faults \in 0..MaxFaults
  BY DEF Init
<1>b. up \in BOOLEAN /\ torn \in BOOLEAN
  BY DEF Init
<1>s. /\ session \in Event \cup {None} /\ outSession \in Event \cup {None}
      /\ upSession \in Event \cup {None} /\ events \subseteq Event /\ handed \subseteq Event
  BY DEF Init
<1>c. Types
  BY <1>2, <1>n, <1>b, <1>s DEF Types
<1>3. Calls
  BY DEF Init, Calls, CallOK, NoCall
<1>4. Grounded
  BY DEF Init, Grounded
<1>5. Waits
  BY DEF Init, Waits, NoSweep, NoCall, OneBuffer
<1>6. Kept
  BY DEF Init, Kept, NoSweep
<1>7. QED BY <1>c, <1>3, <1>4, <1>5, <1>6 DEF IInv


-------------------------------------------------------------------------------
(* What every step of a call changes and leaves. *)

LEMMA SweepIsCaller == Sweep \in Callers
OBVIOUS

LEMMA BatchOfCall ==
  ASSUME Types, Calls, NEW c \in Callers, call[c].pc # "idle"
  PROVE  /\ call[c].batch \in Seq(Event)
         /\ Head(call[c].batch) \in Event
         /\ Tail(call[c].batch) \in Seq(Event)
         /\ InBatch(call[c].batch) = {Head(call[c].batch)} \cup InBatch(Tail(call[c].batch))
         /\ InBatch(call[c].batch) \subseteq Event
<1> DEFINE b == call[c].batch
<1>1. b \in Seq(Event) /\ b # <<>>
  BY DEF Types, CallType, Calls, CallOK
<1> HIDE DEF b
<1>2. Head(b) \in Event /\ Tail(b) \in Seq(Event)
  BY <1>1
<1>3. InBatch(b) = {Head(b)} \cup InBatch(Tail(b))
  BY <1>1, InBatchHead
<1>4. InBatch(b) \subseteq Event
  BY <1>1, InBatchEvents
<1>5. QED BY <1>1, <1>2, <1>3, <1>4 DEF b

(* A statement that is not the last one. *)
LEMMA GoesOn ==
  ASSUME Types, Waits, NEW c \in Callers, call[c].pc # "idle",
         NEW p \in {"create", "append", "count", "session", "events"},
         call' = [call EXCEPT ![c].pc = p], UNCHANGED <<sweep, up>>
  PROVE  /\ call' \in [Callers -> CallType]
         /\ call'[c].pc = p
         /\ \A d \in Callers : call'[d].batch = call[d].batch
         /\ \A d \in Callers \ {c} : call'[d] = call[d]
         /\ Waits'
<1>1. call' \in [Callers -> CallType]
  BY DEF Types, CallType
<1>2. call'[c].pc = p /\ \A d \in Callers : call'[d].batch = call[d].batch
  BY DEF Types, CallType
<1>3. \A d \in Callers \ {c} : call'[d] = call[d]
  BY DEF Types
<1>4. call'[Sweep].pc # "idle" <=> call[Sweep].pc # "idle"
  BY <1>2, <1>3, SweepIsCaller
<1>5. Waits'
  BY <1>4 DEF Waits, OneBuffer
<1>6. QED BY <1>1, <1>2, <1>3, <1>5

(* The last one, or the one that fails. *)
LEMMA Returns ==
  ASSUME Types, Waits, NEW c \in Callers, call[c].pc # "idle", NEW ok \in BOOLEAN,
         call' = [call EXCEPT ![c] = NoCall], Return(c, ok), up' = up
  PROVE  /\ call' \in [Callers -> CallType] /\ sweep' \in SweepType
         /\ call'[c] = NoCall
         /\ \A d \in Callers \ {c} : call'[d] = call[d]
         /\ Waits'
         /\ sweep'.pos = sweep.pos /\ Held(sweep') = Held(sweep)
         /\ sweep'.clean => sweep.clean /\ (c = Sweep => ok)
<1>1. <<>> \in Seq(Event)
  OBVIOUS
<1>2. NoCall \in CallType /\ NoCall.pc = "idle"
  BY <1>1 DEF NoCall, CallType
<1>3. call' \in [Callers -> CallType] /\ call'[c] = NoCall
  BY <1>2 DEF Types
<1>4. \A d \in Callers \ {c} : call'[d] = call[d]
  BY DEF Types
<1>5. CASE c # Sweep
  <2>1. sweep' = sweep /\ call'[Sweep] = call[Sweep]
    BY <1>4, <1>5, SweepIsCaller DEF Return
  <2>2. Waits'
    BY <2>1 DEF Waits, OneBuffer
  <2>3. sweep' \in SweepType
    BY <2>1 DEF Types
  <2>4. QED BY <1>3, <1>4, <1>5, <2>1, <2>2, <2>3
<1>6. CASE c = Sweep
  <2>1. sweep' = [sweep EXCEPT !.at = IF @ = "flush" THEN "read" ELSE "done",
                               !.clean = @ /\ ok]
    BY <1>6 DEF Return
  <2>2. /\ sweep'.at \in {"read", "done"} /\ sweep'.pos = sweep.pos
        /\ sweep'.pending = sweep.pending /\ sweep'.batch = sweep.batch
        /\ sweep'.synthesized = sweep.synthesized
        /\ sweep'.clean = (sweep.clean /\ ok)
    BY <2>1 DEF Types, SweepType
  <2>3. sweep' \in SweepType
    BY <2>1 DEF Types, SweepType
  <2>4. sweep.at \in {"flush", "last flush"}
    BY <1>6 DEF Waits
  <2>5. Waits'
    BY <1>2, <1>3, <1>6, <2>2, <2>4 DEF Waits, OneBuffer
  <2>6. QED BY <1>3, <1>4, <1>6, <2>2, <2>3, <2>5 DEF Held
<1>7. QED BY <1>5, <1>6


(* Nothing a call has relied on is taken back. *)
Monotone ==
  /\ session # None => session' # None
  /\ events \subseteq events'
  /\ outSession # None \/ upSession # None => outSession' # None \/ upSession' # None

LEMMA OthersOK ==
  ASSUME Calls, Monotone, NEW d \in Callers, call'[d] = call[d]
  PROVE  CallOK(d)'
BY DEF Calls, CallOK, Monotone, Ids

LEMMA GroundedStays ==
  ASSUME Grounded, Monotone, handed' = handed
  PROVE  Grounded'
BY DEF Grounded, Monotone, Ids

LEMMA KeptStays ==
  ASSUME Kept, handed \subseteq handed', sweep' = sweep, call'[Sweep].batch = call[Sweep].batch
  PROVE  Kept'
BY DEF Kept, Held

-------------------------------------------------------------------------------
(* The statements of IngestBatch. *)

LEMMA CreateSessionInv == ASSUME IInv, NEW c \in Callers, CreateSession(c) PROVE IInv'
<1> USE DEF IInv
<1>1. call[c].pc = "create" /\ call' = [call EXCEPT ![c].pc = "append"] /\ UNCHANGED <<sweep, up>>
  BY DEF CreateSession
<1>2. /\ call' \in [Callers -> CallType]
      /\ call'[c].pc = "append"
      /\ \A d \in Callers : call'[d].batch = call[d].batch
      /\ \A d \in Callers \ {c} : call'[d] = call[d]
      /\ Waits'
  BY <1>1, GoesOn
<1>3. Head(call[c].batch) \in Event
  BY <1>1, BatchOfCall
<1>4. session' \in Event \cup {None} /\ session' # None
  BY <1>3, NoneAssumption DEF CreateSession, Types
<1>5. Monotone
  BY <1>4 DEF CreateSession, Monotone
<1>6. Types'
  BY <1>2, <1>4 DEF CreateSession, Types
<1>7. CallOK(c)'
  BY <1>1, <1>2, <1>4 DEF Calls, CallOK
<1>8. Calls'
  BY <1>2, <1>5, <1>7, OthersOK DEF Calls
<1>9. Grounded'
  BY <1>5, GroundedStays DEF CreateSession
<1>10. Kept'
  BY <1>1, <1>2, SweepIsCaller, KeptStays DEF CreateSession
<1>11. QED BY <1>2, <1>6, <1>8, <1>9, <1>10

LEMMA AppendEventsInv == ASSUME IInv, NEW c \in Callers, AppendEvents(c) PROVE IInv'
<1> USE DEF IInv
<1>1. call[c].pc = "append" /\ call' = [call EXCEPT ![c].pc = "count"] /\ UNCHANGED <<sweep, up>>
  BY DEF AppendEvents
<1>2. /\ call' \in [Callers -> CallType]
      /\ call'[c].pc = "count"
      /\ \A d \in Callers : call'[d].batch = call[d].batch
      /\ \A d \in Callers \ {c} : call'[d] = call[d]
      /\ Waits'
  BY <1>1, GoesOn
<1>3. InBatch(call[c].batch) \subseteq Event
  BY <1>1, BatchOfCall
<1>4. events' \subseteq Event /\ events \subseteq events'
  BY <1>3 DEF AppendEvents, New, Types
<1>5. Ids(InBatch(call[c].batch)) \subseteq Ids(events')
  <2>1. ASSUME NEW e \in InBatch(call[c].batch) PROVE e.id \in Ids(events')
    <3>1. CASE e.id \in Ids(events)
      BY <1>4, <3>1 DEF Ids
    <3>2. CASE e.id \notin Ids(events)
      BY <3>2 DEF AppendEvents, New, Ids
    <3>3. QED BY <3>1, <3>2
  <2>2. QED BY <2>1 DEF Ids
<1>6. Monotone
  BY <1>4 DEF AppendEvents, Monotone
<1>7. Types'
  BY <1>2, <1>4 DEF AppendEvents, Types
<1>8. CallOK(c)'
  BY <1>1, <1>2, <1>5 DEF Calls, CallOK, AppendEvents
<1>9. Calls'
  BY <1>2, <1>6, <1>8, OthersOK DEF Calls
<1>10. Grounded'
  BY <1>6, GroundedStays DEF AppendEvents
<1>11. Kept'
  BY <1>1, <1>2, SweepIsCaller, KeptStays DEF AppendEvents
<1>12. QED BY <1>2, <1>7, <1>9, <1>10, <1>11

LEMMA SyncEventCountInv == ASSUME IInv, NEW c \in Callers, SyncEventCount(c) PROVE IInv'
<1> USE DEF IInv
<1>1. call[c].pc = "count" /\ call' = [call EXCEPT ![c].pc = "session"] /\ UNCHANGED <<sweep, up>>
  BY DEF SyncEventCount
<1>2. /\ call' \in [Callers -> CallType]
      /\ call'[c].pc = "session"
      /\ \A d \in Callers : call'[d].batch = call[d].batch
      /\ \A d \in Callers \ {c} : call'[d] = call[d]
      /\ Waits'
  BY <1>1, GoesOn
<1>3. Monotone
  BY DEF SyncEventCount, Monotone
<1>4. torn' \in BOOLEAN
  BY DEF SyncEventCount
<1>5. Types'
  BY <1>2, <1>4 DEF SyncEventCount, Types
<1>6. CallOK(c)'
  BY <1>1, <1>2 DEF Calls, CallOK, SyncEventCount
<1>7. Calls'
  BY <1>2, <1>3, <1>6, OthersOK DEF Calls
<1>8. Grounded'
  BY <1>3, GroundedStays DEF SyncEventCount
<1>9. Kept'
  BY <1>1, <1>2, SweepIsCaller, KeptStays DEF SyncEventCount
<1>10. QED BY <1>2, <1>5, <1>7, <1>8, <1>9

LEMMA EnqueueSessionInv == ASSUME IInv, NEW c \in Callers, EnqueueSession(c) PROVE IInv'
<1> USE DEF IInv
<1>1. call[c].pc = "session" /\ call' = [call EXCEPT ![c].pc = "events"] /\ UNCHANGED <<sweep, up>>
  BY DEF EnqueueSession
<1>2. /\ call' \in [Callers -> CallType]
      /\ call'[c].pc = "events"
      /\ \A d \in Callers : call'[d].batch = call[d].batch
      /\ \A d \in Callers \ {c} : call'[d] = call[d]
      /\ Waits'
  BY <1>1, GoesOn
<1>3. Head(call[c].batch) \in Event
  BY <1>1, BatchOfCall
<1>4. outSession' \in Event \cup {None} /\ outSession' # None
  BY <1>3, NoneAssumption DEF EnqueueSession, Types
<1>5. Monotone
  BY <1>4 DEF EnqueueSession, Monotone
<1>6. Types'
  BY <1>2, <1>4 DEF EnqueueSession, Types
<1>7. CallOK(c)'
  BY <1>1, <1>2, <1>4 DEF Calls, CallOK, EnqueueSession
<1>8. Calls'
  BY <1>2, <1>5, <1>7, OthersOK DEF Calls
<1>9. Grounded'
  BY <1>5, GroundedStays DEF EnqueueSession
<1>10. Kept'
  BY <1>1, <1>2, SweepIsCaller, KeptStays DEF EnqueueSession
<1>11. QED BY <1>2, <1>6, <1>8, <1>9, <1>10

LEMMA EnqueueEventInv == ASSUME IInv, NEW c \in Callers, EnqueueEvent(c) PROVE IInv'
<1> USE DEF IInv
<1> DEFINE b == call[c].batch
<1>1. /\ call[c].pc = "events" /\ handed' = handed \cup {Head(b)}
      /\ UNCHANGED <<written, fires, up, session, events, outSession, upSession, faults, torn>>
  BY DEF EnqueueEvent
<1>2. /\ b \in Seq(Event) /\ Head(b) \in Event /\ Tail(b) \in Seq(Event)
      /\ InBatch(b) = {Head(b)} \cup InBatch(Tail(b))
  BY <1>1, BatchOfCall
<1>3. Monotone
  BY <1>1 DEF Monotone
<1>4. /\ session # None /\ (outSession # None \/ upSession # None)
      /\ Ids(InBatch(b)) \subseteq Ids(events)
  BY <1>1 DEF Calls, CallOK
<1>5. Head(b).id \in Ids(events)
  BY <1>2, <1>4 DEF Ids
<1>6. Grounded'
  <2>1. Ids(handed') \subseteq Ids(events)
    <3>1. CASE handed = {}
      BY <1>1, <1>5, <3>1 DEF Ids
    <3>2. CASE handed # {}
      BY <1>1, <1>5, <3>2 DEF Ids, Grounded
    <3>3. QED BY <3>1, <3>2
  <2>2. QED BY <1>1, <1>4, <2>1 DEF Grounded
<1>7. handed' \subseteq Event
  BY <1>1, <1>2 DEF Types
<1>8. ASSUME call' \in [Callers -> CallType], sweep' \in SweepType PROVE Types'
  BY <1>1, <1>7, <1>8 DEF Types
<1>9. CASE Tail(b) # <<>>
  <2>1. call' = [call EXCEPT ![c].batch = Tail(@)] /\ sweep' = sweep
    BY <1>9 DEF EnqueueEvent
  <2>2. call[c] \in CallType
    BY DEF Types
  <2>3. [call[c] EXCEPT !.batch = Tail(@)] \in CallType
    BY <1>2, <2>2 DEF CallType
  <2>4. /\ call' = [call EXCEPT ![c] = [call[c] EXCEPT !.batch = Tail(@)]]
        /\ call \in [Callers -> CallType]
    BY <2>1 DEF Types
  <2>5. call' \in [Callers -> CallType]
    BY <2>3, <2>4
  <2>6. call'[c] = [call[c] EXCEPT !.batch = Tail(@)] /\ \A d \in Callers \ {c} : call'[d] = call[d]
    BY <2>4
  <2>7. call'[c].pc = "events" /\ call'[c].batch = Tail(b)
    BY <1>1, <2>2, <2>6 DEF CallType
  <2>8. Types'
    BY <1>8, <2>1, <2>5 DEF Types
  <2>9. CallOK(c)'
    <3>1. Ids(InBatch(Tail(b))) \subseteq Ids(events)
      BY <1>2, <1>4 DEF Ids
    <3>2. QED BY <1>1, <1>4, <1>9, <2>7, <3>1 DEF CallOK
  <2>10. Calls'
    BY <1>3, <2>6, <2>9, OthersOK DEF Calls
  <2>11. call'[Sweep].pc # "idle" <=> call[Sweep].pc # "idle"
    BY <1>1, <2>6, <2>7, SweepIsCaller
  <2>12. Waits'
    BY <1>1, <2>1, <2>11 DEF Waits, OneBuffer
  <2>13. Kept'
    <3>1. InBatch(call[Sweep].batch) \subseteq {Head(b)} \cup InBatch(call'[Sweep].batch)
      BY <1>2, <2>6, <2>7, SweepIsCaller
    <3>2. QED BY <1>1, <2>1, <3>1 DEF Kept, Held
  <2>14. QED BY <1>6, <2>8, <2>10, <2>12, <2>13
<1>10. CASE Tail(b) = <<>>
  <2>1. call' = [call EXCEPT ![c] = NoCall] /\ Return(c, TRUE)
    BY <1>10 DEF EnqueueEvent
  <2>2. /\ call' \in [Callers -> CallType] /\ sweep' \in SweepType
        /\ call'[c] = NoCall
        /\ \A d \in Callers \ {c} : call'[d] = call[d]
        /\ Waits'
        /\ sweep'.pos = sweep.pos /\ Held(sweep') = Held(sweep)
        /\ sweep'.clean => sweep.clean
    BY <1>1, <2>1, Returns
  <2>3. Types'
    BY <1>8, <2>2
  <2>4. CallOK(c)'
    BY <2>2 DEF CallOK, NoCall
  <2>5. Calls'
    BY <1>3, <2>2, <2>4, OthersOK DEF Calls
  <2>6. InBatch(b) = {Head(b)}
    BY <1>2, <1>10, InBatchEmpty
  <2>7. Kept'
    <3>1. InBatch(call[Sweep].batch) \subseteq {Head(b)} \cup InBatch(call'[Sweep].batch)
      BY <2>2, <2>6, SweepIsCaller
    <3>2. Held(sweep)' = Held(sweep)
      BY <2>2 DEF Held
    <3>3. QED BY <1>1, <2>2, <3>1, <3>2 DEF Kept
  <2>8. QED BY <1>6, <2>2, <2>3, <2>5, <2>7
<1>11. QED BY <1>9, <1>10

-------------------------------------------------------------------------------
(* Faults, hooks and the drain. *)

LEMMA CallFailsInv == ASSUME IInv, NEW c \in Callers, CallFails(c) PROVE IInv'
<1> USE DEF IInv
<1>1. /\ call[c].pc # "idle" /\ call' = [call EXCEPT ![c] = NoCall] /\ Return(c, FALSE)
      /\ UNCHANGED <<written, fires, up, tables, outbox>>
  BY DEF CallFails
<1>2. /\ call' \in [Callers -> CallType] /\ sweep' \in SweepType
      /\ call'[c] = NoCall
      /\ \A d \in Callers \ {c} : call'[d] = call[d]
      /\ Waits'
      /\ sweep'.pos = sweep.pos /\ Held(sweep') = Held(sweep)
      /\ sweep'.clean => sweep.clean /\ (c = Sweep => FALSE)
  BY <1>1, Returns
<1>3. Monotone
  BY <1>1 DEF Monotone
<1>4. torn' \in BOOLEAN
  BY DEF CallFails
<1>5. faults' \in 0..MaxFaults
  BY CaptureAssumption DEF CallFails, Fault, Types
<1>6. Types'
  BY <1>1, <1>2, <1>4, <1>5 DEF Types
<1>7. CallOK(c)'
  BY <1>2 DEF CallOK, NoCall
<1>8. Calls'
  BY <1>2, <1>3, <1>7, OthersOK DEF Calls
<1>9. Grounded'
  BY <1>1, <1>3, GroundedStays
<1>10. Kept'
  <2>1. CASE c = Sweep
    BY <1>2, <2>1 DEF Kept
  <2>2. CASE c # Sweep
    <3>1. call'[Sweep] = call[Sweep]
      BY <1>2, <2>2, SweepIsCaller
    <3>2. sweep' = sweep
      BY <1>1, <2>2 DEF Return
    <3>3. QED BY <1>1, <3>1, <3>2, KeptStays
  <2>3. QED BY <2>1, <2>2
<1>11. QED BY <1>2, <1>6, <1>8, <1>9, <1>10

LEMMA CrashInv == ASSUME IInv, Crash PROVE IInv'
<1> USE DEF IInv
<1>0. <<>> \in Seq(Event)
  OBVIOUS
<1>1. NoSweep \in SweepType /\ NoCall \in CallType
  BY <1>0, CaptureAssumption DEF NoSweep, NoCall, SweepType, CallType
<1>2. /\ sweep' = NoSweep /\ call' = [d \in Callers |-> NoCall]
      /\ up' = FALSE
      /\ UNCHANGED <<written, fires, tables, outbox>>
  BY DEF Crash
<1>3. torn' \in BOOLEAN
  BY DEF Crash
<1>4. faults' \in 0..MaxFaults
  BY CaptureAssumption DEF Crash, Fault, Types
<1>5. call' \in [Callers -> CallType] /\ sweep' \in SweepType
  BY <1>1, <1>2
<1>6. Types'
  BY <1>2, <1>3, <1>4, <1>5 DEF Types
<1>7. Calls'
  BY <1>2 DEF Calls, CallOK, NoCall
<1>8. Grounded'
  BY <1>2 DEF Grounded
<1>9. Waits'
  BY <1>2 DEF Waits, OneBuffer, NoSweep, NoCall
<1>10. Kept'
  BY <1>2 DEF Kept, NoSweep
<1>11. QED BY <1>6, <1>7, <1>8, <1>9, <1>10

LEMMA Elements == ASSUME NEW S, NEW q \in Seq(S) PROVE \A i \in 1..Len(q) : q[i] \in S
OBVIOUS

LEMMA EventOf ==
  ASSUME NEW n \in 0..Length, NEW a \in 0..MaxFires
  PROVE  [id |-> n, at |-> a] \in Event
BY DEF Event

LEMMA HookInv == ASSUME IInv, NEW c \in Hooks, NEW ids \in Hooked, Hook(c, ids) PROVE IInv'
<1> USE DEF IInv
<1> DEFINE b == [i \in DOMAIN ids |-> [id |-> ids[i], at |-> fires + 1]]
<1> DEFINE r == [pc |-> "create", batch |-> b]
<1>1. /\ call' = [call EXCEPT ![c] = r] /\ fires' = fires + 1 /\ fires < MaxFires
      /\ call[c].pc = "idle"
      /\ UNCHANGED <<written, up, sweep, tables, outbox, faults, torn>>
  BY DEF Hook
<1>2. ids \in Seq(0..Length) /\ ids # <<>>
  BY CaptureAssumption
<1>3. fires + 1 \in 0..MaxFires
  BY <1>1, CaptureAssumption DEF Types
<1>4. \A i \in 1..Len(ids) : [id |-> ids[i], at |-> fires + 1] \in Event
  <2>1. \A i \in 1..Len(ids) : ids[i] \in 0..Length
    BY <1>2, Elements
  <2> DEFINE f == fires + 1
  <2>2. f \in 0..MaxFires
    BY <1>3
  <2> HIDE DEF f
  <2>3. \A i \in 1..Len(ids) : [id |-> ids[i], at |-> f] \in Event
    BY <2>1, <2>2, EventOf
  <2>4. QED BY <2>3 DEF f
<1>5. b \in Seq(Event) /\ b # <<>>
  BY <1>2, <1>4
<1> HIDE DEF b
<1>6. r \in CallType /\ r.pc = "create" /\ r.batch # <<>>
  BY <1>5 DEF CallType
<1> HIDE DEF r
<1>7. c \in Callers /\ c # Sweep
  BY CaptureAssumption
<1>8. /\ call' \in [Callers -> CallType] /\ call'[c] = r
      /\ \A d \in Callers \ {c} : call'[d] = call[d]
  BY <1>1, <1>6, <1>7 DEF Types
<1>9. Monotone
  BY <1>1 DEF Monotone
<1>10. Types'
  BY <1>1, <1>3, <1>8 DEF Types
<1>11. CallOK(c)'
  BY <1>6, <1>8 DEF CallOK
<1>12. Calls'
  BY <1>8, <1>9, <1>11, OthersOK DEF Calls
<1>13. Grounded'
  BY <1>1, <1>9, GroundedStays
<1>14. call'[Sweep] = call[Sweep]
  BY <1>7, <1>8, SweepIsCaller
<1>15. Waits'
  BY <1>1, <1>14 DEF Waits, OneBuffer
<1>16. Kept'
  BY <1>1, <1>14, KeptStays
<1>17. QED BY <1>10, <1>12, <1>13, <1>15, <1>16

LEMMA ShipSessionInv == ASSUME IInv, ShipSession PROVE IInv'
<1> USE DEF IInv
<1>1. /\ outSession # None /\ upSession' = outSession /\ outSession' = None
      /\ UNCHANGED <<written, fires, up, sweep, call, tables, handed, faults, torn>>
  BY DEF ShipSession
<1>2. Monotone
  BY <1>1 DEF Monotone
<1>3. Types'
  BY <1>1 DEF Types
<1>4. Calls'
  BY <1>1, <1>2, OthersOK DEF Calls
<1>5. Grounded'
  BY <1>1, <1>2, GroundedStays
<1>6. Waits'
  BY <1>1 DEF Waits, OneBuffer
<1>7. Kept'
  BY <1>1, KeptStays
<1>8. QED BY <1>3, <1>4, <1>5, <1>6, <1>7

LEMMA WriteInv == ASSUME IInv, Write PROVE IInv'
<1> USE DEF IInv
<1>1. /\ written < Length /\ written' = written + 1
      /\ UNCHANGED <<fires, up, sweep, call, tables, outbox, faults, torn>>
  BY DEF Write
<1>2. Monotone
  BY <1>1 DEF Monotone
<1>3. written' \in 0..Length
  BY <1>1, CaptureAssumption DEF Types
<1>4. Types'
  BY <1>1, <1>3 DEF Types
<1>5. Calls'
  BY <1>1, <1>2, OthersOK DEF Calls
<1>6. Grounded'
  BY <1>1, <1>2, GroundedStays
<1>7. Waits'
  BY <1>1 DEF Waits, OneBuffer
<1>8. Kept'
  BY <1>1, KeptStays
<1>9. QED BY <1>4, <1>5, <1>6, <1>7, <1>8

LEMMA StutterInv == ASSUME IInv, UNCHANGED vars PROVE IInv'
<1> USE DEF IInv
<1>1. UNCHANGED <<written, fires, up, sweep, call, session, events, outSession, upSession, handed, faults, torn>>
  BY DEF vars
<1>2. Monotone
  BY <1>1 DEF Monotone
<1>3. Types'
  BY <1>1 DEF Types
<1>4. Calls'
  BY <1>1, <1>2, OthersOK DEF Calls
<1>5. Grounded'
  BY <1>1, <1>2, GroundedStays
<1>6. Waits'
  BY <1>1 DEF Waits, OneBuffer
<1>7. Kept'
  BY <1>1, KeptStays
<1>8. QED BY <1>3, <1>4, <1>5, <1>6, <1>7

-------------------------------------------------------------------------------
(* The sweep. *)

LEMMA StartInv == ASSUME IInv, Start PROVE IInv'
<1> USE DEF IInv
<1>0. <<>> \in Seq(Event)
  OBVIOUS
<1>1. /\ up' = TRUE /\ sweep' = [NoSweep EXCEPT !.at = "read"]
      /\ UNCHANGED <<written, fires, call, tables, outbox, faults, torn>>
  BY DEF Start
<1>2. sweep' \in SweepType
  <2>1. sweep' = [at |-> "read", pos |-> 0, pending |-> <<>>, batch |-> <<>>,
                  synthesized |-> FALSE, clean |-> TRUE]
    BY <1>1 DEF NoSweep
  <2>2. QED BY <1>0, <2>1, CaptureAssumption DEF SweepType
<1>3. Monotone
  BY <1>1 DEF Monotone
<1>4. Types'
  BY <1>1, <1>2 DEF Types
<1>5. Calls'
  BY <1>1, <1>3, OthersOK DEF Calls
<1>6. Grounded'
  BY <1>1, <1>3, GroundedStays
<1>7. Kept'
  BY <1>1 DEF Kept, NoSweep
<1>8. ~up => sweep.at = "off"
  BY DEF Waits
<1>9. call[Sweep].pc = "idle"
  BY <1>8, SweepIsCaller DEF Start, Waits
<1>10. Waits'
  BY <1>1, <1>9 DEF Waits, OneBuffer, NoSweep
<1>11. QED BY <1>4, <1>5, <1>6, <1>7, <1>10

LEMMA EmptyBatch == <<>> \in Seq(Event)
OBVIOUS

(* A batch goes in, with all that was held back.                             *)
LEMMA FlushInv ==
  ASSUME IInv, NEW s \in SweepType, NEW p, p = "flush" \/ p = "last flush",
         sweep.at = "read", s.batch # <<>>, Flush(s, p),
         InBatch(s.pending) \subseteq InBatch(s.batch),
         s.clean = sweep.clean,
         \A n \in 1..s.pos :
           n \in 1..sweep.pos \/ FileEvent(n) \in Held(s),
         Held(sweep) \subseteq Held(s),
         UNCHANGED <<written, fires, up, tables, outbox, faults, torn>>
  PROVE  IInv'
<1> USE DEF IInv
<1> DEFINE r == [pc |-> "create", batch |-> s.batch]
<1>1. call' = [call EXCEPT ![Sweep] = r]
  BY DEF Flush
<1>2. s.batch \in Seq(Event)
  BY DEF SweepType
<1>3. r \in CallType /\ r.pc = "create" /\ r.batch = s.batch
  BY <1>2 DEF CallType
<1> HIDE DEF r
<1>4. /\ call' \in [Callers -> CallType] /\ call'[Sweep] = r
      /\ \A d \in Callers \ {Sweep} : call'[d] = call[d]
  BY <1>1, <1>3, SweepIsCaller DEF Types
<1>5. sweep' = [s EXCEPT !.at = p, !.batch = <<>>, !.pending = <<>>]
  BY DEF Flush
<1>6. /\ sweep'.at = p /\ sweep'.batch = <<>> /\ sweep'.pending = <<>>
      /\ sweep'.pos = s.pos /\ sweep'.clean = s.clean
  BY <1>5 DEF SweepType
<1>7. sweep' \in SweepType
  <2>1. p \in {"off", "read", "flush", "last flush", "done"}
    OBVIOUS
  <2>2. /\ s.pos \in 0..Length /\ s.synthesized \in BOOLEAN /\ s.clean \in BOOLEAN
        /\ s = [at |-> s.at, pos |-> s.pos, pending |-> s.pending, batch |-> s.batch,
                synthesized |-> s.synthesized, clean |-> s.clean]
    BY DEF SweepType
  <2>3. sweep' = [at |-> p, pos |-> s.pos, pending |-> <<>>, batch |-> <<>>,
                  synthesized |-> s.synthesized, clean |-> s.clean]
    BY <1>5, <2>2
  <2>4. QED BY EmptyBatch, <2>1, <2>2, <2>3 DEF SweepType
<1>8. Monotone
  BY DEF Monotone
<1>9. Types'
  BY <1>4, <1>7 DEF Types
<1>10. CallOK(Sweep)'
  BY <1>3, <1>4 DEF CallOK
<1>11. Calls'
  BY <1>4, <1>8, <1>10, OthersOK DEF Calls
<1>12. Grounded'
  BY <1>8, GroundedStays
<1>13. call[Sweep].pc = "idle" /\ up
  BY DEF Waits
<1>14. Waits'
  BY <1>3, <1>4, <1>6, <1>13 DEF Waits, OneBuffer
<1>15. Kept'
  <2>1. call[Sweep].batch = <<>>
    BY <1>13, SweepIsCaller DEF Calls, CallOK
  <2>2. InBatch(call[Sweep].batch) = {}
    BY <2>1, InBatchEmpty
  <2>3. Held(s) = InBatch(call'[Sweep].batch)
    BY <1>3, <1>4 DEF Held
  <2>4. SUFFICES ASSUME sweep'.clean, NEW n \in 1..s.pos
                 PROVE  FileEvent(n) \in handed \cup InBatch(call'[Sweep].batch)
    BY <1>6 DEF Kept
  <2>5. n \in 1..sweep.pos => FileEvent(n) \in handed \cup Held(sweep)
    BY <1>6, <2>2, <2>4 DEF Kept
  <2>6. QED BY <2>3, <2>5
<1>16. QED BY <1>9, <1>11, <1>12, <1>14, <1>15

LEMMA ReadRecordInv == ASSUME IInv, ReadRecord PROVE IInv'
<1> USE DEF IInv
<1> DEFINE n == sweep.pos + 1
<1> DEFINE s == Buffer(sweep, n)
<1>1. /\ sweep.at = "read" /\ sweep.pos < written
      /\ UNCHANGED <<written, fires, up, tables, outbox, faults, torn>>
      /\ IF Len(s.batch) >= FlushSize THEN Flush(s, "flush")
         ELSE sweep' = s /\ UNCHANGED call
  BY DEF ReadRecord
<1>2. n \in 1..Length /\ sweep.pos \in 0..Length
  <2>1. sweep.pos \in 0..Length /\ written \in 0..Length
    BY DEF Types, SweepType
  <2>2. QED BY <1>1, <2>1, CaptureAssumption
<1>3. sweep \in SweepType /\ OneBuffer(sweep)
  BY DEF Types, Waits
<1>4. /\ s \in SweepType /\ s.at = sweep.at /\ s.pos = n /\ s.clean = sweep.clean
      /\ OneBuffer(s)
      /\ s.batch # <<>> => s.pending = <<>>
      /\ Held(sweep) \cup {FileEvent(n)} \subseteq Held(s)
  BY <1>2, <1>3, BufferKeeps
<1>5. \A k \in 1..s.pos : k \in 1..sweep.pos \/ FileEvent(k) \in Held(s)
  BY <1>2, <1>4
<1> HIDE DEF s
<1>6. CASE Len(s.batch) >= FlushSize
  <2>1. s.batch # <<>>
    BY <1>6, CaptureAssumption
  <2>2. InBatch(s.pending) \subseteq InBatch(s.batch)
    BY <1>4, <2>1, InBatchEmpty
  <2>3. QED BY <1>1, <1>4, <1>5, <1>6, <2>1, <2>2, FlushInv
<1>7. CASE ~(Len(s.batch) >= FlushSize)
  <2>1. sweep' = s /\ call' = call
    BY <1>1, <1>7
  <2>2. Monotone
    BY <1>1 DEF Monotone
  <2>3. Types'
    BY <1>1, <1>4, <2>1 DEF Types
  <2>4. Calls'
    BY <2>1, <2>2, OthersOK DEF Calls
  <2>5. Grounded'
    BY <1>1, <2>2, GroundedStays
  <2>6. Waits'
    BY <1>1, <1>4, <2>1 DEF Waits
  <2>7. Kept'
    <3>1. SUFFICES ASSUME sweep'.clean, NEW k \in 1..s.pos
                   PROVE  FileEvent(k) \in handed \cup InBatch(call[Sweep].batch) \cup Held(s)
      BY <1>1, <2>1 DEF Kept, Held
    <3>2. k \in 1..sweep.pos => FileEvent(k) \in handed \cup InBatch(call[Sweep].batch) \cup Held(sweep)
      BY <1>4, <2>1, <3>1 DEF Kept
    <3>3. QED BY <1>4, <1>5, <3>2
  <2>8. QED BY <2>3, <2>4, <2>5, <2>6, <2>7
<1>8. QED BY <1>6, <1>7

LEMMA EndOfFileInv == ASSUME IInv, EndOfFile PROVE IInv'
<1> USE DEF IInv
<1> DEFINE s == [sweep EXCEPT !.batch = @ \o sweep.pending]
<1>1. /\ sweep.at = "read"
      /\ UNCHANGED <<written, fires, up, tables, outbox, faults, torn>>
      /\ IF s.batch # <<>> THEN Flush(s, "last flush")
         ELSE sweep' = [s EXCEPT !.at = "done"] /\ UNCHANGED call
  BY DEF EndOfFile
<1> DEFINE b == sweep.batch \o sweep.pending
<1>2. sweep \in SweepType /\ sweep.batch \in Seq(Event) /\ sweep.pending \in Seq(Event)
  BY DEF Types, SweepType
<1>3. b \in Seq(Event) /\ InBatch(b) = InBatch(sweep.batch) \cup InBatch(sweep.pending)
  BY <1>2, ConcatEvents
<1>4. b = <<>> => sweep.batch = <<>> /\ sweep.pending = <<>>
  BY <1>2
<1> HIDE DEF b
<1>5. s = [sweep EXCEPT !.batch = b]
  BY DEF b
<1> HIDE DEF s
<1>6. /\ s \in SweepType /\ s.batch = b /\ s.pending = sweep.pending
      /\ s.pos = sweep.pos /\ s.clean = sweep.clean
  BY <1>2, <1>3, <1>5 DEF SweepType
<1>7. CASE s.batch # <<>>
  <2>1. InBatch(s.pending) \subseteq InBatch(s.batch)
    BY <1>3, <1>6
  <2>2. Held(sweep) \subseteq Held(s)
    BY <1>3, <1>6 DEF Held
  <2>3. \A n \in 1..s.pos : n \in 1..sweep.pos
    BY <1>6
  <2>4. Flush(s, "last flush")
    BY <1>1, <1>7
  <2>5. QED BY <1>1, <1>6, <1>7, <2>1, <2>2, <2>3, <2>4, FlushInv
<1>8. CASE s.batch = <<>>
  <2>1. sweep' = [s EXCEPT !.at = "done"] /\ call' = call
    BY <1>1, <1>8
  <2>2. sweep.batch = <<>> /\ sweep.pending = <<>>
    BY <1>4, <1>6, <1>8
  <2>3. /\ sweep' \in SweepType /\ sweep'.at = "done" /\ sweep'.batch = <<>>
        /\ sweep'.pending = <<>> /\ sweep'.pos = sweep.pos /\ sweep'.clean = sweep.clean
    BY <1>6, <1>8, <2>1, <2>2 DEF SweepType
  <2>4. Held(sweep') = Held(sweep)
    BY <2>2, <2>3 DEF Held
  <2>5. Monotone
    BY <1>1 DEF Monotone
  <2>6. Types'
    BY <1>1, <2>1, <2>3 DEF Types
  <2>7. Calls'
    BY <2>1, <2>5, OthersOK DEF Calls
  <2>8. Grounded'
    BY <1>1, <2>5, GroundedStays
  <2>9. Waits'
    BY <1>1, <2>1, <2>3 DEF Waits, OneBuffer
  <2>10. Held(sweep)' = Held(sweep)
    BY <2>4 DEF Held
  <2>11. Kept'
    BY <1>1, <2>1, <2>3, <2>10 DEF Kept
  <2>12. QED BY <2>6, <2>7, <2>8, <2>9, <2>11
<1>9. QED BY <1>7, <1>8

THEOREM InvHolds == Spec => []IInv
<1>1. ASSUME IInv, [Next]_vars PROVE IInv'
  <2>1. CASE Write
    BY <1>1, <2>1, WriteInv
  <2>2. ASSUME NEW c \in Hooks, NEW ids \in Hooked, Hook(c, ids) PROVE IInv'
    BY <1>1, <2>2, HookInv
  <2>3. CASE Start
    BY <1>1, <2>3, StartInv
  <2>4. CASE ReadTranscript
    BY <1>1, <2>4, ReadRecordInv, EndOfFileInv DEF ReadTranscript
  <2>5. ASSUME NEW c \in Callers, IngestBatch(c) PROVE IInv'
    BY <1>1, <2>5, CreateSessionInv, AppendEventsInv, SyncEventCountInv, EnqueueSessionInv,
       EnqueueEventInv DEF IngestBatch
  <2>6. CASE ShipSession
    BY <1>1, <2>6, ShipSessionInv
  <2>7. ASSUME NEW c \in Callers, CallFails(c) PROVE IInv'
    BY <1>1, <2>7, CallFailsInv
  <2>8. CASE Crash
    BY <1>1, <2>8, CrashInv
  <2>9. CASE UNCHANGED vars
    BY <1>1, <2>9, StutterInv
  <2>10. QED BY <1>1, <2>1, <2>2, <2>3, <2>4, <2>5, <2>6, <2>7, <2>8, <2>9 DEF Next
<1>2. QED BY <1>1, InvInit, PTL DEF Spec

(* An event is handed to the outbox only after its session's row and after   *)
(* it is in the tables itself.                                               *)
THEOREM Groundedness == Spec => []PushedIsGrounded
<1>1. IInv => PushedIsGrounded
  BY DEF IInv, Grounded, PushedIsGrounded
<1>2. QED BY <1>1, InvHolds, PTL

(* Once the sweep is through and no batch has failed, every record it has    *)
(* read is in the tables and on its way.                                     *)
THEOREM SweepKeepsAll == Spec => []SweptIsKept
<1>1. ASSUME IInv PROVE SweptIsKept
  <2> USE DEF IInv
  <2>1. SUFFICES ASSUME sweep.at = "done", sweep.clean, NEW n \in 1..sweep.pos
                 PROVE  n \in Ids(events) /\ FileEvent(n) \in handed
    BY <1>1 DEF SweptIsKept
  <2>2. call[Sweep].pc = "idle" /\ sweep.batch = <<>> /\ sweep.pending = <<>>
    BY <1>1, <2>1 DEF Waits
  <2>3. call[Sweep].batch = <<>>
    BY <1>1, <2>2, SweepIsCaller DEF Calls, CallOK
  <2>4. FileEvent(n) \in handed
    BY <1>1, <2>1, <2>2, <2>3, InBatchEmpty DEF Kept, Held
  <2>5. FileEvent(n).id \in Ids(events)
    BY <1>1, <2>4 DEF Grounded, Ids
  <2>6. QED BY <2>4, <2>5 DEF FileEvent
<1>2. QED BY <1>1, InvHolds, PTL

-------------------------------------------------------------------------------
(* The count of events. *)

LEMMA FinitelyManyEvents == IsFiniteSet(Event)
<1> DEFINE A == 0..Length
<1> DEFINE B == 0..MaxFires
<1> DEFINE f == [p \in A \X B |-> [id |-> p[1], at |-> p[2]]]
<1>1. IsFiniteSet(A) /\ IsFiniteSet(B)
  BY CaptureAssumption, FS_Interval
<1> HIDE DEF A, B
<1>2. IsFiniteSet(A \X B)
  BY <1>1, FS_Product
<1>3. Event = [id : A, at : B]
  BY DEF Event, A, B
<1>4. f \in [A \X B -> Event]
  BY <1>3
<1>5. ASSUME NEW e \in Event PROVE \E p \in A \X B : f[p] = e
  <2>1. <<e.id, e.at>> \in A \X B /\ f[<<e.id, e.at>>] = e
    BY <1>3
  <2>2. QED BY <2>1
<1>6. f \in Surjection(A \X B, Event)
  BY <1>4, <1>5 DEF Surjection
<1>7. QED BY <1>2, <1>6, FS_Surjection

LEMMA CountStays ==
  ASSUME CountIsExact, UNCHANGED <<events, eventCount>>, torn => torn',
         \A c \in Callers : call[c].pc = "count" => call'[c].pc = "count" \/ torn'
  PROVE  CountIsExact'
BY DEF CountIsExact

LEMMA CountStep == ASSUME IInv, CountIsExact, [Next]_vars PROVE CountIsExact'
<1>t. call \in [Callers -> CallType]
  BY DEF IInv, Types
<1>1. CASE Write
  BY <1>1, CountStays DEF Write
<1>2. ASSUME NEW c \in Hooks, NEW ids \in Hooked, Hook(c, ids) PROVE CountIsExact'
  <2> DEFINE r == [pc |-> "create", batch |-> [i \in DOMAIN ids |-> [id |-> ids[i], at |-> fires + 1]]]
  <2>1. /\ call' = [call EXCEPT ![c] = r] /\ call[c].pc = "idle"
        /\ UNCHANGED <<events, eventCount, torn>>
    BY <1>2 DEF Hook
  <2> HIDE DEF r
  <2>2. \A d \in Callers : call[d].pc = "count" => call'[d].pc = "count"
    BY <1>t, <2>1
  <2>3. QED BY <2>1, <2>2, CountStays
<1>3. CASE Start
  BY <1>3, CountStays DEF Start
<1>4. CASE ReadTranscript
  <2>1. /\ UNCHANGED <<events, eventCount, torn>> /\ sweep.at = "read"
        /\ \/ call' = call
           \/ \E b : call' = [call EXCEPT ![Sweep] = [pc |-> "create", batch |-> b]]
    BY <1>4 DEF ReadTranscript, ReadRecord, EndOfFile, Flush
  <2>2. call[Sweep].pc = "idle"
    BY <2>1, SweepIsCaller DEF IInv, Waits
  <2>3. \A d \in Callers : call[d].pc = "count" => call'[d].pc = "count"
    BY <1>t, <2>1, <2>2
  <2>4. QED BY <2>1, <2>3, CountStays
<1>5. ASSUME NEW c \in Callers, IngestBatch(c) PROVE CountIsExact'
  <2>1. CASE CreateSession(c)
    <3>1. \A d \in Callers : call[d].pc = "count" => call'[d].pc = "count"
      BY <1>t, <2>1 DEF CreateSession
    <3>2. QED BY <2>1, <3>1, CountStays DEF CreateSession
  <2>2. CASE AppendEvents(c)
    <3>1. call'[c].pc = "count"
      BY <1>t, <2>2 DEF AppendEvents, CallType
    <3>2. QED BY <3>1 DEF CountIsExact
  <2>3. CASE SyncEventCount(c)
    BY <2>3 DEF SyncEventCount, CountIsExact
  <2>4. CASE EnqueueSession(c)
    <3>1. \A d \in Callers : call[d].pc = "count" => call'[d].pc = "count"
      BY <1>t, <2>4 DEF EnqueueSession
    <3>2. QED BY <2>4, <3>1, CountStays DEF EnqueueSession
  <2>5. CASE EnqueueEvent(c)
    <3>1. \A d \in Callers \ {c} : call'[d] = call[d]
      BY <1>t, <2>5 DEF EnqueueEvent
    <3>2. QED BY <2>5, <3>1, CountStays DEF EnqueueEvent
  <2>6. QED BY <1>5, <2>1, <2>2, <2>3, <2>4, <2>5 DEF IngestBatch
<1>6. CASE ShipSession
  BY <1>6, CountStays DEF ShipSession
<1>7. ASSUME NEW c \in Callers, CallFails(c) PROVE CountIsExact'
  <2>1. \A d \in Callers \ {c} : call'[d] = call[d]
    BY <1>t, <1>7 DEF CallFails
  <2>2. (torn => torn') /\ (call[c].pc = "count" => torn')
    BY <1>7 DEF CallFails
  <2>3. QED BY <1>7, <2>1, <2>2, CountStays DEF CallFails
<1>8. CASE Crash
  BY <1>8, CountStays DEF Crash
<1>9. CASE UNCHANGED vars
  BY <1>9, CountStays DEF vars
<1>10. QED BY <1>1, <1>2, <1>3, <1>4, <1>5, <1>6, <1>7, <1>8, <1>9 DEF Next

(* event_count is the number of events, unless a call is about to set it or  *)
(* has failed right before.                                                  *)
THEOREM CountsAreExact == Spec => []CountIsExact
<1>1. Init => CountIsExact
  BY FS_EmptySet DEF Init, CountIsExact
<1>2. QED BY <1>1, CountStep, InvHolds, PTL DEF Spec

(* The variables keep their types. *)
THEOREM TypeCorrect == Spec => []TypeOK
<1>1. Init => eventCount \in Nat
  BY DEF Init
<1>2. IInv /\ eventCount \in Nat /\ [Next]_vars => (eventCount \in Nat)'
  <2> SUFFICES ASSUME IInv, eventCount \in Nat, [Next]_vars PROVE eventCount' \in Nat
    OBVIOUS
  <2>1. IsFiniteSet(events)
    BY FinitelyManyEvents, FS_Subset DEF IInv, Types
  <2>2. Cardinality(events) \in Nat
    BY <2>1, FS_CardinalityType
  <2>3. eventCount' \in {eventCount, Cardinality(events)}
    BY DEF Next, vars, Write, Hook, Start, ReadTranscript, ReadRecord, EndOfFile,
       IngestBatch, CreateSession, AppendEvents, SyncEventCount, EnqueueSession, EnqueueEvent,
       ShipSession, CallFails, Crash
  <2>4. QED BY <2>2, <2>3
<1>3. IInv /\ eventCount \in Nat => TypeOK
  BY DEF IInv, Types, TypeOK, SweepType, CallType
<1>4. Spec => [](eventCount \in Nat)
  BY <1>1, <1>2, InvHolds, PTL DEF Spec
<1>5. QED BY <1>3, <1>4, InvHolds, PTL

-------------------------------------------------------------------------------
(* Where a session without a cwd comes from.  Only the batch of the end of   *)
(* the file begins with a record; it is made by a sweep that has found no    *)
(* cwd, and nothing is read after it.                                        *)
NoCwd(pos) == \A n \in 1..pos : n \notin Rooted

StartsSession(b) == b # <<>> /\ Head(b) = FileEvent(0)

Rootless == session # None /\ session.at = FromFile /\ session.id # 0

DownIsEmpty == ~up => session = None /\ \A c \in Callers : call[c].pc = "idle"

NoneYet == ~sweep.synthesized => NoCwd(sweep.pos)

StartIsFirst ==
  sweep.synthesized =>
    \/ StartsSession(sweep.batch)
    \/ call[Sweep].pc = "create" /\ StartsSession(call[Sweep].batch)
    \/ session # None

HooksAreLater == \A c \in Hooks : call[c].pc = "create" => Head(call[c].batch).at # FromFile

FirstOfSweep ==
  call[Sweep].pc = "create" /\ session = None =>
    StartsSession(call[Sweep].batch) \/ (~sweep.synthesized /\ sweep.at = "last flush")

RootlessIsLast == Rootless => NoCwd(sweep.pos) /\ sweep.at \in {"last flush", "done"}

Origin ==
  DownIsEmpty /\ NoneYet /\ StartIsFirst /\ HooksAreLater /\ FirstOfSweep /\ RootlessIsLast

OriginInv == faults = 0 => Origin

LEMMA OriginInit == Init => OriginInv
<1> SUFFICES ASSUME Init PROVE Origin
  BY DEF OriginInv
<1>1. \A c \in Callers : call[c].pc = "idle"
  BY DEF Init, NoCall
<1>2. call[Sweep].pc = "idle" /\ \A c \in Hooks : call[c].pc = "idle"
  BY <1>1, SweepIsCaller DEF Callers
<1>3. session = None /\ sweep.pos = 0 /\ sweep.synthesized = FALSE
  BY DEF Init, NoSweep
<1>4. QED
  BY <1>1, <1>2, <1>3
  DEF Origin, DownIsEmpty, NoneYet, StartIsFirst, HooksAreLater, FirstOfSweep,
      RootlessIsLast, Rootless, NoCwd

(* A step that neither begins a call nor creates a session.                  *)
LEMMA OriginStays ==
  ASSUME Origin, UNCHANGED <<session, up>>,
         sweep'.pos = sweep.pos, sweep'.synthesized = sweep.synthesized,
         sweep'.batch = sweep.batch,
         sweep.at \in {"last flush", "done"} => sweep'.at \in {"last flush", "done"},
         call'[Sweep].pc = "create" => sweep' = sweep,
         \A d \in Callers : \/ call'[d] = call[d]
                            \/ call[d].pc \notin {"idle", "create"} /\ call'[d].pc # "create"
  PROVE  Origin'
<1>1. Hooks \subseteq Callers /\ Sweep \in Callers
  BY SweepIsCaller DEF Callers
<1>2. DownIsEmpty'
  BY DEF Origin, DownIsEmpty
<1>3. NoneYet'
  BY DEF Origin, NoneYet, NoCwd
<1>4. StartIsFirst'
  BY <1>1 DEF Origin, StartIsFirst, StartsSession
<1>5. HooksAreLater'
  BY <1>1 DEF Origin, HooksAreLater
<1>6. FirstOfSweep'
  BY <1>1 DEF Origin, FirstOfSweep, StartsSession
<1>7. RootlessIsLast'
  BY DEF Origin, RootlessIsLast, Rootless, NoCwd
<1>8. QED BY <1>2, <1>3, <1>4, <1>5, <1>6, <1>7 DEF Origin

LEMMA OriginCreate == ASSUME IInv, Origin, NEW c \in Callers, CreateSession(c) PROVE Origin'
<1>1. /\ call[c].pc = "create" /\ call' = [call EXCEPT ![c].pc = "append"]
      /\ UNCHANGED <<sweep, up>>
      /\ session' = IF session = None THEN Head(call[c].batch) ELSE session
  BY DEF CreateSession
<1>t. call \in [Callers -> CallType] /\ Hooks \subseteq Callers /\ Sweep \in Callers
  BY SweepIsCaller DEF IInv, Types, Callers
<1>2. call'[c].pc = "append" /\ \A d \in Callers \ {c} : call'[d] = call[d]
  BY <1>1, <1>t DEF CallType
<1>3. Head(call[c].batch) \in Event
  BY <1>1, BatchOfCall DEF IInv
<1>4. session' # None
  BY <1>1, <1>3, NoneAssumption
<1>5. up /\ up'
  BY <1>1 DEF Origin, DownIsEmpty
<1>6. NoneYet'
  BY <1>1 DEF Origin, NoneYet, NoCwd
<1>7. HooksAreLater'
  BY <1>2, <1>t DEF Origin, HooksAreLater
<1>8. RootlessIsLast'
  <2>1. CASE session # None
    BY <1>1, <2>1 DEF Origin, RootlessIsLast, Rootless, NoCwd
  <2>2. CASE session = None /\ c = Sweep
    <3>1. StartsSession(call[Sweep].batch) => session'.id = 0
      BY <1>1, <2>2 DEF StartsSession, FileEvent
    <3>2. ~sweep.synthesized => NoCwd(sweep.pos)
      BY DEF Origin, NoneYet
    <3>3. QED BY <1>1, <2>2, <3>1, <3>2 DEF Origin, FirstOfSweep, RootlessIsLast, Rootless, NoCwd
  <2>3. CASE session = None /\ c # Sweep
    <3>1. session'.at # FromFile
      BY <1>1, <2>3 DEF Origin, HooksAreLater, Callers
    <3>2. QED BY <3>1 DEF RootlessIsLast, Rootless
  <2>4. QED BY <2>1, <2>2, <2>3
<1>9. QED
  BY <1>4, <1>5, <1>6, <1>7, <1>8 DEF Origin, DownIsEmpty, StartIsFirst, FirstOfSweep

LEMMA OriginHook ==
  ASSUME IInv, Origin, NEW c \in Hooks, NEW ids \in Hooked, Hook(c, ids)
  PROVE  Origin'
<1> DEFINE b == [i \in DOMAIN ids |-> [id |-> ids[i], at |-> fires + 1]]
<1> DEFINE r == [pc |-> "create", batch |-> b]
<1>1. call' = [call EXCEPT ![c] = r] /\ up /\ UNCHANGED <<up, sweep, session>>
  BY DEF Hook, tables
<1>2. ids \in Seq(0..Length) /\ ids # <<>> /\ fires \in Nat
  BY CaptureAssumption DEF IInv, Types
<1>3. Head(b).at = fires + 1
  BY <1>2
<1> HIDE DEF b
<1>4. r.pc = "create" /\ Head(r.batch).at # FromFile
  BY <1>2, <1>3 DEF FromFile
<1> HIDE DEF r
<1>5. c \in Callers /\ c # Sweep /\ Hooks \subseteq Callers /\ Sweep \in Callers
  BY CaptureAssumption, SweepIsCaller DEF Callers
<1>6. call'[c] = r /\ \A d \in Callers \ {c} : call'[d] = call[d]
  BY <1>1, <1>5 DEF IInv, Types
<1>7. call'[Sweep] = call[Sweep]
  BY <1>5, <1>6
<1>8. HooksAreLater'
  BY <1>4, <1>5, <1>6 DEF Origin, HooksAreLater
<1>9. QED
  BY <1>1, <1>7, <1>8
  DEF Origin, DownIsEmpty, NoneYet, StartIsFirst, FirstOfSweep, RootlessIsLast, Rootless,
      NoCwd, StartsSession

LEMMA OriginStart == ASSUME IInv, Origin, Start PROVE Origin'
<1>1. ~up /\ up' /\ sweep' = [NoSweep EXCEPT !.at = "read"] /\ UNCHANGED <<call, session>>
  BY DEF Start, tables
<1>2. sweep'.pos = 0 /\ sweep'.synthesized = FALSE
  BY <1>1 DEF NoSweep
<1>3. session = None /\ \A c \in Callers : call[c].pc = "idle"
  BY <1>1 DEF Origin, DownIsEmpty
<1>4. call[Sweep].pc = "idle" /\ \A c \in Hooks : call[c].pc = "idle"
  BY <1>3, SweepIsCaller DEF Callers
<1>5. QED
  BY <1>1, <1>2, <1>3, <1>4
  DEF Origin, DownIsEmpty, NoneYet, StartIsFirst, HooksAreLater, FirstOfSweep,
      RootlessIsLast, Rootless, NoCwd

(* What Buffer makes of a record begins a session once there is a cwd.       *)
LEMMA BufferStarts ==
  ASSUME NEW s \in SweepType, NEW n \in 1..Length, OneBuffer(s), n = s.pos + 1,
         ~s.synthesized => NoCwd(s.pos)
  PROVE  LET t == Buffer(s, n) IN
         /\ ~t.synthesized => NoCwd(n)
         /\ ~t.synthesized => t.batch = <<>>
         /\ t.synthesized => \/ StartsSession(t.batch)
                             \/ s.synthesized /\ ~StartsSession(s.batch)
<1> DEFINE t == Buffer(s, n)
<1> DEFINE e == FileEvent(n)
<1>1. e \in Event /\ FileEvent(0) \in Event
  BY CaptureAssumption, FileEventsAreEvents
<1>2. s.pending \in Seq(Event) /\ s.batch \in Seq(Event) /\ s.pos \in Nat
  <2>1. s.pending \in Seq(Event) /\ s.batch \in Seq(Event) /\ s.pos \in 0..Length
    BY DEF SweepType
  <2>2. QED BY <2>1, CaptureAssumption
<1>3. CASE s.synthesized
  <2>1. t.synthesized = s.synthesized /\ t.batch = Append(s.batch, e)
    BY <1>3 DEF Buffer, SweepType
  <2>2. StartsSession(s.batch) => StartsSession(Append(s.batch, e))
    BY <1>1, <1>2 DEF StartsSession
  <2>3. QED BY <1>3, <2>1, <2>2
<1>4. CASE ~s.synthesized /\ n \notin Rooted
  <2>1. t.synthesized = s.synthesized /\ t.batch = s.batch
    BY <1>4 DEF Buffer, SweepType
  <2>2. \A k \in 1..n : k \in 1..s.pos \/ k = n
    BY <1>2
  <2>3. NoCwd(n)
    BY <1>4, <2>2 DEF NoCwd
  <2>4. QED BY <1>4, <2>1, <2>3 DEF OneBuffer
<1>5. CASE ~s.synthesized /\ n \in Rooted
  <2> DEFINE a == <<FileEvent(0)>> \o s.pending
  <2> DEFINE b == a \o <<e>>
  <2>1. t.synthesized = TRUE /\ t.batch = b
    BY <1>5 DEF Buffer, SweepType
  <2>2. a \in Seq(Event) /\ a # <<>> /\ a[1] = FileEvent(0)
    BY <1>1, <1>2
  <2> HIDE DEF a
  <2>3. b \in Seq(Event) /\ b # <<>> /\ b[1] = a[1]
    BY <1>1, <2>2
  <2> HIDE DEF b
  <2>4. StartsSession(b)
    BY <2>2, <2>3 DEF StartsSession
  <2>5. QED BY <2>1, <2>4
<1>6. QED BY <1>3, <1>4, <1>5

(* The sweep hands its batch over.                                           *)
LEMMA OriginFlush ==
  ASSUME IInv, Origin, NEW s \in SweepType, NEW p, sweep.at = "read", Flush(s, p),
         UNCHANGED <<session, up>>,
         ~s.synthesized => NoCwd(s.pos) /\ p = "last flush",
         s.synthesized => StartsSession(s.batch) \/ session # None
  PROVE  Origin'
<1> DEFINE r == [pc |-> "create", batch |-> s.batch]
<1>1. call' = [call EXCEPT ![Sweep] = r]
      /\ sweep' = [s EXCEPT !.at = p, !.batch = <<>>, !.pending = <<>>]
  BY DEF Flush
<1>2. /\ sweep'.at = p /\ sweep'.pos = s.pos /\ sweep'.synthesized = s.synthesized
  BY <1>1 DEF SweepType
<1>3. r.pc = "create" /\ r.batch = s.batch
  OBVIOUS
<1> HIDE DEF r
<1>4. call'[Sweep] = r /\ \A d \in Callers \ {Sweep} : call'[d] = call[d]
  BY <1>1, SweepIsCaller DEF IInv, Types
<1>5. up
  BY DEF IInv, Waits
<1>6. \A c \in Hooks : call'[c] = call[c]
  BY <1>4, CaptureAssumption DEF Callers
<1>7. ~Rootless
  BY DEF Origin, RootlessIsLast
<1>8. QED
  BY <1>2, <1>3, <1>4, <1>5, <1>6, <1>7
  DEF Origin, DownIsEmpty, NoneYet, StartIsFirst, HooksAreLater, FirstOfSweep,
      RootlessIsLast, Rootless

LEMMA OriginRead == ASSUME IInv, Origin, ReadRecord PROVE Origin'
<1> DEFINE n == sweep.pos + 1
<1> DEFINE s == Buffer(sweep, n)
<1>1. /\ sweep.at = "read" /\ sweep.pos < written /\ UNCHANGED <<session, up>>
      /\ IF Len(s.batch) >= FlushSize THEN Flush(s, "flush")
         ELSE sweep' = s /\ UNCHANGED call
  BY DEF ReadRecord, tables
<1>2. sweep \in SweepType /\ OneBuffer(sweep) /\ n \in 1..Length
  <2>1. sweep.pos \in 0..Length /\ written \in 0..Length
    BY DEF IInv, Types, SweepType
  <2>2. QED BY <1>1, <2>1, CaptureAssumption DEF IInv, Types, Waits
<1>3. ~sweep.synthesized => NoCwd(sweep.pos)
  BY DEF Origin, NoneYet
<1>4. s \in SweepType /\ s.at = sweep.at /\ s.pos = n
  BY <1>2, BufferKeeps
<1>5. /\ ~s.synthesized => NoCwd(n)
      /\ ~s.synthesized => s.batch = <<>>
      /\ s.synthesized => \/ StartsSession(s.batch)
                          \/ sweep.synthesized /\ ~StartsSession(sweep.batch)
  BY <1>2, <1>3, BufferStarts
<1>6. call[Sweep].pc = "idle" /\ up
  BY <1>1 DEF IInv, Waits
<1>7. s.synthesized => StartsSession(s.batch) \/ session # None
  BY <1>5, <1>6 DEF Origin, StartIsFirst
<1> HIDE DEF s
<1>8. CASE Len(s.batch) >= FlushSize
  <2>1. s.synthesized
    BY <1>5, <1>8, CaptureAssumption
  <2>2. QED BY <1>1, <1>4, <1>7, <1>8, <2>1, OriginFlush
<1>9. CASE ~(Len(s.batch) >= FlushSize)
  <2>1. sweep' = s /\ call' = call
    BY <1>1, <1>9
  <2>2. ~Rootless
    BY <1>1 DEF Origin, RootlessIsLast
  <2>3. QED
    BY <1>1, <1>4, <1>5, <1>6, <1>7, <2>1, <2>2
    DEF Origin, DownIsEmpty, NoneYet, StartIsFirst, HooksAreLater, FirstOfSweep,
        RootlessIsLast, Rootless
<1>10. QED BY <1>8, <1>9

LEMMA OriginEnd == ASSUME IInv, Origin, EndOfFile PROVE Origin'
<1> DEFINE b == sweep.batch \o sweep.pending
<1> DEFINE s == [sweep EXCEPT !.batch = b]
<1>1. /\ sweep.at = "read" /\ UNCHANGED <<session, up>>
      /\ IF s.batch # <<>> THEN Flush(s, "last flush")
         ELSE sweep' = [s EXCEPT !.at = "done"] /\ UNCHANGED call
  BY DEF EndOfFile, tables
<1>2. /\ sweep \in SweepType /\ sweep.batch \in Seq(Event) /\ sweep.pending \in Seq(Event)
      /\ OneBuffer(sweep)
  BY DEF IInv, Types, Waits, SweepType
<1>3. b \in Seq(Event) /\ (sweep.synthesized => b = sweep.batch)
  <2>1. sweep.synthesized => sweep.pending = <<>>
    BY <1>2 DEF OneBuffer
  <2>2. sweep.pending = <<>> => b = sweep.batch
    BY <1>2
  <2>3. b \in Seq(Event)
    BY <1>2
  <2>4. QED BY <2>1, <2>2, <2>3
<1> HIDE DEF b
<1>4. /\ s \in SweepType /\ s.batch = b /\ s.pos = sweep.pos
      /\ s.synthesized = sweep.synthesized
  BY <1>2, <1>3 DEF SweepType
<1>5. call[Sweep].pc = "idle" /\ up
  BY <1>1 DEF IInv, Waits
<1>6. s.synthesized => StartsSession(s.batch) \/ session # None
  BY <1>3, <1>4, <1>5 DEF Origin, StartIsFirst
<1>7. ~s.synthesized => NoCwd(s.pos)
  BY <1>4 DEF Origin, NoneYet
<1>8. [s EXCEPT !.at = "done"].pos = s.pos /\ [s EXCEPT !.at = "done"].batch = s.batch
      /\ [s EXCEPT !.at = "done"].synthesized = s.synthesized
  BY <1>4 DEF SweepType
<1> HIDE DEF s
<1>9. CASE s.batch # <<>>
  BY <1>1, <1>4, <1>6, <1>7, <1>9, OriginFlush
<1>10. CASE s.batch = <<>>
  <2>1. /\ sweep'.pos = s.pos /\ sweep'.batch = s.batch /\ sweep'.synthesized = s.synthesized
        /\ call' = call
    BY <1>1, <1>8, <1>10
  <2>2. ~Rootless
    BY <1>1 DEF Origin, RootlessIsLast
  <2>3. QED
    BY <1>1, <1>5, <1>6, <1>7, <2>1, <2>2
    DEF Origin, DownIsEmpty, NoneYet, StartIsFirst, HooksAreLater, FirstOfSweep,
        RootlessIsLast, Rootless
<1>11. QED BY <1>9, <1>10

(* The statements after the first one. *)
LEMMA OriginGoesOn ==
  ASSUME IInv, Origin, NEW c \in Callers,
         AppendEvents(c) \/ SyncEventCount(c) \/ EnqueueSession(c) \/ EnqueueEvent(c)
  PROVE  Origin'
<1>t. call \in [Callers -> CallType] /\ sweep \in SweepType /\ Sweep \in Callers
  BY SweepIsCaller DEF IInv, Types
<1>1. call[c].pc \notin {"idle", "create"} /\ UNCHANGED <<session, up>>
  BY DEF AppendEvents, SyncEventCount, EnqueueSession, EnqueueEvent, tables
<1>2. \A d \in Callers \ {c} : call'[d] = call[d]
  BY <1>t DEF AppendEvents, SyncEventCount, EnqueueSession, EnqueueEvent
<1>3. call'[c].pc # "create"
  <2>1. CASE AppendEvents(c) \/ SyncEventCount(c) \/ EnqueueSession(c)
    BY <2>1, <1>t DEF AppendEvents, SyncEventCount, EnqueueSession, CallType
  <2>2. CASE EnqueueEvent(c)
    <3>1. \/ call' = [call EXCEPT ![c].batch = Tail(@)]
          \/ call' = [call EXCEPT ![c] = NoCall]
      BY <2>2 DEF EnqueueEvent
    <3>2. call'[c].pc = call[c].pc \/ call'[c].pc = "idle"
      BY <3>1, <1>t DEF CallType, NoCall
    <3>3. QED BY <1>1, <3>2
  <2>3. QED BY <2>1, <2>2
<1>4. sweep' = sweep \/ Return(c, TRUE)
  BY DEF AppendEvents, SyncEventCount, EnqueueSession, EnqueueEvent
<1>5. CASE sweep' = sweep
  BY <1>1, <1>2, <1>3, <1>5, OriginStays
<1>6. CASE sweep' # sweep
  <2>1. c = Sweep /\ sweep' = [sweep EXCEPT !.at = IF @ = "flush" THEN "read" ELSE "done",
                                           !.clean = @ /\ TRUE]
    BY <1>4, <1>6 DEF Return
  <2>2. /\ sweep'.pos = sweep.pos /\ sweep'.batch = sweep.batch
        /\ sweep'.synthesized = sweep.synthesized
        /\ sweep.at \in {"last flush", "done"} => sweep'.at \in {"last flush", "done"}
    BY <1>t, <2>1 DEF SweepType
  <2>3. QED BY <1>1, <1>2, <1>3, <2>1, <2>2, OriginStays
<1>7. QED BY <1>5, <1>6

LEMMA OriginStep == ASSUME IInv, OriginInv, [Next]_vars PROVE OriginInv'
<1> SUFFICES ASSUME faults' = 0 PROVE Origin'
  BY DEF OriginInv
<1>1. ~Crash /\ (\A c \in Callers : ~CallFails(c)) /\ faults = 0
  <2>1. faults \in Nat
    BY CaptureAssumption DEF IInv, Types
  <2>2. ~Fault
    BY <2>1 DEF Fault
  <2>3. ~Crash /\ \A c \in Callers : ~CallFails(c)
    BY <2>2 DEF Crash, CallFails
  <2>4. UNCHANGED faults
    BY <2>3
    DEF Next, vars, Write, Hook, Start, ReadTranscript, ReadRecord, EndOfFile, IngestBatch,
        CreateSession, AppendEvents, SyncEventCount, EnqueueSession, EnqueueEvent, ShipSession
  <2>5. QED BY <2>3, <2>4
<1>2. Origin
  BY <1>1 DEF OriginInv
<1>3. ASSUME UNCHANGED <<session, up, sweep, call>> PROVE Origin'
  BY <1>2, <1>3, OriginStays
<1>4. CASE Write \/ ShipSession \/ UNCHANGED vars
  BY <1>3, <1>4 DEF Write, ShipSession, vars, tables
<1>5. ASSUME NEW c \in Hooks, NEW ids \in Hooked, Hook(c, ids) PROVE Origin'
  BY <1>2, <1>5, OriginHook
<1>6. CASE Start
  BY <1>2, <1>6, OriginStart
<1>7. CASE ReadTranscript
  BY <1>2, <1>7, OriginRead, OriginEnd DEF ReadTranscript
<1>8. ASSUME NEW c \in Callers, IngestBatch(c) PROVE Origin'
  BY <1>2, <1>8, OriginCreate, OriginGoesOn DEF IngestBatch
<1>9. QED BY <1>1, <1>4, <1>5, <1>6, <1>7, <1>8 DEF Next

(* While nothing has failed, the sweep makes a session without a cwd only    *)
(* from a transcript that has none as far as it has been read, for any       *)
(* transcript, size of a batch and number of hooks beside it.                *)
THEOREM CwdIsFound == Spec => []SweepFindsCwd
<1>1. IInv /\ OriginInv => SweepFindsCwd
  BY DEF OriginInv, Origin, RootlessIsLast, Rootless, NoCwd, SweepFindsCwd
<1>2. QED BY <1>1, OriginInit, OriginStep, InvHolds, PTL DEF Spec
===============================================================================

---------------------------- MODULE LifecycleProofs ----------------------------
(* Theorems about Lifecycle for any commands, files, modes, users, crashes and PIDs. *)
EXTENDS Lifecycle, TLAPS

USE DEF Goto, cmds, files, history, Nothing

-------------------------------------------------------------------------------
(* While no two commands have overlapped, one runs at a time. *)
Alone == ~overlap => \A c, d \in Cmds : Running(c) /\ Running(d) => c = d

Editing(c) == pc[c] \in {"edit", "write"}

(* What a command has still to edit is the end of its list; it edits nothing  *)
(* before it has its daemon up or down.                                       *)
EditsDone(c) == Len(Edits[c]) - Len(todo[c])

Rest(c) ==
  /\ EditsDone(c) \in Nat
  /\ \A i \in 1..Len(todo[c]) : todo[c][i] = Edits[c][EditsDone(c) + i]
  /\ pc[c] \notin {"edit", "write", "done", "failed"} => todo[c] = Edits[c]
  /\ pc[c] = "remove" => Kind[c] = "purge"

(* The handlers of ours in f are those that c leaves there. *)
Right(c, f) ==
  \A s \in Slots : config[f][s] \cap Ours =
    IF Kind[c] \in {"up", "install"} /\ s \in Installs(c, f) THEN {Handler(c, f)} ELSE {}

(* A command's work stands until another one starts to edit. *)
Standing ==
  ~overlap =>
    /\ \A c \in Cmds : Editing(c) => \A i \in 1..EditsDone(c) : Right(c, Edits[c][i])
    /\ (\A c \in Cmds : ~Editing(c)) =>
         \A c \in last : \A i \in 1..Len(Edits[c]) : Right(c, Edits[c][i])

(* A user's handler is in the file and in every copy a command is rewriting.  *)
Spared ==
  \A f \in Files, s \in Slots : <<f, s>> \in theirs =>
    /\ "user" \in config[f][s]
    /\ \A c \in Cmds : pc[c] = "write" /\ Head(todo[c]) = f => "user" \in read[c][s]

IInv == TypeOK /\ Alone /\ (\A c \in Cmds : Rest(c)) /\ Standing /\ Spared

LEMMA InitOK == Init => IInv
<1> SUFFICES ASSUME Init PROVE IInv
  OBVIOUS
<1> USE LifecycleAssumption
<1>1. TypeOK
  BY DEF Init, TypeOK, Files
<1>2. Alone /\ Standing /\ Spared
  BY DEF Init, Alone, Running, Standing, Editing, Spared
<1>3. \A c \in Cmds : Rest(c)
  <2> SUFFICES ASSUME NEW c \in Cmds PROVE Rest(c)
    OBVIOUS
  <2>1. todo[c] = Edits[c] /\ pc[c] = "new" /\ Len(Edits[c]) \in Nat
    BY DEF Init
  <2>2. EditsDone(c) = 0
    BY <2>1 DEF EditsDone
  <2>3. QED BY <2>1, <2>2 DEF Rest
<1>4. QED BY <1>1, <1>2, <1>3 DEF IInv

-------------------------------------------------------------------------------
LEMMA TailOf ==
  ASSUME NEW S, NEW q \in Seq(S), q # <<>>
  PROVE  /\ Tail(q) \in Seq(S) /\ Head(q) \in S /\ Head(q) = q[1]
         /\ Len(q) \in Nat \ {0} /\ Len(Tail(q)) = Len(q) - 1
         /\ \A i \in 1..Len(Tail(q)) : Tail(q)[i] = q[i + 1]
OBVIOUS

(* What a rewriting leaves in a slot. *)
LEMMA RewrittenSlots ==
  ASSUME TypeOK, NEW c \in Cmds, NEW f
  PROVE  /\ Rewritten(c, f) \in [Slots -> SUBSET (Ours \cup {"user"})]
         /\ \A s \in Slots :
              /\ "user" \in read[c][s] => "user" \in Rewritten(c, f)[s]
              /\ Rewritten(c, f)[s] \cap Ours =
                   IF Kind[c] \in {"up", "install"} /\ s \in Installs(c, f) THEN {Handler(c, f)} ELSE {}
<1> USE DEF Ours
<1>1. Handler(c, f) \in {"capture", "memory"}
  BY DEF Handler
<1>2. \A s \in Slots : read[c][s] \in SUBSET {"capture", "memory", "user"}
  BY DEF TypeOK
<1>3. QED
  <2> HIDE DEF Handler, Installs
  <2>1. QED BY <1>1, <1>2 DEF Rewritten, StripResleeve

LEMMA WriteDoes ==
  ASSUME TypeOK, NEW c \in Cmds, WriteSettings(c)
  PROVE  LET f == Head(todo[c]) IN
         /\ pc[c] = "write" /\ todo[c] \in Seq(Files) /\ todo[c] # <<>> /\ f \in Files
         /\ pc' = [pc EXCEPT ![c] = "edit"]
         /\ todo' = [todo EXCEPT ![c] = Tail(todo[c])]
         /\ read' = [read EXCEPT ![c] = Nothing]
         /\ config' = [config EXCEPT ![f] = Rewritten(c, f)]
         /\ config'[f] = Rewritten(c, f)
         /\ \A g \in Files : g # f => config'[g] = config[g]
         /\ UNCHANGED <<target, daemon, foreign, files, faults, history>>
<1> DEFINE f == Head(todo[c])
<1>1. pc[c] = "write" /\ todo[c] \in Seq(Files) /\ todo[c] # <<>>
  BY DEF WriteSettings, TypeOK
<1>2. f \in Files
  BY <1>1, TailOf
<1>3. config' = [config EXCEPT ![f] = Rewritten(c, f)] /\ config \in [Files -> [Slots -> SUBSET (Ours \cup {"user"})]]
  BY DEF WriteSettings, TypeOK
<1>4. /\ pc' = [pc EXCEPT ![c] = "edit"]
      /\ todo' = [todo EXCEPT ![c] = Tail(todo[c])]
      /\ read' = [read EXCEPT ![c] = Nothing]
      /\ UNCHANGED <<target, daemon, foreign, files, faults, history>>
  BY DEF WriteSettings
<1> HIDE DEF f
<1>5. config'[f] = Rewritten(c, f) /\ \A g \in Files : g # f => config'[g] = config[g]
  BY <1>2, <1>3
<1>6. QED BY <1>1, <1>2, <1>3, <1>4, <1>5 DEF f

(* A command that starts to edit, or one that fails before, leaves the last    *)
(* one's work as it is.                                                        *)
LEMMA StillStanding ==
  ASSUME Standing, NEW c \in Cmds, UNCHANGED <<config, todo, last>>, ~overlap' => ~overlap,
         \A d \in Cmds : d # c => pc'[d] = pc[d],
         ~Editing(c), EditsDone(c) = 0
  PROVE  Standing'
<1> SUFFICES ASSUME ~overlap' PROVE Standing'
  BY DEF Standing
<1>1. \A d \in Cmds : \A f : Right(d, f)' <=> Right(d, f)
  BY DEF Right
<1>2. \A d \in Cmds : EditsDone(d)' = EditsDone(d)
  BY DEF EditsDone
<1>3. \A d \in Cmds : d # c => (Editing(d)' <=> Editing(d))
  BY DEF Editing
<1> HIDE DEF Right, EditsDone, Editing
<1>4. \A d \in Cmds : Editing(d)' => \A i \in 1..EditsDone(d)' : Right(d, Edits[d][i])'
  BY <1>1, <1>2, <1>3 DEF Standing
<1>5. (\A d \in Cmds : ~Editing(d)') => \A d \in Cmds : ~Editing(d)
  BY <1>3
<1>6. (\A d \in Cmds : ~Editing(d)) =>
         \A d \in last : \A i \in 1..Len(Edits[d]) : Right(d, Edits[d][i])
  BY DEF Standing
<1>7. (\A d \in Cmds : ~Editing(d)') =>
         \A d \in last' : \A i \in 1..Len(Edits[d]) : Right(d, Edits[d][i])'
  <2> SUFFICES ASSUME \A d \in Cmds : ~Editing(d)', NEW d \in last', NEW i \in 1..Len(Edits[d])
               PROVE  Right(d, Edits[d][i])'
    OBVIOUS
  <2>1. d \in last /\ UNCHANGED config
    OBVIOUS
  <2>2. Right(d, Edits[d][i])
    BY <1>5, <1>6, <2>1
  <2>3. QED BY <2>1, <2>2 DEF Right
<1>8. QED BY <1>4, <1>7 DEF Standing

LEMMA TerminateDoes ==
  ASSUME TypeOK, NEW c \in Cmds, Terminate(c)
  PROVE  /\ pc[c] = "kill"
         /\ \E s \in {"await", "failed"} : pc' = [pc EXCEPT ![c] = s]
         /\ \A d \in Cmds : d # c => pc'[d] = pc[d]
         /\ target' = [target EXCEPT ![c] = 0]
         /\ daemon' = daemon \/ daemon' = [daemon EXCEPT ![target[c]] = IF @ = "serving" THEN "stopping" ELSE @]
         /\ UNCHANGED <<todo, read, foreign, files, config, faults, history>>
<1>1. pc[c] = "kill" /\ \E s \in {"await", "failed"} : pc' = [pc EXCEPT ![c] = s]
  BY DEF Terminate
<1>2. \A d \in Cmds : d # c => pc'[d] = pc[d]
  BY <1>1 DEF TypeOK
<1>3. QED BY <1>1, <1>2 DEF Terminate

LEMMA TerminateTyped ==
  ASSUME LifecycleAssumption, TypeOK, NEW c \in Cmds, Terminate(c)
  PROVE  TypeOK'
<1>1. daemon' \in [Pids -> {"none", "spawned", "opened", "listening", "serving",
                            "stopping", "shut", "unlinked", "closing", "gone"}]
  <2>1. daemon \in [Pids -> {"none", "spawned", "opened", "listening", "serving",
                             "stopping", "shut", "unlinked", "closing", "gone"}]
    BY DEF TypeOK
  <2>2. daemon' = daemon \/ \E p : daemon' = [daemon EXCEPT ![p] = IF @ = "serving" THEN "stopping" ELSE @]
    BY TerminateDoes
  <2>3. QED BY <2>1, <2>2
<1>2. pc' \in [Cmds -> Ends \cup {"new", "spawn", "wait", "kill", "await", "edit", "write", "remove"}]
      /\ \A d \in Cmds : pc'[d] = "write" => pc[d] = "write"
  <2>1. pc \in [Cmds -> Ends \cup {"new", "spawn", "wait", "kill", "await", "edit", "write", "remove"}]
    BY DEF TypeOK
  <2>2. \E s \in {"await", "failed"} : pc' = [pc EXCEPT ![c] = s]
    BY TerminateDoes
  <2>3. QED BY <2>1, <2>2 DEF Ends
<1>3. target' \in [Cmds -> Pids \cup {0}]
  BY TerminateDoes DEF TypeOK
<1>4. UNCHANGED <<todo, read, foreign, files, config, faults, history>>
  BY TerminateDoes
<1>5. foreign \subseteq {d \in Pids : daemon'[d] = "gone"}
  <2> SUFFICES ASSUME NEW d \in foreign PROVE d \in Pids /\ daemon'[d] = "gone"
    OBVIOUS
  <2>1. d \in Pids /\ daemon[d] = "gone"
    BY DEF TypeOK
  <2>2. daemon' = daemon \/ \E p : daemon' = [daemon EXCEPT ![p] = IF @ = "serving" THEN "stopping" ELSE @]
    BY TerminateDoes
  <2>3. QED BY <2>1, <2>2 DEF TypeOK
<1>6. QED BY <1>1, <1>2, <1>3, <1>4, <1>5 DEF TypeOK

LEMMA TypeStep == IInv /\ [Next]_vars => TypeOK'
<1> SUFFICES ASSUME IInv, [Next]_vars PROVE TypeOK'
  OBVIOUS
<1> USE LifecycleAssumption
<1>0. TypeOK
  BY DEF IInv
<1>1. ASSUME NEW p \in Pids, OpenStore(p) PROVE TypeOK'
  BY <1>0, <1>1 DEF OpenStore, TypeOK, Ends
<1>2. ASSUME NEW p \in Pids, WriteEndpoint(p) PROVE TypeOK'
  BY <1>0, <1>2 DEF WriteEndpoint, TypeOK, Ends
<1>3. ASSUME NEW p \in Pids, WritePid(p) PROVE TypeOK'
  BY <1>0, <1>3 DEF WritePid, TypeOK, Ends
<1>4. ASSUME NEW p \in Pids, Shutdown(p) PROVE TypeOK'
  BY <1>0, <1>4 DEF Shutdown, TypeOK, Ends
<1>5. ASSUME NEW p \in Pids, RemoveEndpoint(p) PROVE TypeOK'
  BY <1>0, <1>5 DEF RemoveEndpoint, TypeOK, Ends
<1>6. ASSUME NEW p \in Pids, RemovePid(p) PROVE TypeOK'
  BY <1>0, <1>6 DEF RemovePid, TypeOK, Ends
<1>7. ASSUME NEW p \in Pids, Exit(p) PROVE TypeOK'
  BY <1>0, <1>7 DEF Exit, TypeOK, Ends
<1>8. ASSUME NEW p \in Pids, Crash(p) PROVE TypeOK'
  BY <1>0, <1>8 DEF Crash, TypeOK, Ends
<1>9. ASSUME NEW c \in Cmds, Begin(c) PROVE TypeOK'
  BY <1>0, <1>9 DEF Begin, Begins, TypeOK, Ends
<1>10. ASSUME NEW c \in Cmds, Spawn(c) PROVE TypeOK'
  BY <1>0, <1>10 DEF Spawn, TypeOK, Ends
<1>11. ASSUME NEW c \in Cmds, Healthy(c) PROVE TypeOK'
  BY <1>0, <1>11 DEF Healthy, TypeOK, Ends
<1>12. ASSUME NEW c \in Cmds, Terminate(c) PROVE TypeOK'
  BY ONLY LifecycleAssumption, TypeOK, <1>12, TerminateTyped
<1>13. ASSUME NEW c \in Cmds, Gone(c) PROVE TypeOK'
  BY <1>0, <1>13 DEF Gone, TypeOK, Ends
<1>14. ASSUME NEW c \in Cmds, Remove(c) PROVE TypeOK'
  BY <1>0, <1>14 DEF Remove, TypeOK, Ends
<1>15. ASSUME NEW c \in Cmds, ReadSettings(c) PROVE TypeOK'
  BY <1>0, <1>15 DEF ReadSettings, TypeOK, Ends
<1>16. ASSUME NEW c \in Cmds, WriteSettings(c) PROVE TypeOK'
  <2> DEFINE f == Head(todo[c])
  <2>1. config' \in [Files -> [Slots -> SUBSET (Ours \cup {"user"})]]
    <3>1. f \in Files /\ config' = [config EXCEPT ![f] = Rewritten(c, f)]
      BY <1>0, <1>16, WriteDoes
    <3>2. Rewritten(c, f) \in [Slots -> SUBSET (Ours \cup {"user"})]
      BY <1>0, RewrittenSlots
    <3> HIDE DEF f
    <3>3. QED BY <1>0, <3>1, <3>2 DEF TypeOK
  <2>2. todo' \in [Cmds -> Seq(Files)]
    <3>1. Tail(todo[c]) \in Seq(Files) /\ todo' = [todo EXCEPT ![c] = Tail(todo[c])]
      BY <1>0, <1>16, WriteDoes, TailOf
    <3>2. QED BY <1>0, <3>1 DEF TypeOK
  <2>3. /\ pc' = [pc EXCEPT ![c] = "edit"] /\ read' = [read EXCEPT ![c] = Nothing]
        /\ \A d \in Cmds : d # c => todo'[d] = todo[d]
        /\ UNCHANGED <<target, daemon, foreign, files, faults, history>>
    BY <1>0, <1>16, WriteDoes DEF TypeOK
  <2>4. \A d \in Cmds : pc'[d] = "write" => todo'[d] # <<>>
    BY <1>0, <2>3 DEF TypeOK
  <2>5. read' \in [Cmds -> [Slots -> SUBSET (Ours \cup {"user"})]]
    BY <1>0, <2>3 DEF TypeOK
  <2>6. QED BY <1>0, <2>1, <2>2, <2>3, <2>4, <2>5 DEF TypeOK, Ends
<1>17. ASSUME NEW c \in Cmds, Finish(c) PROVE TypeOK'
  BY <1>0, <1>17 DEF Finish, TypeOK, Ends
<1>18. ASSUME NEW c \in Cmds, WaitTimesOut(c) PROVE TypeOK'
  BY <1>0, <1>18 DEF WaitTimesOut, TypeOK, Ends
<1>19. ASSUME NEW c \in Cmds, AwaitTimesOut(c) PROVE TypeOK'
  BY <1>0, <1>19 DEF AwaitTimesOut, TypeOK, Ends
<1>20. ASSUME NEW f \in Files, NEW s \in Slots, UserEdit(f, s) PROVE TypeOK'
  BY <1>0, <1>20 DEF UserEdit, TypeOK, Ends
<1>21. ASSUME NEW p \in Pids, Reuse(p) \/ ForeignEnds(p) PROVE TypeOK'
  BY <1>0, <1>21 DEF Reuse, ForeignEnds, TypeOK, Ends
<1>22. CASE UNCHANGED vars
  BY <1>0, <1>22 DEF vars, TypeOK, Ends
<1>23. QED BY <1>1, <1>2, <1>3, <1>4, <1>5, <1>6, <1>7, <1>8, <1>9, <1>10, <1>11, <1>12, <1>13, <1>14, <1>15, <1>16, <1>17, <1>18, <1>19, <1>20, <1>21, <1>22 DEF Next, DaemonStep, CmdStep

LEMMA AloneStep == IInv /\ [Next]_vars => Alone'
<1> SUFFICES ASSUME IInv, [Next]_vars PROVE Alone'
  OBVIOUS
<1> USE LifecycleAssumption
<1>0. TypeOK /\ Alone
  BY DEF IInv
<1>1. ASSUME NEW p \in Pids, OpenStore(p) PROVE Alone'
  BY <1>0, <1>1 DEF OpenStore, Alone, Running, Idle, Ends, TypeOK
<1>2. ASSUME NEW p \in Pids, WriteEndpoint(p) PROVE Alone'
  BY <1>0, <1>2 DEF WriteEndpoint, Alone, Running, Idle, Ends, TypeOK
<1>3. ASSUME NEW p \in Pids, WritePid(p) PROVE Alone'
  BY <1>0, <1>3 DEF WritePid, Alone, Running, Idle, Ends, TypeOK
<1>4. ASSUME NEW p \in Pids, Shutdown(p) PROVE Alone'
  BY <1>0, <1>4 DEF Shutdown, Alone, Running, Idle, Ends, TypeOK
<1>5. ASSUME NEW p \in Pids, RemoveEndpoint(p) PROVE Alone'
  BY <1>0, <1>5 DEF RemoveEndpoint, Alone, Running, Idle, Ends, TypeOK
<1>6. ASSUME NEW p \in Pids, RemovePid(p) PROVE Alone'
  BY <1>0, <1>6 DEF RemovePid, Alone, Running, Idle, Ends, TypeOK
<1>7. ASSUME NEW p \in Pids, Exit(p) PROVE Alone'
  BY <1>0, <1>7 DEF Exit, Alone, Running, Idle, Ends, TypeOK
<1>8. ASSUME NEW p \in Pids, Crash(p) PROVE Alone'
  BY <1>0, <1>8 DEF Crash, Alone, Running, Idle, Ends, TypeOK
<1>9. ASSUME NEW c \in Cmds, Begin(c) PROVE Alone'
  BY <1>0, <1>9 DEF Begin, Begins, Alone, Running, Idle, Ends, TypeOK
<1>10. ASSUME NEW c \in Cmds, Spawn(c) PROVE Alone'
  BY <1>0, <1>10 DEF Spawn, Alone, Running, Idle, Ends, TypeOK
<1>11. ASSUME NEW c \in Cmds, Healthy(c) PROVE Alone'
  BY <1>0, <1>11 DEF Healthy, Alone, Running, Idle, Ends, TypeOK
<1>12. ASSUME NEW c \in Cmds, Terminate(c) PROVE Alone'
  <2>1. pc[c] = "kill" /\ UNCHANGED overlap /\ \A d \in Cmds : d # c => pc'[d] = pc[d]
    BY <1>0, <1>12, TerminateDoes
  <2>2. \A d \in Cmds : Running(d)' => Running(d)
    BY <2>1 DEF Running, Ends
  <2>3. QED BY <1>0, <2>1, <2>2 DEF Alone
<1>13. ASSUME NEW c \in Cmds, Gone(c) PROVE Alone'
  BY <1>0, <1>13 DEF Gone, Alone, Running, Idle, Ends, TypeOK
<1>14. ASSUME NEW c \in Cmds, Remove(c) PROVE Alone'
  BY <1>0, <1>14 DEF Remove, Alone, Running, Idle, Ends, TypeOK
<1>15. ASSUME NEW c \in Cmds, ReadSettings(c) PROVE Alone'
  BY <1>0, <1>15 DEF ReadSettings, Alone, Running, Idle, Ends, TypeOK
<1>16. ASSUME NEW c \in Cmds, WriteSettings(c) PROVE Alone'
  BY <1>0, <1>16 DEF WriteSettings, Alone, Running, Idle, Ends, TypeOK
<1>17. ASSUME NEW c \in Cmds, Finish(c) PROVE Alone'
  BY <1>0, <1>17 DEF Finish, Alone, Running, Idle, Ends, TypeOK
<1>18. ASSUME NEW c \in Cmds, WaitTimesOut(c) PROVE Alone'
  BY <1>0, <1>18 DEF WaitTimesOut, Alone, Running, Idle, Ends, TypeOK
<1>19. ASSUME NEW c \in Cmds, AwaitTimesOut(c) PROVE Alone'
  BY <1>0, <1>19 DEF AwaitTimesOut, Alone, Running, Idle, Ends, TypeOK
<1>20. ASSUME NEW f \in Files, NEW s \in Slots, UserEdit(f, s) PROVE Alone'
  BY <1>0, <1>20 DEF UserEdit, Alone, Running, Idle, Ends, TypeOK
<1>21. ASSUME NEW p \in Pids, Reuse(p) \/ ForeignEnds(p) PROVE Alone'
  BY <1>0, <1>21 DEF Reuse, ForeignEnds, Alone, Running, Idle, Ends, TypeOK
<1>22. CASE UNCHANGED vars
  BY <1>0, <1>22 DEF vars, Alone, Running, Idle, Ends, TypeOK
<1>23. QED BY <1>1, <1>2, <1>3, <1>4, <1>5, <1>6, <1>7, <1>8, <1>9, <1>10, <1>11, <1>12, <1>13, <1>14, <1>15, <1>16, <1>17, <1>18, <1>19, <1>20, <1>21, <1>22 DEF Next, DaemonStep, CmdStep

LEMMA RestStep == IInv /\ [Next]_vars => \A e \in Cmds : Rest(e)'
<1> SUFFICES ASSUME IInv, [Next]_vars, NEW e \in Cmds PROVE Rest(e)'
  OBVIOUS
<1> USE LifecycleAssumption
<1>0. TypeOK /\ \A c \in Cmds : Rest(c)
  BY DEF IInv
<1>1. ASSUME NEW p \in Pids, OpenStore(p) PROVE Rest(e)'
  BY <1>0, <1>1 DEF OpenStore, Rest, EditsDone, TypeOK
<1>2. ASSUME NEW p \in Pids, WriteEndpoint(p) PROVE Rest(e)'
  BY <1>0, <1>2 DEF WriteEndpoint, Rest, EditsDone, TypeOK
<1>3. ASSUME NEW p \in Pids, WritePid(p) PROVE Rest(e)'
  BY <1>0, <1>3 DEF WritePid, Rest, EditsDone, TypeOK
<1>4. ASSUME NEW p \in Pids, Shutdown(p) PROVE Rest(e)'
  BY <1>0, <1>4 DEF Shutdown, Rest, EditsDone, TypeOK
<1>5. ASSUME NEW p \in Pids, RemoveEndpoint(p) PROVE Rest(e)'
  BY <1>0, <1>5 DEF RemoveEndpoint, Rest, EditsDone, TypeOK
<1>6. ASSUME NEW p \in Pids, RemovePid(p) PROVE Rest(e)'
  BY <1>0, <1>6 DEF RemovePid, Rest, EditsDone, TypeOK
<1>7. ASSUME NEW p \in Pids, Exit(p) PROVE Rest(e)'
  BY <1>0, <1>7 DEF Exit, Rest, EditsDone, TypeOK
<1>8. ASSUME NEW p \in Pids, Crash(p) PROVE Rest(e)'
  BY <1>0, <1>8 DEF Crash, Rest, EditsDone, TypeOK
<1>9. ASSUME NEW c \in Cmds, Begin(c) PROVE Rest(e)'
  BY <1>0, <1>9 DEF Begin, Begins, Rest, EditsDone, TypeOK
<1>10. ASSUME NEW c \in Cmds, Spawn(c) PROVE Rest(e)'
  BY <1>0, <1>10 DEF Spawn, Rest, EditsDone, TypeOK
<1>11. ASSUME NEW c \in Cmds, Healthy(c) PROVE Rest(e)'
  BY <1>0, <1>11 DEF Healthy, Rest, EditsDone, TypeOK
<1>12. ASSUME NEW c \in Cmds, Terminate(c) PROVE Rest(e)'
  BY <1>0, <1>12 DEF Terminate, Rest, EditsDone, TypeOK
<1>13. ASSUME NEW c \in Cmds, Gone(c) PROVE Rest(e)'
  BY <1>0, <1>13 DEF Gone, Rest, EditsDone, TypeOK
<1>14. ASSUME NEW c \in Cmds, Remove(c) PROVE Rest(e)'
  BY <1>0, <1>14 DEF Remove, Rest, EditsDone, TypeOK
<1>15. ASSUME NEW c \in Cmds, ReadSettings(c) PROVE Rest(e)'
  BY <1>0, <1>15 DEF ReadSettings, Rest, EditsDone, TypeOK
<1>16. ASSUME NEW c \in Cmds, WriteSettings(c) PROVE Rest(e)'
  <2>1. /\ todo[c] \in Seq(Files) /\ todo[c] # <<>> /\ pc[c] = "write" /\ pc' = [pc EXCEPT ![c] = "edit"]
        /\ todo' = [todo EXCEPT ![c] = Tail(todo[c])]
    BY <1>0, <1>16, WriteDoes
  <2>2. CASE e # c
    BY <1>0, <2>1, <2>2 DEF Rest, EditsDone, TypeOK
  <2>3. CASE e = c
    <3>1. todo'[c] = Tail(todo[c]) /\ pc'[c] = "edit"
      BY <1>0, <2>1 DEF TypeOK
    <3>2. /\ Len(todo'[c]) = Len(todo[c]) - 1 /\ Len(todo[c]) \in Nat \ {0}
          /\ \A i \in 1..Len(todo'[c]) : todo'[c][i] = todo[c][i + 1]
      <4>1. /\ Len(Tail(todo[c])) = Len(todo[c]) - 1 /\ Len(todo[c]) \in Nat \ {0}
            /\ \A i \in 1..Len(Tail(todo[c])) : Tail(todo[c])[i] = todo[c][i + 1]
        BY <2>1, TailOf
      <4>2. QED BY <3>1, <4>1
    <3>3. Len(Edits[c]) \in Nat
      OBVIOUS
    <3>4. EditsDone(c)' = EditsDone(c) + 1 /\ EditsDone(c) \in Nat
      <4>1. EditsDone(c) \in Nat
        BY <1>0 DEF Rest
      <4>2. EditsDone(c)' = Len(Edits[c]) - Len(todo'[c]) /\ EditsDone(c) = Len(Edits[c]) - Len(todo[c])
        BY DEF EditsDone
      <4>3. QED BY <4>1, <4>2, <3>2, <3>3
    <3>5. \A i \in 1..Len(todo'[c]) : todo'[c][i] = Edits[c][EditsDone(c)' + i]
      <4> SUFFICES ASSUME NEW i \in 1..Len(todo'[c]) PROVE todo'[c][i] = Edits[c][EditsDone(c)' + i]
        OBVIOUS
      <4>1. i + 1 \in 1..Len(todo[c])
        BY <3>2
      <4>2. todo[c][i + 1] = Edits[c][EditsDone(c) + (i + 1)]
        BY <1>0, <4>1 DEF Rest
      <4>3. EditsDone(c)' + i = EditsDone(c) + (i + 1)
        BY <3>4, <3>2
      <4>4. QED BY <3>2, <4>2, <4>3
    <3>6. EditsDone(c)' \in Nat
      BY <3>4
    <3>7. QED BY <2>3, <3>1, <3>5, <3>6 DEF Rest
  <2>4. QED BY <2>2, <2>3
<1>17. ASSUME NEW c \in Cmds, Finish(c) PROVE Rest(e)'
  BY <1>0, <1>17 DEF Finish, Rest, EditsDone, TypeOK
<1>18. ASSUME NEW c \in Cmds, WaitTimesOut(c) PROVE Rest(e)'
  BY <1>0, <1>18 DEF WaitTimesOut, Rest, EditsDone, TypeOK
<1>19. ASSUME NEW c \in Cmds, AwaitTimesOut(c) PROVE Rest(e)'
  BY <1>0, <1>19 DEF AwaitTimesOut, Rest, EditsDone, TypeOK
<1>20. ASSUME NEW f \in Files, NEW s \in Slots, UserEdit(f, s) PROVE Rest(e)'
  BY <1>0, <1>20 DEF UserEdit, Rest, EditsDone, TypeOK
<1>21. ASSUME NEW p \in Pids, Reuse(p) \/ ForeignEnds(p) PROVE Rest(e)'
  <2>1. UNCHANGED <<pc, todo>>
    BY <1>21 DEF Reuse, ForeignEnds
  <2>2. EditsDone(e)' = EditsDone(e) /\ Rest(e)
    BY <1>0, <2>1 DEF EditsDone
  <2>3. QED BY <2>1, <2>2 DEF Rest
<1>22. CASE UNCHANGED vars
  <2>1. UNCHANGED <<pc, todo>>
    BY <1>22 DEF vars
  <2>2. EditsDone(e)' = EditsDone(e) /\ Rest(e)
    BY <1>0, <2>1 DEF EditsDone
  <2>3. QED BY <2>1, <2>2 DEF Rest
<1>23. QED BY <1>1, <1>2, <1>3, <1>4, <1>5, <1>6, <1>7, <1>8, <1>9, <1>10, <1>11, <1>12, <1>13, <1>14, <1>15, <1>16, <1>17, <1>18, <1>19, <1>20, <1>21, <1>22 DEF Next, DaemonStep, CmdStep

LEMMA StandingStep == IInv /\ [Next]_vars => Standing'
<1> SUFFICES ASSUME IInv, [Next]_vars PROVE Standing'
  OBVIOUS
<1> USE LifecycleAssumption
<1>0. TypeOK /\ Alone /\ Standing /\ \A c \in Cmds : Rest(c)
  BY DEF IInv
<1>1. ASSUME NEW p \in Pids, OpenStore(p) PROVE Standing'
  BY <1>0, <1>1 DEF OpenStore, Standing, Editing, EditsDone, Right, TypeOK
<1>2. ASSUME NEW p \in Pids, WriteEndpoint(p) PROVE Standing'
  BY <1>0, <1>2 DEF WriteEndpoint, Standing, Editing, EditsDone, Right, TypeOK
<1>3. ASSUME NEW p \in Pids, WritePid(p) PROVE Standing'
  BY <1>0, <1>3 DEF WritePid, Standing, Editing, EditsDone, Right, TypeOK
<1>4. ASSUME NEW p \in Pids, Shutdown(p) PROVE Standing'
  BY <1>0, <1>4 DEF Shutdown, Standing, Editing, EditsDone, Right, TypeOK
<1>5. ASSUME NEW p \in Pids, RemoveEndpoint(p) PROVE Standing'
  BY <1>0, <1>5 DEF RemoveEndpoint, Standing, Editing, EditsDone, Right, TypeOK
<1>6. ASSUME NEW p \in Pids, RemovePid(p) PROVE Standing'
  BY <1>0, <1>6 DEF RemovePid, Standing, Editing, EditsDone, Right, TypeOK
<1>7. ASSUME NEW p \in Pids, Exit(p) PROVE Standing'
  BY <1>0, <1>7 DEF Exit, Standing, Editing, EditsDone, Right, TypeOK
<1>8. ASSUME NEW p \in Pids, Crash(p) PROVE Standing'
  BY <1>0, <1>8 DEF Crash, Standing, Editing, EditsDone, Right, TypeOK
<1>9. ASSUME NEW c \in Cmds, Begin(c) PROVE Standing'
  <2>1. ~Editing(c) /\ todo[c] = Edits[c] /\ UNCHANGED <<config, todo, last>>
    BY <1>0, <1>9 DEF Begin, Editing, Rest
  <2>2. EditsDone(c) = 0
    <3>1. Len(Edits[c]) \in Nat
      OBVIOUS
    <3>2. QED BY <2>1, <3>1 DEF EditsDone
  <2>3. \A d \in Cmds : d # c => pc'[d] = pc[d]
    BY <1>0, <1>9 DEF Begin, TypeOK
  <2>4. ~overlap' => ~overlap
    BY <1>9 DEF Begin
  <2>5. QED BY <1>0, <2>1, <2>2, <2>3, <2>4, StillStanding
<1>10. ASSUME NEW c \in Cmds, Spawn(c) PROVE Standing'
  <2>1. ~Editing(c) /\ todo[c] = Edits[c] /\ UNCHANGED <<config, todo, last, overlap>>
    BY <1>0, <1>10 DEF Spawn, Editing, Rest
  <2>2. EditsDone(c) = 0
    <3>1. Len(Edits[c]) \in Nat
      OBVIOUS
    <3>2. QED BY <2>1, <3>1 DEF EditsDone
  <2>3. \A d \in Cmds : d # c => pc'[d] = pc[d]
    BY <1>0, <1>10 DEF Spawn, TypeOK
  <2>4. QED BY <1>0, <2>1, <2>2, <2>3, StillStanding
<1>11. ASSUME NEW c \in Cmds, Healthy(c) PROVE Standing'
  <2>1. ~Editing(c) /\ todo[c] = Edits[c] /\ UNCHANGED <<config, todo, last>>
    BY <1>0, <1>11 DEF Healthy, Editing, Rest
  <2>2. EditsDone(c) = 0
    <3>1. Len(Edits[c]) \in Nat
      OBVIOUS
    <3>2. QED BY <2>1, <3>1 DEF EditsDone
  <2>3. \A d \in Cmds : d # c => pc'[d] = pc[d]
    BY <1>0, <1>11 DEF Healthy, TypeOK
  <2>4. ~overlap' => ~overlap
    BY <1>11 DEF Healthy
  <2>5. QED BY <1>0, <2>1, <2>2, <2>3, <2>4, StillStanding
<1>12. ASSUME NEW c \in Cmds, Terminate(c) PROVE Standing'
  <2>1. ~Editing(c) /\ todo[c] = Edits[c] /\ UNCHANGED <<config, todo, last>>
    BY <1>0, <1>12 DEF Terminate, Editing, Rest
  <2>2. EditsDone(c) = 0
    <3>1. Len(Edits[c]) \in Nat
      OBVIOUS
    <3>2. QED BY <2>1, <3>1 DEF EditsDone
  <2>3. \A d \in Cmds : d # c => pc'[d] = pc[d]
    BY <1>0, <1>12 DEF Terminate, TypeOK
  <2>4. ~overlap' => ~overlap
    BY <1>12 DEF Terminate
  <2>5. QED BY <1>0, <2>1, <2>2, <2>3, <2>4, StillStanding
<1>13. ASSUME NEW c \in Cmds, Gone(c) PROVE Standing'
  <2>1. ~Editing(c) /\ todo[c] = Edits[c] /\ UNCHANGED <<config, todo, last>>
    BY <1>0, <1>13 DEF Gone, Editing, Rest
  <2>2. EditsDone(c) = 0
    <3>1. Len(Edits[c]) \in Nat
      OBVIOUS
    <3>2. QED BY <2>1, <3>1 DEF EditsDone
  <2>3. \A d \in Cmds : d # c => pc'[d] = pc[d]
    BY <1>0, <1>13 DEF Gone, TypeOK
  <2>4. ~overlap' => ~overlap
    BY <1>13 DEF Gone
  <2>5. QED BY <1>0, <2>1, <2>2, <2>3, <2>4, StillStanding
<1>14. ASSUME NEW c \in Cmds, Remove(c) PROVE Standing'
  <2>1. /\ pc[c] = "remove" /\ Kind[c] = "purge" /\ Len(Edits[c]) = 0
        /\ last' = {c} /\ UNCHANGED <<config, todo, overlap>>
    BY <1>0, <1>14 DEF Remove, Rest
  <2>2. \A d \in Cmds : Editing(d)' => Editing(d)
    BY <1>0, <1>14 DEF Remove, Editing, TypeOK
  <2>3. \A d \in Cmds : \A f : Right(d, f)' <=> Right(d, f)
    BY <2>1 DEF Right
  <2>4. \A d \in Cmds : EditsDone(d)' = EditsDone(d)
    BY <2>1 DEF EditsDone
  <2> HIDE DEF Right, EditsDone, Editing
  <2>5. QED BY <1>0, <2>1, <2>2, <2>3, <2>4 DEF Standing
<1>15. ASSUME NEW c \in Cmds, ReadSettings(c) PROVE Standing'
  BY <1>0, <1>15 DEF ReadSettings, Standing, Editing, EditsDone, Right, TypeOK
<1>16. ASSUME NEW c \in Cmds, WriteSettings(c) PROVE Standing'
  <2> SUFFICES ASSUME ~overlap' PROVE Standing'
    BY DEF Standing
  <2>0. PICK f \in Files : f = Head(todo[c])
    <3>1. todo[c] \in Seq(Files) /\ todo[c] # <<>>
      BY <1>0, <1>16, WriteDoes
    <3>2. QED BY <3>1, TailOf
  <2>1. /\ pc[c] = "write" /\ todo[c] \in Seq(Files) /\ todo[c] # <<>> /\ f \in Files
        /\ pc' = [pc EXCEPT ![c] = "edit"] /\ todo' = [todo EXCEPT ![c] = Tail(todo[c])]
        /\ config'[f] = Rewritten(c, f)
        /\ \A g \in Files : g # f => config'[g] = config[g]
        /\ UNCHANGED <<overlap, last>>
    BY <1>0, <1>16, <2>0, WriteDoes
  <2>2. \A d \in Cmds : Editing(d) => d = c
    BY <1>0, <2>1 DEF Alone, Running, Editing, Ends
  <2>3. Editing(c)' /\ \A d \in Cmds : Editing(d)' => d = c
    BY <1>0, <2>1, <2>2 DEF Editing, TypeOK
  <2>4. Right(c, f)'
    <3>1. \A s \in Slots : Rewritten(c, f)[s] \cap Ours =
                   IF Kind[c] \in {"up", "install"} /\ s \in Installs(c, f) THEN {Handler(c, f)} ELSE {}
      BY <1>0, RewrittenSlots
    <3>2. QED BY <2>1, <3>1 DEF Right
  <2>5. /\ EditsDone(c) \in Nat /\ EditsDone(c)' = EditsDone(c) + 1
        /\ EditsDone(c) + 1 <= Len(Edits[c]) /\ f = Edits[c][EditsDone(c) + 1]
    <3>1. todo'[c] = Tail(todo[c])
      BY <1>0, <2>1 DEF TypeOK
    <3>2. Len(todo'[c]) = Len(todo[c]) - 1 /\ Len(todo[c]) \in Nat \ {0} /\ f = todo[c][1]
      <4>1. Len(Tail(todo[c])) = Len(todo[c]) - 1 /\ Len(todo[c]) \in Nat \ {0} /\ f = todo[c][1]
        BY <2>0, <2>1, TailOf
      <4>2. QED BY <3>1, <4>1
    <3>3. Len(Edits[c]) \in Nat
      OBVIOUS
    <3>4. EditsDone(c) \in Nat
      BY <1>0 DEF Rest
    <3>5. todo[c][1] = Edits[c][EditsDone(c) + 1]
      <4>1. 1 \in 1..Len(todo[c])
        BY <3>2
      <4>2. QED BY <1>0, <4>1 DEF Rest
    <3>6. EditsDone(c)' = Len(Edits[c]) - Len(todo'[c]) /\ EditsDone(c) = Len(Edits[c]) - Len(todo[c])
      BY DEF EditsDone
    <3>7. QED BY <3>2, <3>3, <3>4, <3>5, <3>6
  <2>6. \A i \in 1..EditsDone(c) : Right(c, Edits[c][i])
    BY <1>0, <2>1 DEF Standing, Editing
  <2>7. \A i \in 1..EditsDone(c)' : Right(c, Edits[c][i])'
    <3> SUFFICES ASSUME NEW i \in 1..EditsDone(c)' PROVE Right(c, Edits[c][i])'
      OBVIOUS
    <3>1. CASE Edits[c][i] = f
      BY <2>4, <3>1 DEF Right
    <3>2. CASE Edits[c][i] # f
      <4>1. i \in 1..EditsDone(c)
        BY <2>5, <3>2
      <4>2. i \in 1..Len(Edits[c])
        <5>1. Len(Edits[c]) \in Nat
          OBVIOUS
        <5>2. QED BY <2>5, <4>1, <5>1
      <4>3. Edits[c][i] \in Files
        BY <4>2
      <4>4. config'[Edits[c][i]] = config[Edits[c][i]]
        BY <2>1, <3>2, <4>3
      <4>5. Right(c, Edits[c][i])
        BY <2>6, <4>1
      <4>6. QED BY <4>4, <4>5 DEF Right
    <3>3. QED BY <3>1, <3>2
  <2>8. QED BY <2>3, <2>7 DEF Standing
<1>17. ASSUME NEW c \in Cmds, Finish(c) PROVE Standing'
  <2>1. /\ Editing(c) /\ todo[c] = <<>> /\ last' = {c} /\ UNCHANGED <<config, todo, overlap>>
    BY <1>17 DEF Finish, Editing
  <2>2. \A d \in Cmds : Editing(d)' => Editing(d)
    BY <1>0, <1>17 DEF Finish, Editing, TypeOK
  <2>3. \A d \in Cmds : \A f : Right(d, f)' <=> Right(d, f)
    BY <2>1 DEF Right
  <2>4. (\A d \in Cmds : EditsDone(d)' = EditsDone(d)) /\ EditsDone(c) = Len(Edits[c])
    BY <2>1 DEF EditsDone
  <2> HIDE DEF Right, EditsDone, Editing
  <2> SUFFICES ASSUME ~overlap
               PROVE  /\ \A d \in Cmds : Editing(d)' =>
                           \A i \in 1..EditsDone(d)' : Right(d, Edits[d][i])'
                      /\ \A d \in last' : \A i \in 1..Len(Edits[d]) : Right(d, Edits[d][i])'
    BY <2>1 DEF Standing
  <2>5. \A d \in Cmds : Editing(d) => \A i \in 1..EditsDone(d) : Right(d, Edits[d][i])
    BY <1>0 DEF Standing
  <2>6. ASSUME NEW d \in Cmds, Editing(d)', NEW i \in 1..EditsDone(d)'
        PROVE  Right(d, Edits[d][i])'
    <3>1. i \in 1..EditsDone(d) /\ Editing(d)
      BY <2>2, <2>4, <2>6
    <3>2. Right(d, Edits[d][i])
      BY <2>5, <3>1
    <3>3. QED BY <2>3, <3>2
  <2>7. ASSUME NEW d \in last', NEW i \in 1..Len(Edits[d])
        PROVE  Right(d, Edits[d][i])'
    <3>1. d = c /\ i \in 1..EditsDone(c)
      BY <2>1, <2>4
    <3>2. Right(c, Edits[c][i])
      BY <2>1, <2>5, <3>1
    <3>3. QED BY <2>3, <3>1, <3>2
  <2>8. QED BY <2>6, <2>7
<1>18. ASSUME NEW c \in Cmds, WaitTimesOut(c) PROVE Standing'
  BY <1>0, <1>18 DEF WaitTimesOut, Standing, Editing, EditsDone, Right, TypeOK
<1>19. ASSUME NEW c \in Cmds, AwaitTimesOut(c) PROVE Standing'
  <2>1. ~Editing(c) /\ todo[c] = Edits[c] /\ UNCHANGED <<config, todo, last>>
    BY <1>0, <1>19 DEF AwaitTimesOut, Editing, Rest
  <2>2. EditsDone(c) = 0
    <3>1. Len(Edits[c]) \in Nat
      OBVIOUS
    <3>2. QED BY <2>1, <3>1 DEF EditsDone
  <2>3. \A d \in Cmds : d # c => pc'[d] = pc[d]
    BY <1>0, <1>19 DEF AwaitTimesOut, TypeOK
  <2>4. ~overlap' => ~overlap
    BY <1>19 DEF AwaitTimesOut
  <2>5. QED BY <1>0, <2>1, <2>2, <2>3, <2>4, StillStanding
<1>20. ASSUME NEW f \in Files, NEW s \in Slots, UserEdit(f, s) PROVE Standing'
  <2>1. /\ UNCHANGED <<pc, todo, last, overlap>>
        /\ config' = [config EXCEPT ![f][s] = config[f][s] \cup {"user"}]
    BY <1>20 DEF UserEdit
  <2>2. \A g \in Files, t \in Slots : config'[g][t] \cap Ours = config[g][t] \cap Ours
    BY <1>0, <2>1 DEF TypeOK, Ours
  <2>3. \A d \in Cmds, g \in Files : Right(d, g)' <=> Right(d, g)
    BY <2>2 DEF Right
  <2>4. \A d \in Cmds : EditsDone(d)' = EditsDone(d) /\ (Editing(d)' <=> Editing(d))
    BY <2>1 DEF EditsDone, Editing
  <2>5. \A d \in Cmds : /\ \A i \in 1..Len(Edits[d]) : Edits[d][i] \in Files
                       /\ \A i \in 1..EditsDone(d) : i \in 1..Len(Edits[d])
    <3> SUFFICES ASSUME NEW d \in Cmds
                 PROVE  /\ \A i \in 1..Len(Edits[d]) : Edits[d][i] \in Files
                        /\ \A i \in 1..EditsDone(d) : i \in 1..Len(Edits[d])
      OBVIOUS
    <3>1. Edits[d] \in Seq(Files) /\ todo[d] \in Seq(Files)
      BY <1>0 DEF TypeOK
    <3>2. Len(Edits[d]) \in Nat /\ Len(todo[d]) \in Nat
      BY <3>1
    <3>3. QED BY <3>1, <3>2 DEF EditsDone
  <2> HIDE DEF Right, EditsDone, Editing
  <2>6. last \subseteq Cmds
    BY <1>0 DEF TypeOK
  <2>7. QED BY <1>0, <2>1, <2>3, <2>4, <2>5, <2>6 DEF Standing
<1>21. ASSUME NEW p \in Pids, Reuse(p) \/ ForeignEnds(p) PROVE Standing'
  BY <1>0, <1>21 DEF Reuse, ForeignEnds, Standing, Editing, EditsDone, Right, TypeOK
<1>22. CASE UNCHANGED vars
  BY <1>0, <1>22 DEF vars, Standing, Editing, EditsDone, Right, TypeOK
<1>23. QED BY <1>1, <1>2, <1>3, <1>4, <1>5, <1>6, <1>7, <1>8, <1>9, <1>10, <1>11, <1>12, <1>13, <1>14, <1>15, <1>16, <1>17, <1>18, <1>19, <1>20, <1>21, <1>22 DEF Next, DaemonStep, CmdStep

LEMMA SparedStep == IInv /\ [Next]_vars => Spared'
<1> SUFFICES ASSUME IInv, [Next]_vars PROVE Spared'
  OBVIOUS
<1> USE LifecycleAssumption
<1>0. TypeOK /\ Spared
  BY DEF IInv
<1>1. ASSUME NEW p \in Pids, OpenStore(p) PROVE Spared'
  BY <1>0, <1>1 DEF OpenStore, Spared, TypeOK
<1>2. ASSUME NEW p \in Pids, WriteEndpoint(p) PROVE Spared'
  BY <1>0, <1>2 DEF WriteEndpoint, Spared, TypeOK
<1>3. ASSUME NEW p \in Pids, WritePid(p) PROVE Spared'
  BY <1>0, <1>3 DEF WritePid, Spared, TypeOK
<1>4. ASSUME NEW p \in Pids, Shutdown(p) PROVE Spared'
  BY <1>0, <1>4 DEF Shutdown, Spared, TypeOK
<1>5. ASSUME NEW p \in Pids, RemoveEndpoint(p) PROVE Spared'
  BY <1>0, <1>5 DEF RemoveEndpoint, Spared, TypeOK
<1>6. ASSUME NEW p \in Pids, RemovePid(p) PROVE Spared'
  BY <1>0, <1>6 DEF RemovePid, Spared, TypeOK
<1>7. ASSUME NEW p \in Pids, Exit(p) PROVE Spared'
  BY <1>0, <1>7 DEF Exit, Spared, TypeOK
<1>8. ASSUME NEW p \in Pids, Crash(p) PROVE Spared'
  BY <1>0, <1>8 DEF Crash, Spared, TypeOK
<1>9. ASSUME NEW c \in Cmds, Begin(c) PROVE Spared'
  BY <1>0, <1>9 DEF Begin, Begins, Spared, TypeOK
<1>10. ASSUME NEW c \in Cmds, Spawn(c) PROVE Spared'
  BY <1>0, <1>10 DEF Spawn, Spared, TypeOK
<1>11. ASSUME NEW c \in Cmds, Healthy(c) PROVE Spared'
  BY <1>0, <1>11 DEF Healthy, Spared, TypeOK
<1>12. ASSUME NEW c \in Cmds, Terminate(c) PROVE Spared'
  BY <1>0, <1>12 DEF Terminate, Spared, TypeOK
<1>13. ASSUME NEW c \in Cmds, Gone(c) PROVE Spared'
  BY <1>0, <1>13 DEF Gone, Spared, TypeOK
<1>14. ASSUME NEW c \in Cmds, Remove(c) PROVE Spared'
  BY <1>0, <1>14 DEF Remove, Spared, TypeOK
<1>15. ASSUME NEW c \in Cmds, ReadSettings(c) PROVE Spared'
  BY <1>0, <1>15 DEF ReadSettings, Spared, TypeOK
<1>16. ASSUME NEW c \in Cmds, WriteSettings(c) PROVE Spared'
  <2> DEFINE h == Head(todo[c])
  <2>1. /\ pc[c] = "write" /\ h \in Files
        /\ pc' = [pc EXCEPT ![c] = "edit"] /\ todo' = [todo EXCEPT ![c] = Tail(todo[c])]
        /\ read' = [read EXCEPT ![c] = Nothing]
        /\ config'[h] = Rewritten(c, h)
        /\ \A g \in Files : g # h => config'[g] = config[g]
        /\ UNCHANGED theirs
    BY <1>0, <1>16, WriteDoes
  <2>2. \A s \in Slots : "user" \in read[c][s] => "user" \in Rewritten(c, h)[s]
    BY <1>0, RewrittenSlots
  <2>3. \A d \in Cmds : pc'[d] = "write" => d # c /\ pc[d] = "write" /\ todo'[d] = todo[d] /\ read'[d] = read[d]
    BY <1>0, <2>1 DEF TypeOK
  <2>4. \A f \in Files, s \in Slots : <<f, s>> \in theirs => "user" \in config'[f][s]
    <3> SUFFICES ASSUME NEW f \in Files, NEW s \in Slots, <<f, s>> \in theirs PROVE "user" \in config'[f][s]
      OBVIOUS
    <3>1. CASE f = h
      <4>1. "user" \in read[c][s]
        BY <1>0, <2>1, <3>1 DEF Spared
      <4>2. QED BY <2>1, <2>2, <3>1, <4>1
    <3>2. CASE f # h
      BY <1>0, <2>1, <3>2 DEF Spared
    <3>3. QED BY <3>1, <3>2
  <2>5. QED BY <1>0, <2>1, <2>3, <2>4 DEF Spared
<1>17. ASSUME NEW c \in Cmds, Finish(c) PROVE Spared'
  BY <1>0, <1>17 DEF Finish, Spared, TypeOK
<1>18. ASSUME NEW c \in Cmds, WaitTimesOut(c) PROVE Spared'
  BY <1>0, <1>18 DEF WaitTimesOut, Spared, TypeOK
<1>19. ASSUME NEW c \in Cmds, AwaitTimesOut(c) PROVE Spared'
  BY <1>0, <1>19 DEF AwaitTimesOut, Spared, TypeOK
<1>20. ASSUME NEW f \in Files, NEW s \in Slots, UserEdit(f, s) PROVE Spared'
  BY <1>0, <1>20 DEF UserEdit, Spared, TypeOK
<1>21. ASSUME NEW p \in Pids, Reuse(p) \/ ForeignEnds(p) PROVE Spared'
  BY <1>0, <1>21 DEF Reuse, ForeignEnds, Spared, TypeOK
<1>22. CASE UNCHANGED vars
  BY <1>0, <1>22 DEF vars, Spared, TypeOK
<1>23. QED BY <1>1, <1>2, <1>3, <1>4, <1>5, <1>6, <1>7, <1>8, <1>9, <1>10, <1>11, <1>12, <1>13, <1>14, <1>15, <1>16, <1>17, <1>18, <1>19, <1>20, <1>21, <1>22 DEF Next, DaemonStep, CmdStep

-------------------------------------------------------------------------------
THEOREM InvHolds == Spec => []IInv
<1>1. IInv /\ [Next]_vars => IInv'
  BY TypeStep, AloneStep, RestStep, StandingStep, SparedStep DEF IInv
<1>2. QED BY InitOK, <1>1, PTL DEF Spec

(* Every variable keeps its type, and a command writes only a file it has read. *)
THEOREM TypeCorrect == Spec => []TypeOK
<1>1. IInv => TypeOK
  BY DEF IInv
<1>2. QED BY InvHolds, <1>1, PTL

(* The handlers of ours are those of the last command, once and in its mode, and *)
(* a user's survive every rewriting, for any commands and config files.          *)
THEOREM HandlersAreRight == Spec => []HandlersRight
<1>1. IInv => HandlersFollow
  <2> SUFFICES ASSUME IInv, ~overlap, Idle, NEW c \in last, NEW f \in Files,
                      NEW i \in DOMAIN Edits[c], Edits[c][i] = f
               PROVE  Right(c, f)
    BY DEF HandlersFollow, Right
  <2>1. \A d \in Cmds : ~Editing(d)
    BY DEF Idle, Running, Editing, Ends
  <2>2. i \in 1..Len(Edits[c])
    BY LifecycleAssumption DEF IInv, TypeOK
  <2>3. QED BY <2>1, <2>2 DEF IInv, Standing
<1>2. IInv => \A p \in theirs : "user" \in config[p[1]][p[2]]
  <2> SUFFICES ASSUME IInv, NEW p \in theirs PROVE "user" \in config[p[1]][p[2]]
    OBVIOUS
  <2>1. PICK f \in Files, s \in Slots : p = <<f, s>>
    BY DEF IInv, TypeOK
  <2>2. QED BY <2>1 DEF IInv, Spared
<1>3. IInv => HandlersRight
  BY <1>1, <1>2 DEF HandlersRight
<1>4. QED BY InvHolds, <1>3, PTL

-------------------------------------------------------------------------------
(* What the commands find and leave, while they come one after the other.      *)
(*                                                                             *)
(* Busy are the processes that may still write to the files.  There is one at  *)
(* most; it starts only while its `up` waits, it ends only while a `down`      *)
(* waits, and from its PID file on both files name it.                         *)
Busy(d) ==
  daemon[d] \in {"spawned", "opened", "listening", "serving", "stopping", "shut", "unlinked"}

Quiet == \A d \in Pids : ~Busy(d)

Named == pidfile \in Pids /\ daemon[pidfile] = "serving"

(* The last command was an `up` that was not misled. *)
UpSaid == \E c \in last \ misled : Kind[c] = "up"

Home ==
  /\ \A d, e \in Pids : Busy(d) /\ Busy(e) => d = e
  /\ \A d \in Pids :
       /\ daemon[d] \in {"serving", "stopping", "shut", "unlinked"} => pidfile = d
       /\ daemon[d] \in {"listening", "serving", "stopping"} => endpoint = d
       /\ Starting(d) \/ Serves(d) => dataDir
       /\ Starting(d) => \E c \in Cmds : pc[c] = "wait"
       /\ daemon[d] \in {"stopping", "shut", "unlinked"} => \E c \in Cmds : pc[c] = "await"
       /\ pidfile = d => daemon[d] \in {"serving", "stopping", "shut", "unlinked", "gone"}

(* What a command has seen to on its way. *)
Phase(c) ==
  /\ pc[c] = "spawn" => Kind[c] = "up" /\ Quiet /\ dataDir
  /\ pc[c] = "wait" => Kind[c] = "up"
  /\ pc[c] = "kill" => Kind[c] = "down" /\ target[c] = pidfile /\ (Named \/ (Quiet /\ ~UpSaid))
  /\ pc[c] = "await" => Kind[c] = "down"
  /\ pc[c] = "remove" => Kind[c] = "purge" /\ Quiet
  /\ Editing(c) => (Kind[c] = "up" => Named \/ c \in misled) /\ (Kind[c] = "down" => Quiet)

LastSaid == Idle => (UpSaid => Named) /\ (Just("down") => Quiet)

Orderly == Home /\ (\A c \in Cmds : Phase(c)) /\ LastSaid /\ ~bare

OrderlyInv == Calm => Orderly

LEMMA PidsAreNumbers == Pids \subseteq Nat /\ 0 \notin Pids
BY DEF Pids

LEMMA OrderlyInit == Init => OrderlyInv
<1> SUFFICES ASSUME Init PROVE Orderly
  BY DEF OrderlyInv
<1>1. (\A d \in Pids : daemon[d] = "none") /\ pidfile = 0 /\ last = {} /\ bare = FALSE
      /\ \A c \in Cmds : pc[c] = "new"
  BY DEF Init
<1>2. Home
  BY <1>1, PidsAreNumbers DEF Home, Busy, Starting, Serves
<1>3. QED BY <1>1, <1>2 DEF Orderly, Phase, Editing, LastSaid, UpSaid, Just

(* A step of a daemon, as the commands see it. *)
LEMMA DaemonsAside ==
  ASSUME Orderly, Home', UNCHANGED <<pc, target, last, misled, bare>>,
         Quiet => Quiet' /\ pidfile' = pidfile, dataDir => dataDir', Named => Named' /\ pidfile' = pidfile
  PROVE  Orderly'
<1>1. \A c \in Cmds : Phase(c)'
  BY DEF Orderly, Phase, Editing, UpSaid
<1>2. LastSaid'
  BY DEF Orderly, LastSaid, Idle, Running, UpSaid, Just
<1>3. QED BY <1>1, <1>2 DEF Orderly

(* A step of a command, while no other runs. *)
LEMMA CommandAlone ==
  ASSUME Orderly, Home', NEW c \in Cmds, Phase(c)', LastSaid', bare' = bare,
         \A b \in Cmds : b # c => ~Running(b) /\ pc'[b] = pc[b]
  PROVE  Orderly'
<1>1. \A b \in Cmds : b # c => Phase(b)'
  BY DEF Phase, Editing, Running, Ends
<1>2. QED BY <1>1 DEF Orderly

LEMMA DaemonOrderly ==
  ASSUME TypeOK, Orderly, NEW d \in Pids, DaemonStep(d)
  PROVE  Orderly'
<1> USE PidsAreNumbers
<1>1. /\ UNCHANGED <<pc, target, last, misled, bare>> /\ Home
      /\ daemon[d] \in {"spawned", "opened", "listening", "stopping", "shut", "unlinked", "closing"}
  BY DEF DaemonStep, OpenStore, WriteEndpoint, WritePid, Shutdown, RemoveEndpoint, RemovePid, Exit,
         Orderly
<1>2. \A e \in Pids : e # d => daemon'[e] = daemon[e]
  BY DEF DaemonStep, OpenStore, WriteEndpoint, WritePid, Shutdown, RemoveEndpoint, RemovePid, Exit,
         TypeOK
<1>3. CASE daemon[d] = "closing"
  <2>1. daemon'[d] = "gone" /\ UNCHANGED <<endpoint, pidfile, dataDir>>
    BY <1>3 DEF DaemonStep, OpenStore, WriteEndpoint, WritePid, Shutdown, RemoveEndpoint,
                RemovePid, Exit, TypeOK
  <2>2. \A e \in Pids : Busy(e)' <=> Busy(e)
    BY <1>2, <1>3, <2>1 DEF Busy
  <2>3. Home'
    BY <1>1, <1>2, <1>3, <2>1, <2>2 DEF Home, Starting, Serves
  <2>4. (Quiet => Quiet') /\ (Named => Named')
    BY <1>2, <1>3, <2>1, <2>2 DEF Quiet, Named
  <2>5. QED BY <1>1, <2>1, <2>3, <2>4, DaemonsAside
<1>4. CASE daemon[d] # "closing"
  <2>1. Busy(d) /\ ~Quiet /\ \A e \in Pids : e # d => ~Busy(e) /\ ~Busy(e)'
    BY <1>1, <1>2, <1>4 DEF Busy, Quiet, Home
  <2>2. ~Named
    BY <1>1, <2>1 DEF Named, Busy
  <2>3. ASSUME Busy(d)' \/ daemon'[d] \in {"closing", "gone"},
               daemon'[d] \in {"serving", "stopping", "shut", "unlinked"} => pidfile' = d,
               daemon'[d] \in {"listening", "serving", "stopping"} => endpoint' = d,
               Starting(d)' \/ Serves(d)' => dataDir',
               Starting(d)' => Starting(d),
               daemon'[d] \in {"stopping", "shut", "unlinked"} => daemon[d] \in {"stopping", "shut"},
               pidfile' = pidfile \/ pidfile' \in {0, d},
               pidfile' = d => daemon'[d] \in {"serving", "stopping", "shut", "unlinked", "gone"},
               dataDir => dataDir'
        PROVE  Orderly'
    <3>1. \A e \in Pids : e # d => daemon'[e] = daemon[e] /\ ~Busy(e)'
      BY <1>2, <2>1
    <3>2. Starting(d)' => \E c \in Cmds : pc'[c] = "wait"
      BY <1>1, <2>3 DEF Home
    <3>3. daemon'[d] \in {"stopping", "shut", "unlinked"} => \E c \in Cmds : pc'[c] = "await"
      BY <1>1, <2>3 DEF Home
    <3>4. \A e \in Pids : e # d /\ pidfile' = e =>
             daemon'[e] \in {"serving", "stopping", "shut", "unlinked", "gone"}
      BY <1>1, <2>3, <3>1 DEF Home
    <3>5. Home'
      BY <2>3, <3>1, <3>2, <3>3, <3>4 DEF Home, Busy, Starting, Serves
    <3>6. QED BY <1>1, <2>1, <2>2, <2>3, <3>5, DaemonsAside
  <2>4. CASE OpenStore(d)
    <3>1. daemon[d] = "spawned" /\ dataDir /\ UNCHANGED <<endpoint, pidfile, dataDir>>
      BY <1>1, <2>4 DEF OpenStore, Home, Starting
    <3>2. daemon'[d] = "opened"
      BY <2>4, <3>1 DEF OpenStore, TypeOK
    <3>3. pidfile # d
      BY <1>1, <3>1 DEF Home
    <3>4. QED BY <2>3, <3>1, <3>2, <3>3 DEF Busy, Starting, Serves
  <2>5. CASE WriteEndpoint(d)
    <3>1. daemon[d] = "opened" /\ dataDir /\ dataDir' /\ endpoint' = d /\ pidfile' = pidfile
      BY <1>1, <2>5 DEF WriteEndpoint, Home, Starting
    <3>2. daemon'[d] = "listening"
      BY <2>5, <3>1 DEF WriteEndpoint, TypeOK
    <3>3. pidfile # d
      BY <1>1, <3>1 DEF Home
    <3>4. QED BY <2>3, <3>1, <3>2, <3>3 DEF Busy, Starting, Serves
  <2>6. CASE WritePid(d)
    <3>1. daemon[d] = "listening" /\ dataDir /\ endpoint = d
      BY <1>1, <2>6 DEF WritePid, Home, Starting
    <3>2. pidfile' = d /\ UNCHANGED <<endpoint, dataDir>>
      BY <2>6, <3>1 DEF WritePid
    <3>3. daemon'[d] = "serving"
      BY <2>6 DEF WritePid, TypeOK
    <3>4. QED BY <2>3, <3>1, <3>2, <3>3 DEF Busy, Starting, Serves
  <2>7. CASE Shutdown(d) \/ RemoveEndpoint(d)
    <3>1. /\ daemon[d] \in {"stopping", "shut"} /\ pidfile = d
          /\ UNCHANGED <<pidfile, dataDir>>
      BY <1>1, <2>7 DEF Shutdown, RemoveEndpoint, Home
    <3>2. daemon'[d] \in {"shut", "unlinked"}
      BY <2>7 DEF Shutdown, RemoveEndpoint, TypeOK
    <3>3. QED BY <2>3, <3>1, <3>2 DEF Busy, Starting, Serves
  <2>8. CASE RemovePid(d)
    <3>1. daemon'[d] = "closing" /\ pidfile' = 0 /\ UNCHANGED dataDir
      BY <2>8 DEF RemovePid, TypeOK
    <3>2. QED BY <2>3, <3>1 DEF Starting, Serves
  <2>9. CASE Exit(d)
    <3>1. daemon'[d] = "gone" /\ UNCHANGED <<pidfile, dataDir>>
      BY <2>9 DEF Exit, TypeOK
    <3>2. QED BY <2>3, <3>1 DEF Starting, Serves
  <2>10. QED BY <2>4, <2>5, <2>6, <2>7, <2>8, <2>9 DEF DaemonStep
<1>5. QED BY <1>3, <1>4

(* A daemon that dies while no command runs. *)
LEMMA CrashOrderly ==
  ASSUME TypeOK, Orderly, Idle, NEW d \in Pids, Crash(d)
  PROVE  Orderly'
<1>1. /\ UNCHANGED <<pc, target, bare, endpoint, pidfile, dataDir>> /\ last' = {} /\ Home
      /\ daemon'[d] = "gone" /\ \A e \in Pids : e # d => daemon'[e] = daemon[e]
  BY DEF Crash, Orderly, TypeOK
<1>2. \A e \in Pids : Busy(e)' => Busy(e)
  BY <1>1 DEF Busy
<1>3. Home'
  BY <1>1, <1>2 DEF Home, Starting, Serves
<1>4. \A c \in Cmds : Phase(c)'
  BY <1>1 DEF Phase, Editing, Idle, Running, Ends
<1>5. QED BY <1>1, <1>3, <1>4 DEF Orderly, LastSaid, UpSaid, Just

LEMMA BeginOrderly ==
  ASSUME TypeOK, Orderly, Idle, NEW c \in Cmds, Begin(c)
  PROVE  Orderly'
<1> USE PidsAreNumbers
<1>1. /\ pc[c] = "new" /\ pc'[c] = Begins[Kind[c]] /\ \A b \in Cmds : b # c => pc'[b] = pc[b]
      /\ UNCHANGED <<daemon, endpoint, pidfile, last, bare>> /\ dataDir' = (dataDir \/ Kind[c] = "up")
      /\ Kind[c] = "down" => target'[c] = pidfile
      /\ misled' = IF Kind[c] = "up" /\ pidfile \in foreign THEN misled \cup {c} ELSE misled
  BY DEF Begin, TypeOK
<1>2. \A b \in Cmds : ~Running(b) /\ pc[b] \notin {"wait", "await"}
  BY DEF Idle, Running, Ends
<1>3. \A d \in Pids : daemon[d] \in {"none", "serving", "closing", "gone"}
  BY <1>2 DEF Orderly, Home, Starting, TypeOK
<1>4. DaemonAlive => Named \/ (Quiet /\ pidfile \in foreign)
  <2>1. CASE Exists(pidfile)
    BY <1>3, <2>1 DEF Exists, Named, Orderly, Home, TypeOK
  <2>2. CASE pidfile \in foreign
    <3>1. pidfile \in Pids /\ daemon[pidfile] = "gone"
      BY <2>2 DEF TypeOK
    <3>2. Quiet
      BY <1>3, <3>1 DEF Quiet, Busy, Orderly, Home
    <3>3. QED BY <2>2, <3>2
  <2>3. QED BY <2>1, <2>2 DEF DaemonAlive, ProcessAlive
<1>5. ~DaemonAlive => Quiet
  BY <1>3 DEF DaemonAlive, ProcessAlive, Exists, Quiet, Busy, Orderly, Home
<1>6. Home'
  BY <1>1, <1>2, <1>3 DEF Orderly, Home, Busy, Starting, Serves
<1>7. (Quiet' <=> Quiet) /\ (Named' <=> Named)
  BY <1>1 DEF Quiet, Named, Busy
<1>8. /\ Kind[c] = "up" => pc'[c] = IF DaemonAlive THEN "edit" ELSE "spawn"
      /\ Kind[c] = "down" => pc'[c] = IF DaemonAlive THEN "kill" ELSE "edit"
      /\ Kind[c] = "purge" => pc'[c] = IF DaemonAlive THEN "failed" ELSE "remove"
      /\ Kind[c] \in {"install", "uninstall"} => pc'[c] = "edit"
      /\ Kind[c] \in {"up", "down", "purge", "install", "uninstall"}
  BY <1>1, LifecycleAssumption DEF Begins
<1>9. (UpSaid' => UpSaid) /\ (UpSaid => Named) /\ ~(Named /\ Quiet)
  BY <1>1 DEF Orderly, LastSaid, UpSaid, Named, Quiet, Busy
<1>10. Phase(c)'
  <2>1. pc'[c] = "kill" => Kind[c] = "down" /\ target'[c] = pidfile' /\ (Named' \/ (Quiet' /\ ~UpSaid'))
    BY <1>1, <1>4, <1>7, <1>8, <1>9
  <2>2. pc'[c] = "edit" /\ Kind[c] = "up" => Named' \/ c \in misled'
    BY <1>1, <1>4, <1>7, <1>8
  <2>3. QED BY <1>1, <1>5, <1>7, <1>8, <2>1, <2>2 DEF Phase, Editing
<1>11. LastSaid'
  BY <1>1, <1>7, <1>9 DEF Orderly, LastSaid, Just
<1>12. QED BY <1>1, <1>2, <1>6, <1>10, <1>11, CommandAlone

LEMMA CommandOrderly ==
  ASSUME TypeOK, Alone, ~overlap, Orderly, NEW c \in Cmds, Rest(c),
         CmdStep(c) \/ (AwaitTimesOut(c) /\ ~Exists(pidfile))
  PROVE  Orderly'
<1> USE PidsAreNumbers
<1>1. Running(c) /\ bare \in BOOLEAN
  BY DEF CmdStep, Spawn, Healthy, Terminate, Gone, Remove, ReadSettings, WriteSettings, Finish,
         AwaitTimesOut, Running, Ends, TypeOK
<1>2. \A b \in Cmds : b # c => ~Running(b) /\ pc[b] \notin {"wait", "await"}
  BY <1>1 DEF Alone, Running, Ends
<1>3. \A b \in Cmds : b # c => pc'[b] = pc[b]
  BY DEF CmdStep, Spawn, Healthy, Terminate, Gone, Remove, ReadSettings, WriteSettings, Finish,
         AwaitTimesOut, TypeOK
<1>4. Home /\ Phase(c)
  BY DEF Orderly
<1>5. ASSUME Home', Phase(c)', Running(c)', bare' = bare PROVE Orderly'
  <2>1. LastSaid'
    BY <1>5 DEF LastSaid, Idle
  <2>2. QED BY <1>2, <1>3, <1>5, <2>1, CommandAlone
<1>6. CASE Spawn(c)
  <2>1. PICK d \in Pids : daemon[d] = "none" /\ daemon' = [daemon EXCEPT ![d] = "spawned"]
    BY <1>6 DEF Spawn
  <2>2. /\ pc[c] = "spawn" /\ pc'[c] = "wait" /\ UNCHANGED <<endpoint, pidfile, dataDir, bare>>
        /\ Quiet /\ dataDir /\ Kind[c] = "up"
    BY <1>4, <1>6 DEF Spawn, Phase, TypeOK
  <2>3. daemon'[d] = "spawned" /\ \A e \in Pids : e # d => daemon'[e] = daemon[e]
    BY <2>1 DEF TypeOK
  <2>4. \A e \in Pids : ~Busy(e)
    BY <2>2 DEF Quiet
  <2>5. pidfile # d
    BY <1>4, <2>1 DEF Home
  <2>6. Home'
    BY <1>4, <2>2, <2>3, <2>4, <2>5 DEF Home, Busy, Starting, Serves
  <2>7. QED BY <1>5, <2>2, <2>6 DEF Phase, Editing, Running, Ends
<1>7. CASE Healthy(c)
  <2>1. /\ pc[c] = "wait" /\ pc'[c] = "edit" /\ Serves(endpoint) /\ Kind[c] = "up"
        /\ UNCHANGED <<daemon, endpoint, pidfile, dataDir, bare>>
    BY <1>4, <1>7 DEF Healthy, Phase, TypeOK
  <2>2. endpoint \in Pids /\ Busy(endpoint)
    BY <2>1 DEF Serves, Busy, TypeOK
  <2>3. \A d \in Pids : daemon[d] \notin {"stopping", "shut", "unlinked"}
    BY <1>2, <1>4, <2>1 DEF Home
  <2>4. daemon[endpoint] = "serving" /\ pidfile = endpoint /\ Named
    BY <1>4, <2>1, <2>2, <2>3 DEF Serves, Home, Named
  <2>5. \A d \in Pids : ~Starting(d)
    BY <1>4, <2>2, <2>4 DEF Home, Busy, Starting
  <2>6. Home'
    BY <1>4, <2>1, <2>3, <2>5 DEF Home, Busy, Starting, Serves
  <2>7. Named'
    BY <2>1, <2>4 DEF Named
  <2>8. QED BY <1>5, <2>1, <2>6, <2>7 DEF Phase, Editing, Running, Ends
<1>8. CASE Terminate(c)
  <2>1. /\ pc[c] = "kill" /\ Kind[c] = "down" /\ target[c] = pidfile /\ (Named \/ (Quiet /\ ~UpSaid))
        /\ UNCHANGED <<endpoint, pidfile, dataDir, last, misled, bare>>
    BY <1>4, <1>8 DEF Terminate, Phase
  <2>2. CASE Named
    <3>1. /\ pc[c] = "kill" /\ Kind[c] = "down" /\ target[c] = pidfile /\ Exists(pidfile)
          /\ UNCHANGED <<endpoint, pidfile, dataDir, bare>>
      BY <1>4, <1>8, <2>2 DEF Terminate, Phase, Named, Exists
    <3>2. pc'[c] = "await" /\ daemon' = [daemon EXCEPT ![pidfile] = "stopping"]
      BY <1>8, <2>2, <3>1 DEF Terminate, ProcessAlive, Named, TypeOK
    <3>3. daemon'[pidfile] = "stopping" /\ \A e \in Pids : e # pidfile => daemon'[e] = daemon[e]
      BY <2>2, <3>2 DEF Named, TypeOK
    <3>4. pidfile \in Pids /\ \A e \in Pids : e # pidfile => ~Busy(e)
      BY <1>4, <2>2 DEF Home, Named, Busy
    <3>5. endpoint = pidfile /\ dataDir
      BY <1>4, <2>2 DEF Home, Named, Serves
    <3>6. Home'
      BY <1>4, <3>1, <3>2, <3>3, <3>4, <3>5 DEF Home, Busy, Starting, Serves
    <3>7. QED BY <1>5, <2>1, <3>1, <3>2, <3>6 DEF Phase, Editing, Running, Ends
  <2>3. CASE ~Named
    <3>1. Quiet /\ ~UpSaid
      BY <2>1, <2>3
    <3>2. daemon' = daemon
      <4>1. daemon' = daemon \/ daemon' = [daemon EXCEPT ![pidfile] = IF @ = "serving" THEN "stopping" ELSE @]
        BY <1>8, <2>1, TerminateDoes
      <4>2. daemon \in [Pids -> {"none", "spawned", "opened", "listening", "serving",
                              "stopping", "shut", "unlinked", "closing", "gone"}]
        BY DEF TypeOK
      <4>3. pidfile \in Pids => daemon[pidfile] # "serving"
        BY <2>3 DEF Named
      <4>4. CASE pidfile \in Pids
        BY <4>1, <4>2, <4>3, <4>4
      <4>5. CASE pidfile \notin Pids
        <5>1. ~ProcessAlive(target[c])
          BY <2>1, <4>5, PidsAreNumbers DEF ProcessAlive, Exists, TypeOK
        <5>2. QED BY <1>8, <5>1 DEF Terminate
      <4>6. QED BY <4>4, <4>5
    <3>3. pc'[c] \in {"await", "failed"}
      BY <1>8 DEF Terminate, TypeOK
    <3>4. Home'
      BY <1>4, <2>1, <3>1, <3>2, <3>3 DEF Home, Quiet, Busy, Starting, Serves
    <3>5. Quiet' /\ ~UpSaid'
      BY <2>1, <3>1, <3>2 DEF Quiet, Busy, UpSaid
    <3>6. Phase(c)'
      BY <2>1, <3>3 DEF Phase, Editing
    <3>7. LastSaid'
      BY <3>5 DEF LastSaid
    <3>8. QED BY <1>2, <1>3, <2>1, <3>4, <3>6, <3>7, CommandAlone
  <2>4. QED BY <2>2, <2>3
<1>9. CASE Gone(c) \/ (AwaitTimesOut(c) /\ ~Exists(pidfile))
  <2>1. /\ pc[c] = "await" /\ pc'[c] = "edit" /\ Kind[c] = "down" /\ ~Exists(pidfile)
        /\ UNCHANGED <<daemon, endpoint, pidfile, dataDir, bare>>
    BY <1>4, <1>9 DEF Gone, AwaitTimesOut, Phase, DaemonAlive, ProcessAlive, TypeOK
  <2>2. \A d \in Pids : ~Starting(d)
    BY <1>2, <1>4, <2>1 DEF Home
  <2>3. Quiet
    BY <1>4, <2>1, <2>2 DEF Home, Quiet, Busy, Starting, Exists
  <2>4. Home'
    BY <1>4, <2>1, <2>2, <2>3 DEF Home, Busy, Starting, Serves, Quiet
  <2>5. Quiet'
    BY <2>1, <2>3 DEF Quiet, Busy
  <2>6. QED BY <1>5, <2>1, <2>4, <2>5 DEF Phase, Editing, Running, Ends
<1>10. CASE Remove(c)
  <2>1. /\ pc[c] = "remove" /\ pc'[c] = "done" /\ Kind[c] = "purge" /\ Quiet
        /\ UNCHANGED daemon /\ pidfile' = 0 /\ last' = {c}
    BY <1>4, <1>10 DEF Remove, Phase, TypeOK
  <2>2. \A d \in Pids : ~Busy(d) /\ ~Starting(d) /\ ~Serves(d)
    BY <2>1 DEF Quiet, Busy, Starting, Serves
  <2>3. bare' = bare
    BY <1>1, <1>10, <2>2 DEF Remove
  <2>4. Home'
    BY <1>4, <2>1, <2>2 DEF Home, Busy, Starting, Serves
  <2>5. LastSaid'
    BY <2>1 DEF LastSaid, UpSaid, Just
  <2>6. Phase(c)'
    BY <2>1 DEF Phase, Editing
  <2>7. QED BY <1>2, <1>3, <2>3, <2>4, <2>5, <2>6, CommandAlone
<1>11. CASE ReadSettings(c) \/ WriteSettings(c) \/ Finish(c)
  <2>1. /\ Editing(c) /\ UNCHANGED <<daemon, endpoint, pidfile, dataDir, misled, bare>>
        /\ pc'[c] \in {"edit", "write", "done"}
        /\ pc'[c] = "done" => last' = {c}
    BY <1>11 DEF ReadSettings, WriteSettings, Finish, Editing, TypeOK
  <2>2. \A d \in Pids : ~Starting(d) /\ daemon[d] \notin {"stopping", "shut", "unlinked"}
    BY <1>2, <1>4, <2>1 DEF Home, Editing
  <2>3. Home'
    BY <1>4, <2>1, <2>2 DEF Home, Busy, Starting, Serves
  <2>4. (Quiet' <=> Quiet) /\ (Named' <=> Named)
    BY <2>1 DEF Quiet, Named, Busy
  <2>5. (Kind[c] = "up" => Named' \/ c \in misled') /\ (Kind[c] = "down" => Quiet')
    BY <1>4, <2>1, <2>4 DEF Phase
  <2>6. Phase(c)'
    BY <2>1, <2>5 DEF Phase, Editing
  <2>7. LastSaid'
    <3>1. CASE pc'[c] = "done"
      BY <2>1, <2>5, <3>1 DEF LastSaid, UpSaid, Just
    <3>2. CASE pc'[c] # "done"
      BY <2>1, <3>2 DEF LastSaid, Idle, Running, Ends
    <3>3. QED BY <3>1, <3>2
  <2>8. QED BY <1>2, <1>3, <2>1, <2>3, <2>6, <2>7, CommandAlone
<1>12. QED BY <1>6, <1>7, <1>8, <1>9, <1>10, <1>11 DEF CmdStep

LEMMA OrderlyStep == ASSUME IInv, OrderlyInv, [Next]_vars PROVE OrderlyInv'
<1> SUFFICES ASSUME Calm' PROVE Orderly'
  BY DEF OrderlyInv
<1>0. TypeOK /\ Alone /\ \A c \in Cmds : Rest(c)
  BY DEF IInv
<1>1. (overlap => overlap') /\ (hurried => hurried')
  <2>1. ASSUME UNCHANGED <<overlap, hurried>> PROVE (overlap => overlap') /\ (hurried => hurried')
    BY <2>1
  <2>2. ASSUME NEW d \in Pids, DaemonStep(d)
        PROVE  UNCHANGED <<overlap, hurried>>
    BY <2>2 DEF DaemonStep, OpenStore, WriteEndpoint, WritePid, Shutdown, RemoveEndpoint, RemovePid,
                Exit
  <2>3. ASSUME NEW c \in Cmds, CmdStep(c)
        PROVE  UNCHANGED <<overlap, hurried>>
    BY <2>3 DEF CmdStep, Spawn, Healthy, Terminate, Gone, Remove, ReadSettings, WriteSettings, Finish
  <2>4. ASSUME NEW d \in Pids, Crash(d)
        PROVE  (overlap => overlap') /\ (hurried => hurried')
    BY <2>4 DEF Crash
  <2>5. ASSUME NEW c \in Cmds, Begin(c) \/ WaitTimesOut(c) \/ AwaitTimesOut(c)
        PROVE  (overlap => overlap') /\ (hurried => hurried')
    <3>1. CASE Begin(c)
      BY <3>1 DEF Begin
    <3>2. CASE WaitTimesOut(c)
      BY <3>2 DEF WaitTimesOut
    <3>3. CASE AwaitTimesOut(c)
      BY <3>3 DEF AwaitTimesOut
    <3>4. QED BY <2>5, <3>1, <3>2, <3>3
  <2>6. ASSUME NEW f \in Files, NEW s \in Slots, UserEdit(f, s)
        PROVE  UNCHANGED <<overlap, hurried>>
    BY <2>6 DEF UserEdit
  <2>7. ASSUME NEW d \in Pids, Reuse(d) \/ ForeignEnds(d)
        PROVE  UNCHANGED <<overlap, hurried>>
    BY <2>7 DEF Reuse, ForeignEnds
  <2>8. CASE UNCHANGED vars
    BY <2>8 DEF vars
  <2>9. QED BY <2>1, <2>2, <2>3, <2>4, <2>5, <2>6, <2>7, <2>8 DEF Next
<1>2. ~overlap /\ Orderly
  BY <1>1 DEF Calm, OrderlyInv
<1>3. ASSUME NEW d \in Pids, DaemonStep(d) PROVE Orderly'
  BY <1>0, <1>2, <1>3, DaemonOrderly
<1>4. ASSUME NEW d \in Pids, Crash(d) PROVE Orderly'
  <2>1. Idle
    BY <1>4 DEF Crash, Calm
  <2>2. QED BY <1>0, <1>2, <1>4, <2>1, CrashOrderly
<1>5. ASSUME NEW c \in Cmds, Begin(c) PROVE Orderly'
  <2>1. Idle
    BY <1>5 DEF Begin, Calm
  <2>2. QED BY <1>0, <1>2, <1>5, <2>1, BeginOrderly
<1>6. ASSUME NEW c \in Cmds, CmdStep(c) PROVE Orderly'
  BY <1>0, <1>2, <1>6, CommandOrderly
<1>7. ASSUME NEW c \in Cmds, WaitTimesOut(c) \/ AwaitTimesOut(c) PROVE Orderly'
  <2>1. AwaitTimesOut(c) /\ ~Exists(pidfile)
    BY <1>7 DEF WaitTimesOut, AwaitTimesOut, Calm
  <2>2. QED BY <1>0, <1>2, <2>1, CommandOrderly
<1>8. ASSUME UNCHANGED <<pc, target, daemon, endpoint, pidfile, dataDir, last, misled, bare>>
      PROVE  Orderly'
  BY <1>2, <1>8
  DEF Orderly, Home, Phase, Editing, LastSaid, UpSaid, Just, Idle, Running, Quiet, Named, Busy, Starting,
      Serves
<1>9. ASSUME NEW f \in Files, NEW s \in Slots, UserEdit(f, s) PROVE Orderly'
  BY <1>8, <1>9 DEF UserEdit
<1>10. ASSUME NEW d \in Pids, Reuse(d) \/ ForeignEnds(d) PROVE Orderly'
  BY <1>8, <1>10 DEF Reuse, ForeignEnds
<1>11. CASE UNCHANGED vars
  BY <1>8, <1>11 DEF vars
<1>12. QED BY <1>3, <1>4, <1>5, <1>6, <1>7, <1>9, <1>10, <1>11 DEF Next

LEMMA OrderlyHolds == Spec => []OrderlyInv
BY InvHolds, OrderlyInit, OrderlyStep, PTL DEF Spec

(* What `up` and `down` report is so when they end, for any number of commands    *)
(* that come one after the other, crashes of the daemon between them and PIDs     *)
(* that go to other processes, but for an `up` that takes one of these for it.    *)
THEOREM ReportsAreTrue == Spec => []SaidIsSo
<1>1. IInv /\ OrderlyInv => SaidIsSo
  <2> SUFFICES ASSUME IInv, OrderlyInv, Calm, Idle
               PROVE  /\ \A c \in last \ misled :
                           Kind[c] = "up" => endpoint = pidfile /\ Serves(pidfile) /\ dataDir
                      /\ Just("down") => \A d \in Pids : ~Starting(d) /\ ~Serves(d)
    BY DEF SaidIsSo
  <2>1. Home /\ (UpSaid => Named) /\ (Just("down") => Quiet)
    BY DEF OrderlyInv, Orderly, LastSaid
  <2>2. Named => endpoint = pidfile /\ Serves(pidfile) /\ dataDir
    BY <2>1, PidsAreNumbers DEF Named, Home, Serves
  <2>3. Quiet => \A d \in Pids : ~Starting(d) /\ ~Serves(d)
    BY DEF Quiet, Busy, Starting, Serves
  <2>4. QED BY <2>1, <2>2, <2>3 DEF UpSaid
<1>2. QED BY <1>1, InvHolds, OrderlyHolds, PTL

(* Commands that come one after the other start no second daemon over a database  *)
(* and take it from under none.                                                   *)
THEOREM OneDaemonPerHome == Spec => []OneHome
<1>1. OrderlyInv => OneHome
  BY DEF OrderlyInv, Orderly, Home, OneHome, Busy, Starting, Serves
<1>2. QED BY <1>1, OrderlyHolds, PTL
===============================================================================

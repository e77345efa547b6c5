------------------------------- MODULE Lifecycle -------------------------------
(***************************************************************************)
(* The commands that start and stop the daemon and wire it into the agents *)
(* (cli/lifecycle.go, cli/install_bridge.go), and the daemon process they  *)
(* find by its PID file and its endpoint file (agent/daemon.go,            *)
(* agent/endpoint.go).  Commands are processes of their own: nothing locks *)
(* one out while another runs.                                             *)
(*                                                                         *)
(* A daemon is the number of its process, counted from 1; 0 is a file that *)
(* is not there.  After it is gone, its PID may go to a process that is no *)
(* daemon of ours, and be free again later.                                *)
(*                                                                         *)
(* A config file of an agent maps slots (hook events, the server table of  *)
(* an MCP file) to the handlers in them.                                   *)
(***************************************************************************)
EXTENDS Naturals, Sequences, FiniteSets

CONSTANTS
  Cmds,        \* commands, each run once
  Kind,        \* what each of them is
  MemoryOnly,  \* commands with --memory-only
  Edits,       \* the config files a command edits, in order, by its flags
  HookFiles,   \* settings.json, hooks.json: a slot per hook event
  McpFiles,    \* .claude.json, config.toml: a slot for servers
  Xdg,         \* is the endpoint file outside of the data directory
  UserSlots,   \* slots the user adds a handler to
  MaxFaults,   \* bound: crashes
  MaxRunning   \* bound: commands at the same time

Files == HookFiles \cup McpFiles
Slots == {"SessionStart", "Stop", "server"}  \* Stop stands for the capturing hook events
Pids == 1..Cardinality({c \in Cmds : Kind[c] = "up"})

ASSUME LifecycleAssumption ==
  /\ IsFiniteSet(Cmds)
  /\ Kind \in [Cmds -> {"up", "down", "purge", "install", "uninstall"}]
  /\ MemoryOnly \subseteq Cmds
  /\ Edits \in [Cmds -> Seq(Files)]
  /\ \A c \in Cmds : Kind[c] = "purge" => Edits[c] = <<>>
  /\ HookFiles \cap McpFiles = {}
  /\ Xdg \in BOOLEAN
  /\ UserSlots \subseteq Slots
  /\ {MaxFaults, MaxRunning} \subseteq Nat

VARIABLES
  pc,        \* where each command is, or how it ended
  target,    \* the process a `down` found
  todo,      \* the config files a command has still to edit
  read,      \* what it has read of the first of them
  daemon,    \* the state of each process
  foreign,   \* daemons that are gone and whose PID another process has
  endpoint,  \* the daemon the endpoint file names
  pidfile,   \* the daemon the PID file names
  dataDir,   \* is ~/.resleeve there
  config,    \* the config files
  faults,
  last,      \* history: the command that ended last, {} after a crash
  overlap,   \* history: two commands ran at the same time
  hurried,   \* history: a command gave up waiting for a daemon, or one crashed under it
  misled,    \* history: each `up` that took another process for the daemon
  bare,      \* history: a running daemon lost its data directory
  theirs     \* history: slots the user edited while no command was rewriting them

cmds == <<pc, target, todo, read>>
files == <<endpoint, pidfile, dataDir>>
history == <<last, overlap, hurried, misled, bare, theirs>>
vars == <<cmds, daemon, foreign, files, config, faults, history>>

Ours == {"capture", "memory"}
Nothing == [s \in Slots |-> {}]

Init ==
  /\ pc = [c \in Cmds |-> "new"]
  /\ target = [c \in Cmds |-> 0]
  /\ todo = Edits
  /\ read = [c \in Cmds |-> Nothing]
  /\ daemon = [d \in Pids |-> "none"]
  /\ foreign = {}
  /\ endpoint = 0 /\ pidfile = 0
  /\ dataDir = FALSE
  /\ config = [f \in Files |-> Nothing]
  /\ faults = 0
  /\ last = {}
  /\ overlap = FALSE /\ hurried = FALSE /\ misled = {} /\ bare = FALSE
  /\ theirs = {}

Ends == {"done", "failed"}
Goto(c, s) == pc' = [pc EXCEPT ![c] = s]
Running(c) == pc[c] \notin Ends \cup {"new"}
Idle == \A c \in Cmds : ~Running(c)

Exists(d) == d # 0 /\ daemon[d] \notin {"none", "gone"}

(* Its listener accepts: Serve runs until Shutdown is called.               *)
Serves(d) == d # 0 /\ daemon[d] \in {"serving", "stopping"}
Starting(d) == daemon[d] \in {"spawned", "opened", "listening"}

(* processAlive: signal 0 finds any process of the user that has the PID.   *)
ProcessAlive(d) == Exists(d) \/ d \in foreign

DaemonAlive == ProcessAlive(pidfile)

-------------------------------------------------------------------------------
(* The daemon: New, Serve *)

OpenStore(d) ==
  /\ daemon[d] = "spawned"
  /\ daemon' = [daemon EXCEPT ![d] = IF dataDir THEN "opened" ELSE "gone"]
  /\ UNCHANGED <<cmds, foreign, files, config, faults, history>>

WriteEndpoint(d) ==
  /\ daemon[d] = "opened"
  /\ endpoint' = d
  /\ dataDir' = (dataDir \/ ~Xdg)      \* MkdirAll of the file's directory
  /\ daemon' = [daemon EXCEPT ![d] = "listening"]
  /\ UNCHANGED <<cmds, foreign, pidfile, config, faults, history>>

(* The PID file, then Serve: a call that came earlier has waited in the     *)
(* listener's queue.  A write that fails is ignored.                        *)
WritePid(d) ==
  /\ daemon[d] = "listening"
  /\ pidfile' = IF dataDir THEN d ELSE pidfile
  /\ daemon' = [daemon EXCEPT ![d] = "serving"]
  /\ UNCHANGED <<cmds, foreign, endpoint, dataDir, config, faults, history>>

(* sync.Stop, which takes up to three seconds, then server.Shutdown.        *)
Shutdown(d) ==
  /\ daemon[d] = "stopping"
  /\ daemon' = [daemon EXCEPT ![d] = "shut"]
  /\ UNCHANGED <<cmds, foreign, files, config, faults, history>>

(* Mutant: the endpoint file is removed once more at the very end.          *)
RemoveEndpointTwice(d) ==
  /\ daemon[d] \in {"shut", "closing"}
  /\ endpoint' = 0
  /\ daemon' = [daemon EXCEPT ![d] = IF @ = "shut" THEN "unlinked" ELSE "gone"]
  /\ UNCHANGED <<cmds, foreign, pidfile, dataDir, config, faults, history>>

RemoveEndpoint(d) ==
  /\ daemon[d] = "shut"
  /\ endpoint' = 0
  /\ daemon' = [daemon EXCEPT ![d] = "unlinked"]
  /\ UNCHANGED <<cmds, foreign, pidfile, dataDir, config, faults, history>>

(* Both files are removed by name, whoever wrote them last.                 *)
RemovePid(d) ==
  /\ daemon[d] = "unlinked"
  /\ pidfile' = 0
  /\ daemon' = [daemon EXCEPT ![d] = "closing"]
  /\ UNCHANGED <<cmds, foreign, endpoint, dataDir, config, faults, history>>

(* Serve has returned as soon as Shutdown was called: the process ends      *)
(* whether or not the shutdown goroutine is through.                        *)
Exit(d) ==
  /\ daemon[d] \in {"shut", "unlinked", "closing"}
  /\ daemon' = [daemon EXCEPT ![d] = "gone"]
  /\ UNCHANGED <<cmds, foreign, files, config, faults, history>>

Crash(d) ==
  /\ Exists(d)
  /\ faults < MaxFaults
  /\ faults' = faults + 1
  /\ daemon' = [daemon EXCEPT ![d] = "gone"]
  /\ last' = {}
  /\ hurried' = (hurried \/ ~Idle)
  /\ UNCHANGED <<cmds, foreign, files, config, overlap, misled, bare, theirs>>

(* The kernel gives the PID of a daemon that is gone to another process of   *)
(* the user, as after a reboot.  A PID that no file and no `down` names is   *)
(* looked at by nobody.                                                      *)
Reuse(d) ==
  /\ daemon[d] = "gone" /\ d \notin foreign
  /\ d = pidfile \/ \E c \in Cmds : d = target[c]
  /\ foreign' = foreign \cup {d}
  /\ UNCHANGED <<cmds, daemon, files, config, faults, history>>

(* ... which ends, by a SIGTERM of `down` or by itself.                      *)
ForeignEnds(d) ==
  /\ d \in foreign
  /\ foreign' = foreign \ {d}
  /\ UNCHANGED <<cmds, daemon, files, config, faults, history>>

-------------------------------------------------------------------------------
(* resleeve up, down, purge, install-bridge *)

(* Mutant: `purge` asks for the confirmation only, daemon or not.           *)
BeginsBlindly == [up |-> IF DaemonAlive THEN "edit" ELSE "spawn",
                  down |-> IF DaemonAlive THEN "kill" ELSE "edit",
                  purge |-> "remove", install |-> "edit", uninstall |-> "edit"]

(* daemonAlive is what the first three begin with; `up` has made the data   *)
(* directory before.                                                        *)
Begins == [up |-> IF DaemonAlive THEN "edit" ELSE "spawn",
           down |-> IF DaemonAlive THEN "kill" ELSE "edit",
           purge |-> IF DaemonAlive THEN "failed" ELSE "remove",
           install |-> "edit", uninstall |-> "edit"]

Begin(c) ==
  /\ pc[c] = "new"
  /\ Cardinality({b \in Cmds : Running(b)}) < MaxRunning
  /\ Goto(c, Begins[Kind[c]])
  /\ target' = [target EXCEPT ![c] = IF Kind[c] = "down" THEN pidfile ELSE 0]
  /\ dataDir' = (dataDir \/ Kind[c] = "up")
  /\ overlap' = (overlap \/ ~Idle)
  /\ misled' = IF Kind[c] = "up" /\ pidfile \in foreign THEN misled \cup {c} ELSE misled
  /\ UNCHANGED <<todo, read, daemon, foreign, endpoint, pidfile, config, faults, last, hurried,
                 bare, theirs>>

Spawn(c) ==
  /\ pc[c] = "spawn"
  /\ \E d \in Pids :
       /\ daemon[d] = "none" /\ \A e \in Pids : e < d => daemon[e] # "none"
       /\ daemon' = [daemon EXCEPT ![d] = "spawned"]
  /\ Goto(c, "wait")
  /\ UNCHANGED <<target, todo, read, foreign, files, config, faults, history>>

(* waitForDaemon: /v1/health at the address the endpoint file has by then.  *)
Healthy(c) ==
  /\ pc[c] = "wait"
  /\ Serves(endpoint)
  /\ Goto(c, "edit")
  /\ UNCHANGED <<target, todo, read, daemon, foreign, files, config, faults, history>>

(* ... for five seconds; the process that was spawned is left alone.        *)
WaitTimesOut(c) ==
  /\ pc[c] = "wait"
  /\ Goto(c, "failed")
  /\ hurried' = TRUE
  /\ UNCHANGED <<target, todo, read, daemon, foreign, files, config, faults, last, overlap, misled,
                 bare, theirs>>

(* SIGTERM cancels the daemon's context, or asks another process that has   *)
(* its PID to end; the signal finds no process when that has just ended.    *)
Terminate(c) ==
  /\ pc[c] = "kill"
  /\ \/ /\ ProcessAlive(target[c])
        /\ daemon' = [daemon EXCEPT ![target[c]] = IF @ = "serving" THEN "stopping" ELSE @]
        /\ Goto(c, "await")
     \/ /\ ~ProcessAlive(target[c])
        /\ Goto(c, "failed")
        /\ UNCHANGED daemon
  /\ target' = [target EXCEPT ![c] = 0]
  /\ UNCHANGED <<todo, read, foreign, files, config, faults, history>>

Gone(c) ==
  /\ pc[c] = "await"
  /\ ~DaemonAlive
  /\ Goto(c, "edit")
  /\ UNCHANGED <<target, todo, read, daemon, foreign, files, config, faults, history>>

(* After thirty looks, a tenth of a second apart, `down` goes on all the    *)
(* same and says that the daemon is stopped.                                *)
AwaitTimesOut(c) ==
  /\ pc[c] = "await"
  /\ DaemonAlive
  /\ Goto(c, "edit")
  /\ hurried' = (hurried \/ Exists(pidfile))
  /\ UNCHANGED <<target, todo, read, daemon, foreign, files, config, faults, last, overlap, misled,
                 bare, theirs>>

(* RemoveAll of the data directory, after the user has typed `purge`.       *)
Remove(c) ==
  /\ pc[c] = "remove"
  /\ dataDir' = FALSE
  /\ pidfile' = 0
  /\ endpoint' = IF Xdg THEN endpoint ELSE 0
  /\ bare' = (bare \/ \E d \in Pids : Starting(d) \/ Serves(d))
  /\ Goto(c, "done")
  /\ last' = {c}
  /\ UNCHANGED <<target, todo, read, daemon, foreign, config, faults, overlap, hurried, misled,
                 theirs>>

-------------------------------------------------------------------------------
(* InstallBridge, UninstallBridge, InstallMCP, UninstallMCP: the file is read *)
(* and parsed, and a rewritten copy is renamed over it.  The copy is written  *)
(* and renamed at once here: two rewritings that overlap share one file.tmp   *)
(* in the code (install.go:297-303), so that the rename of one may bring the  *)
(* other's copy, and the other's rename then fails.                           *)

ReadSettings(c) ==
  /\ pc[c] = "edit"
  /\ todo[c] # <<>>
  /\ read' = [read EXCEPT ![c] = config[Head(todo[c])]]
  /\ Goto(c, "write")
  /\ UNCHANGED <<target, todo, daemon, foreign, files, config, faults, history>>

StripResleeve(slot) == slot \ Ours

Handler(c, f) == IF c \in MemoryOnly /\ f \in HookFiles THEN "memory" ELSE "capture"

(* With --memory-only the other events lose what an earlier install left.   *)
Installs(c, f) ==
  IF f \in McpFiles THEN {"server"}
  ELSE {"SessionStart"} \cup (IF c \in MemoryOnly THEN {} ELSE {"Stop"})

(* Mutant: an event with a handler of ours is deleted on uninstall.         *)
RewrittenWhole(c, f) ==
  [s \in Slots |->
     IF Kind[c] \in {"up", "install"} /\ s \in Installs(c, f)
     THEN StripResleeve(read[c][s]) \cup {Handler(c, f)}
     ELSE IF read[c][s] \cap Ours = {} THEN read[c][s] ELSE {}]

Rewritten(c, f) ==
  [s \in Slots |->
     IF Kind[c] \in {"up", "install"} /\ s \in Installs(c, f)
     THEN StripResleeve(read[c][s]) \cup {Handler(c, f)}
     ELSE StripResleeve(read[c][s])]

WriteSettings(c) ==
  /\ pc[c] = "write"
  /\ config' = [config EXCEPT ![Head(todo[c])] = Rewritten(c, Head(todo[c]))]
  /\ todo' = [todo EXCEPT ![c] = Tail(@)]
  /\ read' = [read EXCEPT ![c] = Nothing]
  /\ Goto(c, "edit")
  /\ UNCHANGED <<target, daemon, foreign, files, faults, history>>

Finish(c) ==
  /\ pc[c] = "edit"
  /\ todo[c] = <<>>
  /\ Goto(c, "done")
  /\ last' = {c}
  /\ UNCHANGED <<target, todo, read, daemon, foreign, files, config, faults, overlap, hurried, misled,
                 bare, theirs>>

(* The user, or the agent itself, adds a handler of theirs.                 *)
UserEdit(f, s) ==
  /\ s \in UserSlots
  /\ (s = "server") = (f \in McpFiles)
  /\ "user" \notin config[f][s]
  /\ config' = [config EXCEPT ![f][s] = @ \cup {"user"}]
  /\ theirs' = IF \E c \in Cmds : pc[c] = "write" /\ Head(todo[c]) = f
               THEN theirs ELSE theirs \cup {<<f, s>>}
  /\ UNCHANGED <<cmds, daemon, foreign, files, faults, last, overlap, hurried, misled, bare>>

-------------------------------------------------------------------------------
DaemonStep(d) ==
  \/ OpenStore(d) \/ WriteEndpoint(d) \/ WritePid(d)
  \/ Shutdown(d) \/ RemoveEndpoint(d) \/ RemovePid(d) \/ Exit(d)

CmdStep(c) ==
  \/ Spawn(c) \/ Healthy(c) \/ Terminate(c) \/ Gone(c) \/ Remove(c)
  \/ ReadSettings(c) \/ WriteSettings(c) \/ Finish(c)

Next ==
  \/ \E d \in Pids : DaemonStep(d) \/ Crash(d) \/ Reuse(d) \/ ForeignEnds(d)
  \/ \E c \in Cmds : Begin(c) \/ CmdStep(c) \/ WaitTimesOut(c) \/ AwaitTimesOut(c)
  \/ \E f \in Files, s \in Slots : UserEdit(f, s)

Spec == Init /\ [][Next]_vars

-------------------------------------------------------------------------------
(* Properties *)

(* The types of the variables.                                                *)
TypeOK ==
  /\ pc \in [Cmds -> Ends \cup {"new", "spawn", "wait", "kill", "await", "edit", "write", "remove"}]
  /\ target \in [Cmds -> Pids \cup {0}]
  /\ todo \in [Cmds -> Seq(Files)]
  /\ \A c \in Cmds : pc[c] = "write" => todo[c] # <<>>
  /\ read \in [Cmds -> [Slots -> SUBSET (Ours \cup {"user"})]]
  /\ daemon \in [Pids -> {"none", "spawned", "opened", "listening", "serving",
                          "stopping", "shut", "unlinked", "closing", "gone"}]
  /\ foreign \subseteq {d \in Pids : daemon[d] = "gone"}
  /\ {endpoint, pidfile} \subseteq Pids \cup {0}
  /\ {dataDir, overlap, hurried, bare} \subseteq BOOLEAN
  /\ config \in [Files -> [Slots -> SUBSET (Ours \cup {"user"})]]
  /\ faults \in Nat
  /\ misled \subseteq Cmds
  /\ last \subseteq Cmds
  /\ theirs \subseteq Files \X Slots

(* One command after the other, none of which gave up waiting.                *)
Calm == ~overlap /\ ~hurried
Just(kind) == \E c \in last : Kind[c] = kind

(* "resleeve is up.", "daemon stopped" (lifecycle.go:87, 112): what the last `up` *)
(* leaves behind, be it with a daemon it found, one it started or the stale files *)
(* of one that crashed, is a daemon that answers under the endpoint hooks look up *)
(* and that the PID file names, so that `down` finds it; and after `down` none    *)
(* goes on serving.  Only an `up` that takes another process, to which the PID in *)
(* a stale file has gone, for the daemon says so of no daemon.                    *)
SaidIsSo ==
  Calm /\ Idle =>
    /\ \A c \in last \ misled :
         Kind[c] = "up" => endpoint = pidfile /\ Serves(pidfile) /\ dataDir
    /\ Just("down") => \A d \in Pids : ~Starting(d) /\ ~Serves(d)

(* Two daemons never run against one database (daemonAlive, lifecycle.go:53),     *)
(* and `purge` never takes it from under one (lifecycle.go:149).                   *)
OneHome ==
  Calm => /\ ~bare
          /\ \A d, e \in Pids : d # e => ~((Starting(d) \/ Serves(d)) /\ (Starting(e) \/ Serves(e)))

(* "a switch from full -> memory-only mode would leave stale PostToolUse/Stop/etc. *)
(* _resleeve hooks behind" (claude/install.go:88): the handlers of ours are those   *)
(* of the last command that rewrote the file, once and in its mode, and none        *)
(* after an uninstall.                                                              *)
HandlersFollow ==
  ~overlap /\ Idle =>
    \A c \in last, f \in Files :
      (\E i \in DOMAIN Edits[c] : Edits[c][i] = f) =>
        \A s \in Slots : config[f][s] \cap Ours =
          IF Kind[c] \in {"up", "install"} /\ s \in Installs(c, f) THEN {Handler(c, f)} ELSE {}

(* ... while "unrelated user-authored hooks are preserved untouched" (install.go:51), *)
(* also by commands that overlap: only an edit between a command's read and its       *)
(* rename can be lost.                                                               *)
HandlersRight == HandlersFollow /\ \A p \in theirs : "user" \in config[p[1]][p[2]]

-------------------------------------------------------------------------------
(* Stated by the code's messages and not kept (README, "Disagreements"); no   *)
(* run checks it, no theorem states it.                                       *)

(* "daemon already running", "resleeve is up." (lifecycle.go:54, 87), of any  *)
(* `up`: but processAlive finds whatever process has the PID of a stale file. *)
UpIsUp == Calm /\ Idle /\ Just("up") => Serves(pidfile)
===============================================================================

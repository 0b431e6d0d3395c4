---------------------------- MODULE DaemonLifecycle ----------------------------
(***************************************************************************)
(* How daemons start and end: internal/daemon/daemon.go, pidfile.go and    *)
(* lock_unix.go, with the commands that start, stop, restart and reload    *)
(* them, cmd/ratchet/cmd_daemon.go and main.go, internal/client/client.go. *)
(*                                                                         *)
(* Processes share a lock file, a PID file and a socket, and learn of each *)
(* other through these, signals and calls. A daemon may be killed between  *)
(* any two steps; a process that ended stays in sight until its parent,    *)
(* which does not wait for it, has ended too. PIDs are not used again.     *)
(***************************************************************************)
EXTENDS Naturals

CONSTANTS
  MaxDaemons,   \* bounds the processes that run the daemon
  Commands,     \* processes of the command line
  None, Empty   \* no process; a file that was created and not written

(* Process ids of daemons; they are given in this order. *)
Daemons == 1..MaxDaemons

ASSUME DaemonsAssumption ==
  MaxDaemons \in Nat /\ {None, Empty} \cap Daemons = {} /\ None # Empty
ASSUME CommandsAssumption == None \notin Commands

VARIABLES
  lock,      \* who holds daemon.lock
  pidFile,   \* what daemon.pid says
  socket,    \* who bound daemon.sock
  daemon,    \* the daemons: their main function and two goroutines
  command    \* the commands

files == <<lock, pidFile, socket>>
vars == <<files, daemon, command>>

-----------------------------------------------------------------------------
(* Where the main function of a daemon is; before it serves, the signals   *)
(* have their default effect, and again while it drains.                   *)
Starting == {"lock", "check", "create", "write", "listen", "service"}
Ending == {"drain", "close", "unlink", "unpid", "unlock", "exit"}
Stages == Starting \cup {"serve"} \cup Ending \cup {"none", "zombie", "gone"}

(* context: only that of the signals is done, or that of the run and both. *)
(* closing: the reload barrier is down. watch: the goroutine that waits    *)
(* for the end. reload: that which waits for a reload signal. busy: calls  *)
(* of clients are in flight when the server stops.                         *)
Daemon == [at: Stages, parent: Commands \cup {None},
           context: {"open", "signaled", "canceled"}, closing: BOOLEAN, busy: BOOLEAN,
           watch: {"wait", "barrier", "graceful", "end"},
           reload: {"wait", "signaled", "export", "done", "end"}]

Fresh == [at |-> "none", parent |-> None, context |-> "open",
          closing |-> FALSE, busy |-> FALSE, watch |-> "wait", reload |-> "wait"]

Stopping ==
  {"capture", "alive", "rpc", "grace", "terminate", "fallback", "reconcile"}
Reloading == {"trigger", "vanish", "spawn", "appear"}
Places ==
  Stopping \cup Reloading \cup {"idle", "ensure", "start", "ready", "session"}

Command == [at: Places,
            kind: {"start", "stop", "restart", "session", "reloaded"},
            old: Daemons \cup {None}, result: {"ok", "error"}]

Idle == [at |-> "idle", kind |-> "start", old |-> None, result |-> "error"]

(* processRunning: a zombie still takes the empty signal. *)
Running(d) == daemon[d].at \notin {"none", "gone"}
IsRunning == pidFile \in Daemons /\ Running(pidFile)

(* A call reaches the server of the daemon that bound the socket. *)
Accepts(d) ==
  /\ socket = d
  /\ daemon[d].at = "serve" /\ daemon[d].watch \in {"wait", "barrier"}

Init ==
  /\ lock = None /\ pidFile = None /\ socket = None
  /\ daemon = [d \in Daemons |-> Fresh]
  /\ command = [c \in Commands |-> Idle]

-----------------------------------------------------------------------------
(***************************************************************************)
(* The main function, from the lock to the deferred calls.                 *)
(***************************************************************************)
Advance(d, from, to) ==
  /\ daemon[d].at = from
  /\ daemon' = [daemon EXCEPT ![d].at = to]

(* The process ends, and its parent may still be there. *)
Dead(d) ==
  [Fresh EXCEPT !.parent = daemon[d].parent,
                !.at = IF daemon[d].parent = None THEN "gone" ELSE "zombie"]

Die(d) ==
  /\ daemon' = [daemon EXCEPT ![d] = Dead(d)]
  /\ lock' = IF lock = d THEN None ELSE lock

Unused(d) == \A e \in Daemons : daemon[e].at = "none" <=> d <= e

(* Start in the foreground: a shell waits for its child. *)
Launch(d) ==
  /\ Unused(d) /\ Advance(d, "none", "lock")
  /\ UNCHANGED <<files, command>>

AcquireLock(d) ==
  /\ daemon[d].at = "lock"
  /\ \/ lock = None /\ lock' = d /\ Advance(d, "lock", "check")
     \/ lock # None /\ Die(d)
  /\ UNCHANGED <<pidFile, socket, command>>

(* Refused when the PID file names a process; then CleanupSocket. *)
CheckRunning(d) ==
  /\ \/ IsRunning /\ Advance(d, "check", "unlock") /\ UNCHANGED socket
     \/ ~IsRunning /\ Advance(d, "check", "create") /\ socket' = None
  /\ UNCHANGED <<lock, pidFile, command>>

(* WritePID creates or truncates the file first; a write that fails leaves *)
(* it so, as its removal is deferred only afterwards.                      *)
CreatePID(d) ==
  /\ Advance(d, "create", "write")
  /\ pidFile' = Empty
  /\ UNCHANGED <<lock, socket, command>>

WritePID(d) ==
  /\ \/ Advance(d, "write", "listen") /\ pidFile' = d
     \/ Advance(d, "write", "unlock") /\ UNCHANGED pidFile
  /\ UNCHANGED <<lock, socket, command>>

Listen(d) ==
  /\ \/ Advance(d, "listen", "service") /\ socket' = d
     \/ Advance(d, "listen", "unpid") /\ UNCHANGED socket
  /\ UNCHANGED <<lock, pidFile, command>>

NewDaemonService(d) ==
  /\ \/ Advance(d, "service", "serve")
     \/ Advance(d, "service", "unlink")
  /\ UNCHANGED <<files, command>>

(* Serve gives up on the listener and closes it. *)
ServeFails(d) ==
  /\ daemon[d].watch \in {"wait", "barrier"}
  /\ Advance(d, "serve", "drain")
  /\ socket' = None
  /\ UNCHANGED <<lock, pidFile, command>>

(* What is deferred: the barrier for shutdown, and the end of the service  *)
(* once a reload that began before has finished.                           *)
BeginDrain(d) ==
  /\ daemon[d].at = "drain" /\ ~daemon[d].closing
  /\ daemon' = [daemon EXCEPT ![d].closing = TRUE, ![d].context = "canceled"]
  /\ UNCHANGED <<files, command>>

\* Mutant of Drained, which waits for no reload.
DrainedAtOnce(d) ==
  /\ daemon[d].closing
  /\ Advance(d, "drain", "close")
  /\ UNCHANGED <<files, command>>

Drained(d) ==
  /\ daemon[d].closing /\ daemon[d].reload # "export"
  /\ Advance(d, "drain", "close")
  /\ UNCHANGED <<files, command>>

CloseService(d) ==
  /\ Advance(d, "close", "unlink")
  /\ UNCHANGED <<files, command>>

\* Mutant of CleanupSocket, with the lock released early.
CleanupSocketUnlocks(d) ==
  /\ Advance(d, "unlink", "unpid")
  /\ socket' = None /\ lock' = None
  /\ UNCHANGED <<pidFile, command>>

CleanupSocket(d) ==
  /\ Advance(d, "unlink", "unpid")
  /\ socket' = None
  /\ UNCHANGED <<lock, pidFile, command>>

CleanupPID(d) ==
  /\ Advance(d, "unpid", "unlock")
  /\ pidFile' = None
  /\ UNCHANGED <<lock, socket, command>>

Unlock(d) ==
  /\ Advance(d, "unlock", "exit")
  /\ lock' = None
  /\ UNCHANGED <<pidFile, socket, command>>

Exit(d) ==
  /\ daemon[d].at = "exit"
  /\ Die(d)
  /\ UNCHANGED <<pidFile, socket, command>>

-----------------------------------------------------------------------------
(***************************************************************************)
(* The goroutines of a daemon that serves.                                 *)
(***************************************************************************)
Lives(d) == daemon[d].at \in {"serve"} \cup Ending

(* The signal context, or the context of the run, is done. *)
BeginShutdown(d) ==
  /\ Lives(d) /\ daemon[d].watch = "wait"
  /\ daemon[d].context # "open"
  /\ daemon' = [daemon EXCEPT ![d].closing = TRUE,
                              ![d].context = "canceled", ![d].watch = "barrier"]
  /\ UNCHANGED <<files, command>>

(* GracefulStop closes the listener, which removes the socket, and waits   *)
(* for the calls that are in flight.                                       *)
GracefulStop(d) ==
  /\ Lives(d) /\ daemon[d].watch = "barrier" /\ daemon[d].reload # "export"
  /\ \E calls \in BOOLEAN :
       daemon' = [daemon EXCEPT ![d].watch = "graceful", ![d].busy = calls]
  /\ socket' = IF daemon[d].at = "serve" THEN None ELSE socket
  /\ UNCHANGED <<lock, pidFile, command>>

(* It returns when the calls have, and Serve with it. *)
Stopped(d) ==
  /\ daemon[d].watch = "graceful" /\ ~daemon[d].busy
  /\ Advance(d, "serve", "drain")
  /\ UNCHANGED <<files, command>>

\* Mutant of BeginReload, without a look at the barrier.
BeginReloadAnyway(d) ==
  /\ Lives(d) /\ daemon[d].reload = "signaled"
  /\ daemon' = [daemon EXCEPT ![d].reload = "export"]
  /\ UNCHANGED <<files, command>>

BeginReload(d) ==
  /\ Lives(d) /\ daemon[d].reload = "signaled"
  /\ daemon' = [daemon EXCEPT ![d].reload =
                  IF daemon[d].closing THEN "end" ELSE "export"]
  /\ UNCHANGED <<files, command>>

(* The checkpoint is written or not; finishReload. *)
FinishReload(d) ==
  /\ Lives(d) /\ daemon[d].reload = "export"
  /\ daemon' = [daemon EXCEPT ![d].reload = "done"]
  /\ UNCHANGED <<files, command>>

\* Mutant of CancelAfterReload, which leaves the daemon running.
CancelAfterReloadForgotten(d) ==
  /\ Lives(d) /\ daemon[d].reload = "done"
  /\ daemon' = [daemon EXCEPT ![d].reload = "end"]
  /\ UNCHANGED <<files, command>>

CancelAfterReload(d) ==
  /\ Lives(d) /\ daemon[d].reload = "done"
  /\ daemon' = [daemon EXCEPT ![d].reload = "end", ![d].context = "canceled"]
  /\ UNCHANGED <<files, command>>

ReloadEnds(d) ==
  /\ Lives(d) /\ daemon[d].context = "canceled"
  /\ daemon[d].reload \in {"wait", "signaled"}
  /\ daemon' = [daemon EXCEPT ![d].reload = "end"]
  /\ UNCHANGED <<files, command>>

(* Clients hang up. *)
CallEnds(d) ==
  /\ daemon[d].busy
  /\ daemon' = [daemon EXCEPT ![d].busy = FALSE]
  /\ UNCHANGED <<files, command>>

Crash(d) ==
  /\ daemon[d].at \notin {"none", "zombie", "gone"}
  /\ Die(d)
  /\ UNCHANGED <<pidFile, socket, command>>

-----------------------------------------------------------------------------
(***************************************************************************)
(* Signals. The termination signal ends a process that does not listen to  *)
(* it; after the first one a daemon that serves takes no notice of it.     *)
(***************************************************************************)
Terminate(d) ==
  IF daemon[d].at = "serve"
  THEN /\ daemon' = [daemon EXCEPT ![d].context =
                        IF @ = "open" THEN "signaled" ELSE @]
       /\ UNCHANGED lock
  ELSE IF daemon[d].at \in Starting \cup Ending THEN Die(d)
  ELSE UNCHANGED <<daemon, lock>>

ReloadSignal(d) ==
  daemon' = IF daemon[d].at = "serve" /\ daemon[d].reload = "wait"
            THEN [daemon EXCEPT ![d].reload = "signaled"]
            ELSE daemon

(* The RPC asks for the checkpoint of a reload itself, then for the signal.*)
RequestReload(d) ==
  /\ Accepts(d) /\ IsRunning
  /\ ReloadSignal(pidFile)
  /\ UNCHANGED <<files, command>>

(* From a terminal, or the end of a login session. *)
Interrupt(d) ==
  /\ daemon[d].at \in Starting \cup Ending \cup {"serve"}
  /\ Terminate(d)
  /\ UNCHANGED <<pidFile, socket, command>>

-----------------------------------------------------------------------------
(***************************************************************************)
(* The commands.                                                           *)
(***************************************************************************)
At(c, place) == command[c].at = place

Goto(c, place) == command' = [command EXCEPT ![c].at = place]

(* A command that ends leaves its children to a parent that waits for them.*)
Return(c, result) ==
  /\ command' = [command EXCEPT ![c] = [Idle EXCEPT !.result = result]]
  /\ daemon' = [d \in Daemons |->
                  IF daemon[d].parent # c THEN daemon[d]
                  ELSE [daemon[d] EXCEPT !.parent = None,
                          !.at = IF @ = "zombie" THEN "gone" ELSE @]]
  /\ UNCHANGED files

Continue(c, place) ==
  /\ Goto(c, place)
  /\ UNCHANGED <<files, daemon>>

Begin(c) ==
  /\ At(c, "idle")
  /\ \E kind \in {"start", "stop", "restart", "session"} :
       command' = [command EXCEPT ![c] =
         [at |-> CASE kind \in {"stop", "restart"} -> "capture"
                   [] kind = "session" -> "ensure"
                   [] OTHER -> "start",
          kind |-> kind, old |-> None, result |-> "error"]]
  /\ UNCHANGED <<files, daemon>>

(* EnsureDaemon connects to what runs. *)
Ensure(c) ==
  /\ At(c, "ensure")
  /\ Continue(c, IF IsRunning THEN "session" ELSE "start")

Spawn(c, to) ==
  \E d \in Daemons :
    /\ Unused(d)
    /\ daemon' = [daemon EXCEPT ![d].at = "lock", ![d].parent = c]
    /\ Goto(c, to)
    /\ UNCHANGED files

StartBackground(c) ==
  /\ At(c, "start")
  /\ \/ IsRunning /\ Continue(c, "ready")
     \/ ~IsRunning /\ Spawn(c, "ready")
     \/ ~IsRunning /\ Return(c, "error")

(* waitForDaemonReady probes until the daemon is healthy or the time over. *)
Ready(c) ==
  /\ At(c, "ready")
  /\ \/ /\ \E d \in Daemons : Accepts(d)
        /\ IF command[c].kind \in {"session", "reloaded"}
           THEN Continue(c, "session") ELSE Return(c, "ok")
     \/ Return(c, "error")

(* stopContextWithOps reads the PID file once. *)
Capture(c) ==
  /\ At(c, "capture")
  /\ \/ /\ pidFile \in Daemons
        /\ command' = [command EXCEPT ![c].at = "alive", ![c].old = pidFile]
        /\ UNCHANGED <<files, daemon>>
     \/ pidFile = None /\ command[c].kind = "restart" /\ Continue(c, "start")
     \/ pidFile = None /\ command[c].kind = "stop" /\ Return(c, "error")
     \/ pidFile = Empty /\ Return(c, "error")

CheckCaptured(c) ==
  /\ At(c, "alive")
  /\ Continue(c, IF Running(command[c].old) THEN "rpc" ELSE "reconcile")

(* The call goes to whoever listens; a late answer counts as none. *)
ShutdownRPC(c) ==
  /\ At(c, "rpc")
  /\ \/ \E d \in Daemons, to \in {"grace", "terminate"} :
          /\ Accepts(d)
          /\ daemon' = [daemon EXCEPT ![d].context = "canceled"]
          /\ Goto(c, to)
          /\ UNCHANGED files
     \/ Continue(c, "terminate")

\* Mutant of WaitGrace, which removes the files of the daemon that ended.
WaitGraceUnlinks(c) ==
  /\ At(c, "grace")
  /\ IF Running(command[c].old) THEN Continue(c, "terminate")
     ELSE /\ pidFile' = None /\ socket' = None
          /\ Goto(c, "reconcile")
          /\ UNCHANGED <<lock, daemon>>

\* Mutant of WaitGrace, which takes the answer for the end.
WaitGraceNotAtAll(c) ==
  /\ At(c, "grace")
  /\ Continue(c, "reconcile")

(* waitForDaemonExit, with the grace period and with the fallback period. *)
WaitGrace(c) ==
  /\ At(c, "grace")
  /\ Continue(c, IF Running(command[c].old) THEN "terminate" ELSE "reconcile")

TerminateDaemon(c) ==
  /\ At(c, "terminate")
  /\ \/ /\ Running(command[c].old)
        /\ Terminate(command[c].old)
        /\ Goto(c, "fallback")
        /\ UNCHANGED <<pidFile, socket>>
     \/ ~Running(command[c].old) /\ Return(c, "error")

WaitFallback(c) ==
  /\ At(c, "fallback")
  /\ \/ Running(command[c].old) /\ Return(c, "error")
     \/ ~Running(command[c].old) /\ Continue(c, "reconcile")

(* reconcileDaemonOwnership removes nothing: a replacement may have come.  *)
Reconcile(c) ==
  LET replaced == IsRunning /\ pidFile # command[c].old IN
  /\ At(c, "reconcile")
  /\ \/ pidFile = Empty /\ Return(c, "error")
     \/ IsRunning /\ ~replaced /\ Return(c, "error")
     \/ /\ pidFile # Empty /\ ~(IsRunning /\ ~replaced)
        /\ IF command[c].kind = "stop" \/ replaced
           THEN Return(c, "ok") ELSE Continue(c, "start")

-----------------------------------------------------------------------------
(* A session whose daemon has another version reloads it, once, and goes   *)
(* on with the old one if that fails.                                      *)
BeginReloadDaemon(c) ==
  /\ At(c, "session") /\ command[c].kind = "session"
  /\ command' = [command EXCEPT ![c].at = "trigger", ![c].kind = "reloaded"]
  /\ UNCHANGED <<files, daemon>>

TriggerReload(c) ==
  /\ At(c, "trigger")
  /\ \/ IsRunning /\ ReloadSignal(pidFile) /\ Goto(c, "vanish") /\ UNCHANGED files
     \/ ~IsRunning /\ Continue(c, "session")

(* The socket is gone, or the time is over. *)
AwaitVanished(c) ==
  /\ At(c, "vanish")
  /\ Continue(c, "spawn")

SpawnReplacement(c) ==
  /\ At(c, "spawn")
  /\ Spawn(c, "appear") \/ Continue(c, "session")

AwaitSocket(c) ==
  /\ At(c, "appear")
  /\ \/ socket # None /\ Continue(c, "ensure")
     \/ socket = None /\ Continue(c, "session")

Quit(c) ==
  /\ At(c, "session")
  /\ Return(c, "ok")

-----------------------------------------------------------------------------
Main(d) ==
  \/ AcquireLock(d) \/ CheckRunning(d) \/ CreatePID(d) \/ WritePID(d) \/ Listen(d)
  \/ NewDaemonService(d) \/ Stopped(d) \/ BeginDrain(d) \/ Drained(d)
  \/ CloseService(d) \/ CleanupSocket(d) \/ CleanupPID(d) \/ Unlock(d) \/ Exit(d)

Watch(d) == BeginShutdown(d) \/ GracefulStop(d)

Reload(d) ==
  \/ BeginReload(d) \/ FinishReload(d) \/ CancelAfterReload(d) \/ ReloadEnds(d)

Act(c) ==
  \/ Begin(c) \/ Ensure(c) \/ StartBackground(c) \/ Ready(c) \/ Capture(c)
  \/ CheckCaptured(c) \/ ShutdownRPC(c) \/ WaitGrace(c) \/ TerminateDaemon(c)
  \/ WaitFallback(c) \/ Reconcile(c) \/ BeginReloadDaemon(c) \/ TriggerReload(c)
  \/ AwaitVanished(c) \/ SpawnReplacement(c) \/ AwaitSocket(c) \/ Quit(c)

Next ==
  \/ \E d \in Daemons :
       \/ Launch(d) \/ Main(d) \/ ServeFails(d) \/ Watch(d) \/ Reload(d)
       \/ CallEnds(d) \/ RequestReload(d) \/ Crash(d) \/ Interrupt(d)
  \/ \E c \in Commands : Act(c)

Spec == Init /\ [][Next]_vars

(* A daemon whose goroutines or clients have something to do goes on: the  *)
(* service closes and clients hang up in the end.                          *)
Fairness ==
  \A d \in Daemons : WF_vars(Main(d) \/ Watch(d) \/ Reload(d) \/ CallEnds(d))

FairSpec == Spec /\ Fairness

-----------------------------------------------------------------------------
(***************************************************************************)
(* Type invariant.                                                         *)
(***************************************************************************)
TypeOK ==
  /\ lock \in Daemons \cup {None}
  /\ pidFile \in Daemons \cup {None, Empty}
  /\ socket \in Daemons \cup {None}
  /\ daemon \in [Daemons -> Daemon]
  /\ command \in [Commands -> Command]

(***************************************************************************)
(* One daemon: who serves has the lock, and the PID file and the socket    *)
(* are its own, whatever others that start, end or stop it clean up. Who   *)
(* has the lock finds a process in the PID file only where its parent      *)
(* still has to wait for it, so that stale files block no start.           *)
(***************************************************************************)
OneDaemon ==
  \A d \in Daemons :
    /\ daemon[d].at = "serve" => lock = d /\ pidFile = d
    /\ daemon[d].at = "serve" /\ daemon[d].watch \in {"wait", "barrier"}
         => socket = d
    /\ daemon[d].at = "check" /\ IsRunning => daemon[pidFile].at = "zombie"

(***************************************************************************)
(* A stop or restart that reports success has seen the daemon it found end,*)
(* also if that was replaced meanwhile, or answered too late.              *)
(***************************************************************************)
StopsAreTrue ==
  [][\A c \in Commands :
       /\ command[c].kind \in {"stop", "restart"} /\ command[c].old # None
       /\ command'[c].at = "idle" /\ command'[c].result = "ok"
       => ~Running(command[c].old)]_vars

(***************************************************************************)
(* The checkpoint of a reload is written from a service that is open, and  *)
(* before the daemon ends: shutdown and the end of Serve wait for it, and  *)
(* no reload begins after them.                                            *)
(***************************************************************************)
ReloadMeetsService ==
  \A d \in Daemons :
    daemon[d].reload = "export" => daemon[d].at \in {"serve", "drain"}

(***************************************************************************)
(* A daemon that was told to end, by a call, a signal or a reload, does,   *)
(* if its clients hang up.                                                 *)
(***************************************************************************)
DaemonEnds ==
  \A d \in Daemons :
    daemon[d].context # "open" \/ daemon[d].reload = "export"
      ~> daemon[d].at \in {"zombie", "gone"}

=============================================================================

----------------------------- MODULE DaemonProofs -----------------------------
(***************************************************************************)
(* Proofs about DaemonLifecycle, for any number of daemons and commands:   *)
(* its types, and that of the daemons one serves, that a reload meets the  *)
(* open service, and that a stop which reports success is true.            *)
(***************************************************************************)
EXTENDS DaemonInvariant, TLAPS

(***************************************************************************)
(* What the steps that many actions share do.                              *)
(***************************************************************************)
DaemonType == daemon \in [Daemons -> Daemon]
CommandType == command \in [Commands -> Command]

(* What a daemon has besides its stage. *)
Flags(s) == <<s.context, s.closing, s.watch, s.reload>>
Others(d) == \A e \in Daemons \ {d} : daemon'[e] = daemon[e]

(* What a step of the main function does to its daemon.                  *)
LEMMA AdvanceStep ==
  ASSUME DaemonType, NEW d \in Daemons, NEW from, NEW to \in Stages,
         Advance(d, from, to)
  PROVE  /\ DaemonType' /\ Others(d)
         /\ Stage(d) = from /\ Stage(d)' = to
         /\ Flags(daemon'[d]) = Flags(daemon[d])
<1>1. daemon' = [daemon EXCEPT ![d] = [daemon[d] EXCEPT !.at = to]]
  BY DEF Advance
<1>2. daemon[d] \in Daemon
  BY DEF DaemonType
<1>3. [daemon[d] EXCEPT !.at = to] \in Daemon
  BY <1>2 DEF Daemon
<1> QED BY <1>1, <1>2, <1>3 DEF Advance, DaemonType, Daemon, Others, Stage, Flags

(* A process that ended has no goroutines.                               *)
LEMMA DeadIs ==
  ASSUME DaemonType, NEW d \in Daemons
  PROVE  /\ Dead(d) \in Daemon /\ Dead(d).at \in {"zombie", "gone"}
         /\ Dead(d).context = "open" /\ Dead(d).reload = "wait"
<1>1. daemon[d].parent \in Commands \cup {None}
  BY DEF DaemonType, Daemon
<1> QED BY <1>1 DEF Dead, Fresh, Daemon, Stages

(* A process that ends gives the lock back.                              *)
LEMMA DieStep ==
  ASSUME DaemonType, NEW d \in Daemons, Die(d)
  PROVE  /\ DaemonType' /\ Others(d)
         /\ Stage(d)' \in {"zombie", "gone"}
         /\ daemon'[d].context = "open" /\ daemon'[d].reload = "wait"
         /\ lock' = IF lock = d THEN None ELSE lock
  BY DeadIs DEF Die, DaemonType, Others, Stage

(* The signal ends a process, or is noted by one that serves.            *)
LEMMA TerminateStep ==
  ASSUME DaemonType, NEW d \in Daemons, Terminate(d)
  PROVE  \/ UNCHANGED <<daemon, lock>>
         \/ Die(d) /\ Stage(d) \in Starting \cup Ending
         \/ /\ DaemonType' /\ Others(d) /\ UNCHANGED lock
            /\ Stage(d) = "serve" /\ Stage(d)' = "serve"
            /\ daemon'[d].closing = daemon[d].closing
            /\ daemon'[d].watch = daemon[d].watch
            /\ daemon'[d].reload = daemon[d].reload
<1> CASE Stage(d) = "serve"
  BY DEF Terminate, Stage, DaemonType, Daemon, Others
<1> CASE Stage(d) # "serve"
  BY DEF Terminate, Stage
<1> QED OBVIOUS

(* A command that ends only takes zombies out of sight.                  *)
LEMMA ReturnStep ==
  ASSUME DaemonType, CommandType, NEW c \in Commands, NEW r \in {"ok", "error"},
         Return(c, r)
  PROVE  /\ DaemonType' /\ CommandType' /\ UNCHANGED files
         /\ \A d \in Daemons :
              /\ Flags(daemon'[d]) = Flags(daemon[d])
              /\ \/ Stage(d)' = Stage(d)
                 \/ Stage(d) = "zombie" /\ Stage(d)' = "gone"
         /\ command'[c] = [Idle EXCEPT !.result = r]
         /\ \A b \in Commands \ {c} : command'[b] = command[b]
<1>1. [Idle EXCEPT !.result = r] \in Command
  BY DEF Idle, Command, Places
<1>2. ASSUME NEW d \in Daemons
      PROVE  /\ daemon'[d] \in Daemon /\ Flags(daemon'[d]) = Flags(daemon[d])
             /\ \/ Stage(d)' = Stage(d)
                \/ Stage(d) = "zombie" /\ Stage(d)' = "gone"
  <2>1. daemon[d] \in Daemon BY DEF DaemonType
  <2>2. CASE daemon[d].parent # c
    BY <2>1, <2>2 DEF Return, Stage, Flags
  <2>3. CASE daemon[d].parent = c
    <3>1. daemon'[d] = [daemon[d] EXCEPT !.parent = None,
                          !.at = IF @ = "zombie" THEN "gone" ELSE @]
      BY <2>3 DEF Return
    <3> QED BY <2>1, <3>1 DEF Daemon, Stages, Stage, Flags
  <2> QED BY <2>2, <2>3
<1>3. DOMAIN daemon' = Daemons /\ daemon' = [d \in Daemons |-> daemon'[d]]
  BY DEF Return
<1> QED BY <1>1, <1>2, <1>3 DEF Return, DaemonType, CommandType

(* A command that goes on stays the same command.                        *)
LEMMA GotoStep ==
  ASSUME CommandType, NEW c \in Commands, NEW to \in Places, Goto(c, to)
  PROVE  /\ CommandType'
         /\ command'[c].at = to /\ command'[c].kind = command[c].kind
         /\ command'[c].old = command[c].old
         /\ \A b \in Commands \ {c} : command'[b] = command[b]
<1>1. [command[c] EXCEPT !.at = to] \in Command
  BY DEF CommandType, Command
<1>2. command' = [command EXCEPT ![c] = [command[c] EXCEPT !.at = to]]
  BY DEF Goto
<1> QED BY <1>1, <1>2 DEF CommandType, Command

(* A new process comes from nothing, and has no goroutines.              *)
LEMMA SpawnStep ==
  ASSUME DaemonType, CommandType, NEW c \in Commands, NEW to \in Places, Spawn(c, to)
  PROVE  /\ DaemonType' /\ Goto(c, to) /\ UNCHANGED files
         /\ \E d \in Daemons :
              /\ Others(d) /\ Stage(d) = "none" /\ Stage(d)' = "lock"
              /\ Flags(daemon'[d]) = Flags(daemon[d])
<1>1. PICK d \in Daemons :
        /\ Unused(d)
        /\ daemon' = [daemon EXCEPT ![d].at = "lock", ![d].parent = c]
  BY DEF Spawn
<1>2. Stage(d) = "none"
  BY <1>1, DaemonsAssumption DEF Unused, Stage, Daemons
<1>3. daemon[d] \in Daemon /\ [daemon[d] EXCEPT !.at = "lock", !.parent = c] \in Daemon
  BY DEF DaemonType, Daemon, Stages, Starting
<1>4. daemon' = [daemon EXCEPT ![d] = [daemon[d] EXCEPT !.at = "lock", !.parent = c]]
  BY <1>1
<1>5. DaemonType' /\ Others(d) /\ Stage(d)' = "lock" /\ Flags(daemon'[d]) = Flags(daemon[d])
  BY <1>3, <1>4 DEF DaemonType, Others, Stage, Flags, Daemon
<1> QED BY <1>2, <1>5 DEF Spawn
(* What a command does to the daemons and their files. *)
Effect(c) ==
  \/ UNCHANGED <<files, daemon>>
  \/ \E r \in {"ok", "error"} : Return(c, r)
  \/ \E to \in Places : Spawn(c, to)
  \/ \E d \in Daemons : Terminate(d) /\ UNCHANGED <<pidFile, socket>>
  \/ \E d \in Daemons : ReloadSignal(d) /\ UNCHANGED files
  \/ \E d \in Daemons :
       /\ Accepts(d) /\ UNCHANGED files
       /\ daemon' = [daemon EXCEPT ![d].context = "canceled"]

(* Every action of a command has one of these effects.                   *)
LEMMA ActEffect ==
  ASSUME TypeOK, StopAgrees, NEW c \in Commands, Act(c)
  PROVE  Effect(c)
<1>1. CASE Begin(c)
  BY <1>1 DEF Effect, Begin
<1>2. CASE Ensure(c)
  BY <1>2 DEF Effect, Ensure, Continue
<1>3. CASE StartBackground(c)
  BY <1>3 DEF Effect, StartBackground, Continue, Places
<1>4. CASE Ready(c)
  BY <1>4 DEF Effect, Ready, Continue
<1>5. CASE Capture(c)
  BY <1>5 DEF Effect, Capture, Continue
<1>6. CASE CheckCaptured(c)
  BY <1>6 DEF Effect, CheckCaptured, Continue
<1>7. CASE ShutdownRPC(c)
  BY <1>7 DEF Effect, ShutdownRPC, Continue
<1>8. CASE WaitGrace(c)
  BY <1>8 DEF Effect, WaitGrace, Continue
<1>9. CASE TerminateDaemon(c)
  <2>1. command[c].old \in Daemons
    BY <1>9 DEF TypeOK, Command, StopAgrees, OnPath, Stopping, At,
      TerminateDaemon
  <2> QED BY <1>9, <2>1 DEF Effect, TerminateDaemon
<1>10. CASE WaitFallback(c)
  BY <1>10 DEF Effect, WaitFallback, Continue
<1>11. CASE Reconcile(c)
  BY <1>11 DEF Effect, Reconcile, Continue
<1>12. CASE BeginReloadDaemon(c)
  BY <1>12 DEF Effect, BeginReloadDaemon
<1>13. CASE TriggerReload(c)
  BY <1>13 DEF Effect, TriggerReload, Continue, IsRunning
<1>14. CASE AwaitVanished(c)
  BY <1>14 DEF Effect, AwaitVanished, Continue
<1>15. CASE SpawnReplacement(c)
  BY <1>15 DEF Effect, SpawnReplacement, Continue, Places, Reloading
<1>16. CASE AwaitSocket(c)
  BY <1>16 DEF Effect, AwaitSocket, Continue
<1>17. CASE Quit(c)
  BY <1>17 DEF Effect, Quit
<1> QED
  BY <1>1, <1>2, <1>3, <1>4, <1>5, <1>6, <1>7, <1>8, <1>9, <1>10, <1>11,
     <1>12, <1>13, <1>14, <1>15, <1>16, <1>17
     DEF Act

(* Who has started has, and who has ended does not come back. *)
GoneStays ==
  \A d \in Daemons :
    /\ Stage(d) # "none" => Stage(d)' # "none"
    /\ Stage(d) = "gone" => Stage(d)' = "gone"

(* A record that is exchanged for another keeps the type.                *)
LEMMA UpdateType ==
  ASSUME DaemonType, NEW d \in Daemons, NEW s \in Daemon,
         daemon' = [daemon EXCEPT ![d] = s]
  PROVE  DaemonType'
  BY DEF DaemonType

(* The lock is held from one end to the other, by one.                   *)
LEMMA LockStep ==
  ASSUME TypeOK, LockAgrees, StopAgrees, [Next]_vars
  PROVE  LockAgrees'
<1>1. ASSUME NEW d \in Daemons, Launch(d) PROVE LockAgrees'
  BY <1>1, DaemonsAssumption DEF LockAgrees, Stage, Holding, TypeOK, Daemon,
    files, Advance, Unused, Launch
<1>2. ASSUME NEW d \in Daemons, CheckRunning(d) PROVE LockAgrees'
  BY <1>2, DaemonsAssumption DEF LockAgrees, Stage, Holding, TypeOK, Daemon,
    files, Advance, CheckRunning
<1>3. ASSUME NEW d \in Daemons, CreatePID(d) PROVE LockAgrees'
  BY <1>3, DaemonsAssumption DEF LockAgrees, Stage, Holding, TypeOK, Daemon,
    files, Advance, CreatePID
<1>4. ASSUME NEW d \in Daemons, WritePID(d) PROVE LockAgrees'
  BY <1>4, DaemonsAssumption DEF LockAgrees, Stage, Holding, TypeOK, Daemon,
    files, Advance, WritePID
<1>5. ASSUME NEW d \in Daemons, Listen(d) PROVE LockAgrees'
  BY <1>5, DaemonsAssumption DEF LockAgrees, Stage, Holding, TypeOK, Daemon,
    files, Advance, Listen
<1>6. ASSUME NEW d \in Daemons, NewDaemonService(d) PROVE LockAgrees'
  BY <1>6, DaemonsAssumption DEF LockAgrees, Stage, Holding, TypeOK, Daemon,
    files, Advance, NewDaemonService
<1>7. ASSUME NEW d \in Daemons, ServeFails(d) PROVE LockAgrees'
  BY <1>7, DaemonsAssumption DEF LockAgrees, Stage, Holding, TypeOK, Daemon,
    files, Advance, ServeFails
<1>8. ASSUME NEW d \in Daemons, Stopped(d) PROVE LockAgrees'
  BY <1>8, DaemonsAssumption DEF LockAgrees, Stage, Holding, TypeOK, Daemon,
    files, Advance, Stopped
<1>9. ASSUME NEW d \in Daemons, Drained(d) PROVE LockAgrees'
  BY <1>9, DaemonsAssumption DEF LockAgrees, Stage, Holding, TypeOK, Daemon,
    files, Advance, Drained
<1>10. ASSUME NEW d \in Daemons, CloseService(d) PROVE LockAgrees'
  BY <1>10, DaemonsAssumption DEF LockAgrees, Stage, Holding, TypeOK, Daemon,
    files, Advance, CloseService
<1>11. ASSUME NEW d \in Daemons, CleanupSocket(d) PROVE LockAgrees'
  BY <1>11, DaemonsAssumption DEF LockAgrees, Stage, Holding, TypeOK, Daemon,
    files, Advance, CleanupSocket
<1>12. ASSUME NEW d \in Daemons, CleanupPID(d) PROVE LockAgrees'
  BY <1>12, DaemonsAssumption DEF LockAgrees, Stage, Holding, TypeOK, Daemon,
    files, Advance, CleanupPID
<1>13. ASSUME NEW d \in Daemons, Unlock(d) PROVE LockAgrees'
  BY <1>13, DaemonsAssumption DEF LockAgrees, Stage, Holding, TypeOK, Daemon,
    files, Advance, Unlock
<1>14. ASSUME NEW d \in Daemons, BeginDrain(d) PROVE LockAgrees'
  BY <1>14, DaemonsAssumption DEF LockAgrees, Stage, Holding, TypeOK, Daemon,
    files, BeginDrain
<1>15. ASSUME NEW d \in Daemons, BeginShutdown(d) PROVE LockAgrees'
  BY <1>15, DaemonsAssumption DEF LockAgrees, Stage, Holding, TypeOK, Daemon,
    files, Lives, Ending, BeginShutdown
<1>16. ASSUME NEW d \in Daemons, GracefulStop(d) PROVE LockAgrees'
  BY <1>16, DaemonsAssumption DEF LockAgrees, Stage, Holding, TypeOK, Daemon,
    files, Lives, Ending, GracefulStop
<1>17. ASSUME NEW d \in Daemons, BeginReload(d) PROVE LockAgrees'
  BY <1>17, DaemonsAssumption DEF LockAgrees, Stage, Holding, TypeOK, Daemon,
    files, Lives, Ending, BeginReload
<1>18. ASSUME NEW d \in Daemons, FinishReload(d) PROVE LockAgrees'
  BY <1>18, DaemonsAssumption DEF LockAgrees, Stage, Holding, TypeOK, Daemon,
    files, Lives, Ending, FinishReload
<1>19. ASSUME NEW d \in Daemons, CancelAfterReload(d) PROVE LockAgrees'
  BY <1>19, DaemonsAssumption DEF LockAgrees, Stage, Holding, TypeOK, Daemon,
    files, Lives, Ending, CancelAfterReload
<1>20. ASSUME NEW d \in Daemons, ReloadEnds(d) PROVE LockAgrees'
  BY <1>20, DaemonsAssumption DEF LockAgrees, Stage, Holding, TypeOK, Daemon,
    files, Lives, Ending, ReloadEnds
<1>21. ASSUME NEW d \in Daemons, CallEnds(d) PROVE LockAgrees'
  BY <1>21, DaemonsAssumption DEF LockAgrees, Stage, Holding, TypeOK, Daemon,
    files, CallEnds
<1>22. ASSUME NEW d \in Daemons, Die(d), UNCHANGED <<pidFile, socket>>
       PROVE  LockAgrees'
  BY <1>22, DieStep, DaemonsAssumption DEF LockAgrees, Stage, Holding,
    TypeOK, files, DaemonType, Others, Flags
<1>23. ASSUME NEW d \in Daemons, AcquireLock(d) PROVE LockAgrees'
  <2>1. CASE lock = None /\ lock' = d /\ Advance(d, "lock", "check")
    BY <1>23, <2>1, AdvanceStep, DaemonsAssumption DEF LockAgrees, Stage,
      Holding, TypeOK, files, DaemonType, Advance, Stages, Starting,
      AcquireLock
  <2> QED BY <1>23, <1>22, <2>1 DEF AcquireLock
<1>24. ASSUME NEW d \in Daemons, Exit(d) \/ Crash(d) PROVE LockAgrees'
  BY <1>24, <1>22 DEF Exit, Crash
<1>25. ASSUME NEW d \in Daemons, Terminate(d), UNCHANGED <<pidFile, socket>>
       PROVE  LockAgrees'
  BY <1>25, <1>22, TerminateStep, DaemonsAssumption DEF LockAgrees, Stage,
    Holding, TypeOK, files, DaemonType, Others, Flags
<1>26. ASSUME NEW d \in Daemons, ReloadSignal(d), UNCHANGED files
       PROVE  LockAgrees'
  BY <1>26, DaemonsAssumption DEF LockAgrees, Stage, Holding, TypeOK, Daemon,
    files, DaemonType, ReloadSignal
<1>27. ASSUME NEW c \in Commands, Effect(c) PROVE LockAgrees'
  <2>1. CASE UNCHANGED <<files, daemon>>
    BY <2>1 DEF LockAgrees, Stage, Holding, TypeOK, files, DaemonType
  <2>2. CASE \E r \in {"ok", "error"} : Return(c, r)
    BY <2>2, ReturnStep, DaemonsAssumption DEF LockAgrees, Stage, Holding,
      TypeOK, files, DaemonType, CommandType, Flags
  <2>3. CASE \E to \in Places : Spawn(c, to)
    BY <2>3, SpawnStep, DaemonsAssumption DEF LockAgrees, Stage, Holding,
      TypeOK, files, DaemonType, CommandType, Others, Flags
  <2>4. CASE \E d \in Daemons :
               /\ Accepts(d) /\ UNCHANGED files
               /\ daemon' = [daemon EXCEPT ![d].context = "canceled"]
    BY <2>4, DaemonsAssumption DEF LockAgrees, Stage, Holding, TypeOK,
      Daemon, files, Accepts
  <2> QED BY <1>27, <1>25, <1>26, <2>1, <2>2, <2>3, <2>4 DEF Effect
<1>28. CASE UNCHANGED vars
  BY <1>28 DEF LockAgrees, Stage, Holding, TypeOK, files, DaemonType, vars
<1> QED
  BY <1>1, <1>2, <1>3, <1>4, <1>5, <1>6, <1>7, <1>8, <1>9, <1>10, <1>11,
     <1>12, <1>13, <1>14, <1>15, <1>16, <1>17, <1>18, <1>19, <1>20, <1>21,
     <1>22, <1>23, <1>24, <1>25, <1>26, <1>27, <1>28,
     ActEffect DEF Next, Main, Watch, Reload, RequestReload, Interrupt, IsRunning

(* Only who has the lock writes the PID file.                            *)
LEMMA PIDStep ==
  ASSUME TypeOK, LockAgrees, PIDAgrees, StopAgrees, [Next]_vars
  PROVE  PIDAgrees'
<1>1. ASSUME NEW d \in Daemons, Launch(d) PROVE PIDAgrees'
  BY <1>1, DaemonsAssumption DEF LockAgrees, PIDAgrees, Stage, Holding,
    Named, TypeOK, Daemon, files, Advance, Unused, Launch
<1>2. ASSUME NEW d \in Daemons, CheckRunning(d) PROVE PIDAgrees'
  BY <1>2, DaemonsAssumption DEF LockAgrees, PIDAgrees, Stage, Holding,
    Named, TypeOK, Daemon, files, Advance, CheckRunning
<1>3. ASSUME NEW d \in Daemons, CreatePID(d) PROVE PIDAgrees'
  BY <1>3, DaemonsAssumption DEF LockAgrees, PIDAgrees, Stage, Holding,
    Named, TypeOK, Daemon, files, Advance, CreatePID
<1>4. ASSUME NEW d \in Daemons, WritePID(d) PROVE PIDAgrees'
  BY <1>4, DaemonsAssumption DEF LockAgrees, PIDAgrees, Stage, Holding,
    Named, TypeOK, Daemon, files, Advance, WritePID
<1>5. ASSUME NEW d \in Daemons, Listen(d) PROVE PIDAgrees'
  BY <1>5, DaemonsAssumption DEF LockAgrees, PIDAgrees, Stage, Holding,
    Named, TypeOK, Daemon, files, Advance, Listen
<1>6. ASSUME NEW d \in Daemons, NewDaemonService(d) PROVE PIDAgrees'
  BY <1>6, DaemonsAssumption DEF LockAgrees, PIDAgrees, Stage, Holding,
    Named, TypeOK, Daemon, files, Advance, NewDaemonService
<1>7. ASSUME NEW d \in Daemons, ServeFails(d) PROVE PIDAgrees'
  BY <1>7, DaemonsAssumption DEF LockAgrees, PIDAgrees, Stage, Holding,
    Named, TypeOK, Daemon, files, Advance, ServeFails
<1>8. ASSUME NEW d \in Daemons, Stopped(d) PROVE PIDAgrees'
  BY <1>8, DaemonsAssumption DEF LockAgrees, PIDAgrees, Stage, Holding,
    Named, TypeOK, Daemon, files, Advance, Stopped
<1>9. ASSUME NEW d \in Daemons, Drained(d) PROVE PIDAgrees'
  BY <1>9, DaemonsAssumption DEF LockAgrees, PIDAgrees, Stage, Holding,
    Named, TypeOK, Daemon, files, Advance, Drained
<1>10. ASSUME NEW d \in Daemons, CloseService(d) PROVE PIDAgrees'
  BY <1>10, DaemonsAssumption DEF LockAgrees, PIDAgrees, Stage, Holding,
    Named, TypeOK, Daemon, files, Advance, CloseService
<1>11. ASSUME NEW d \in Daemons, CleanupSocket(d) PROVE PIDAgrees'
  BY <1>11, DaemonsAssumption DEF LockAgrees, PIDAgrees, Stage, Holding,
    Named, TypeOK, Daemon, files, Advance, CleanupSocket
<1>12. ASSUME NEW d \in Daemons, CleanupPID(d) PROVE PIDAgrees'
  BY <1>12, DaemonsAssumption DEF LockAgrees, PIDAgrees, Stage, Holding,
    Named, TypeOK, Daemon, files, Advance, CleanupPID
<1>13. ASSUME NEW d \in Daemons, Unlock(d) PROVE PIDAgrees'
  BY <1>13, DaemonsAssumption DEF LockAgrees, PIDAgrees, Stage, Holding,
    Named, TypeOK, Daemon, files, Advance, Unlock
<1>14. ASSUME NEW d \in Daemons, BeginDrain(d) PROVE PIDAgrees'
  BY <1>14, DaemonsAssumption DEF LockAgrees, PIDAgrees, Stage, Holding,
    Named, TypeOK, Daemon, files, BeginDrain
<1>15. ASSUME NEW d \in Daemons, BeginShutdown(d) PROVE PIDAgrees'
  BY <1>15, DaemonsAssumption DEF LockAgrees, PIDAgrees, Stage, Holding,
    Named, TypeOK, Daemon, files, Lives, Ending, BeginShutdown
<1>16. ASSUME NEW d \in Daemons, GracefulStop(d) PROVE PIDAgrees'
  BY <1>16, DaemonsAssumption DEF LockAgrees, PIDAgrees, Stage, Holding,
    Named, TypeOK, Daemon, files, Lives, Ending, GracefulStop
<1>17. ASSUME NEW d \in Daemons, BeginReload(d) PROVE PIDAgrees'
  BY <1>17, DaemonsAssumption DEF LockAgrees, PIDAgrees, Stage, Holding,
    Named, TypeOK, Daemon, files, Lives, Ending, BeginReload
<1>18. ASSUME NEW d \in Daemons, FinishReload(d) PROVE PIDAgrees'
  BY <1>18, DaemonsAssumption DEF LockAgrees, PIDAgrees, Stage, Holding,
    Named, TypeOK, Daemon, files, Lives, Ending, FinishReload
<1>19. ASSUME NEW d \in Daemons, CancelAfterReload(d) PROVE PIDAgrees'
  BY <1>19, DaemonsAssumption DEF LockAgrees, PIDAgrees, Stage, Holding,
    Named, TypeOK, Daemon, files, Lives, Ending, CancelAfterReload
<1>20. ASSUME NEW d \in Daemons, ReloadEnds(d) PROVE PIDAgrees'
  BY <1>20, DaemonsAssumption DEF LockAgrees, PIDAgrees, Stage, Holding,
    Named, TypeOK, Daemon, files, Lives, Ending, ReloadEnds
<1>21. ASSUME NEW d \in Daemons, CallEnds(d) PROVE PIDAgrees'
  BY <1>21, DaemonsAssumption DEF LockAgrees, PIDAgrees, Stage, Holding,
    Named, TypeOK, Daemon, files, CallEnds
<1>22. ASSUME NEW d \in Daemons, Die(d), UNCHANGED <<pidFile, socket>>
       PROVE  PIDAgrees'
  BY <1>22, DieStep, DaemonsAssumption DEF LockAgrees, PIDAgrees, Stage,
    Holding, Named, TypeOK, files, DaemonType, Others, Flags
<1>23. ASSUME NEW d \in Daemons, AcquireLock(d) PROVE PIDAgrees'
  <2>1. CASE lock = None /\ lock' = d /\ Advance(d, "lock", "check")
    BY <1>23, <2>1, AdvanceStep, DaemonsAssumption DEF LockAgrees, PIDAgrees,
      Stage, Holding, Named, TypeOK, files, DaemonType, Advance, Stages,
      Starting, AcquireLock
  <2> QED BY <1>23, <1>22, <2>1 DEF AcquireLock
<1>24. ASSUME NEW d \in Daemons, Exit(d) \/ Crash(d) PROVE PIDAgrees'
  BY <1>24, <1>22 DEF Exit, Crash
<1>25. ASSUME NEW d \in Daemons, Terminate(d), UNCHANGED <<pidFile, socket>>
       PROVE  PIDAgrees'
  BY <1>25, <1>22, TerminateStep, DaemonsAssumption DEF LockAgrees,
    PIDAgrees, Stage, Holding, Named, TypeOK, files, DaemonType, Others,
    Flags
<1>26. ASSUME NEW d \in Daemons, ReloadSignal(d), UNCHANGED files
       PROVE  PIDAgrees'
  BY <1>26, DaemonsAssumption DEF LockAgrees, PIDAgrees, Stage, Holding,
    Named, TypeOK, Daemon, files, DaemonType, ReloadSignal
<1>27. ASSUME NEW c \in Commands, Effect(c) PROVE PIDAgrees'
  <2>1. CASE UNCHANGED <<files, daemon>>
    BY <2>1 DEF LockAgrees, PIDAgrees, Stage, Holding, Named, TypeOK, files,
      DaemonType
  <2>2. CASE \E r \in {"ok", "error"} : Return(c, r)
    BY <2>2, ReturnStep, DaemonsAssumption DEF LockAgrees, PIDAgrees, Stage,
      Holding, Named, TypeOK, files, DaemonType, CommandType, Flags
  <2>3. CASE \E to \in Places : Spawn(c, to)
    BY <2>3, SpawnStep, DaemonsAssumption DEF LockAgrees, PIDAgrees, Stage,
      Holding, Named, TypeOK, files, DaemonType, CommandType, Others, Flags
  <2>4. CASE \E d \in Daemons :
               /\ Accepts(d) /\ UNCHANGED files
               /\ daemon' = [daemon EXCEPT ![d].context = "canceled"]
    BY <2>4, DaemonsAssumption DEF LockAgrees, PIDAgrees, Stage, Holding,
      Named, TypeOK, Daemon, files, Accepts
  <2> QED BY <1>27, <1>25, <1>26, <2>1, <2>2, <2>3, <2>4 DEF Effect
<1>28. CASE UNCHANGED vars
  BY <1>28 DEF LockAgrees, PIDAgrees, Stage, Holding, Named, TypeOK, files,
    DaemonType, vars
<1> QED
  BY <1>1, <1>2, <1>3, <1>4, <1>5, <1>6, <1>7, <1>8, <1>9, <1>10, <1>11,
     <1>12, <1>13, <1>14, <1>15, <1>16, <1>17, <1>18, <1>19, <1>20, <1>21,
     <1>22, <1>23, <1>24, <1>25, <1>26, <1>27, <1>28,
     ActEffect DEF Next, Main, Watch, Reload, RequestReload, Interrupt, IsRunning

(* Only who has the lock binds the socket or removes it.                 *)
LEMMA SocketStep ==
  ASSUME TypeOK, LockAgrees, SocketAgrees, StopAgrees, [Next]_vars
  PROVE  SocketAgrees'
<1>1. ASSUME NEW d \in Daemons, Launch(d) PROVE SocketAgrees'
  BY <1>1, DaemonsAssumption DEF LockAgrees, SocketAgrees, Stage, Holding,
    Listens, TypeOK, Daemon, files, Advance, Unused, Launch
<1>2. ASSUME NEW d \in Daemons, CheckRunning(d) PROVE SocketAgrees'
  BY <1>2, DaemonsAssumption DEF LockAgrees, SocketAgrees, Stage, Holding,
    Listens, TypeOK, Daemon, files, Advance, CheckRunning
<1>3. ASSUME NEW d \in Daemons, CreatePID(d) PROVE SocketAgrees'
  BY <1>3, DaemonsAssumption DEF LockAgrees, SocketAgrees, Stage, Holding,
    Listens, TypeOK, Daemon, files, Advance, CreatePID
<1>4. ASSUME NEW d \in Daemons, WritePID(d) PROVE SocketAgrees'
  BY <1>4, DaemonsAssumption DEF LockAgrees, SocketAgrees, Stage, Holding,
    Listens, TypeOK, Daemon, files, Advance, WritePID
<1>5. ASSUME NEW d \in Daemons, Listen(d) PROVE SocketAgrees'
  BY <1>5, DaemonsAssumption DEF LockAgrees, SocketAgrees, Stage, Holding,
    Listens, TypeOK, Daemon, files, Advance, Listen
<1>6. ASSUME NEW d \in Daemons, NewDaemonService(d) PROVE SocketAgrees'
  BY <1>6, DaemonsAssumption DEF LockAgrees, SocketAgrees, Stage, Holding,
    Listens, TypeOK, Daemon, files, Advance, NewDaemonService
<1>7. ASSUME NEW d \in Daemons, ServeFails(d) PROVE SocketAgrees'
  BY <1>7, DaemonsAssumption DEF LockAgrees, SocketAgrees, Stage, Holding,
    Listens, TypeOK, Daemon, files, Advance, ServeFails
<1>8. ASSUME NEW d \in Daemons, Stopped(d) PROVE SocketAgrees'
  BY <1>8, DaemonsAssumption DEF LockAgrees, SocketAgrees, Stage, Holding,
    Listens, TypeOK, Daemon, files, Advance, Stopped
<1>9. ASSUME NEW d \in Daemons, Drained(d) PROVE SocketAgrees'
  BY <1>9, DaemonsAssumption DEF LockAgrees, SocketAgrees, Stage, Holding,
    Listens, TypeOK, Daemon, files, Advance, Drained
<1>10. ASSUME NEW d \in Daemons, CloseService(d) PROVE SocketAgrees'
  BY <1>10, DaemonsAssumption DEF LockAgrees, SocketAgrees, Stage, Holding,
    Listens, TypeOK, Daemon, files, Advance, CloseService
<1>11. ASSUME NEW d \in Daemons, CleanupSocket(d) PROVE SocketAgrees'
  BY <1>11, DaemonsAssumption DEF LockAgrees, SocketAgrees, Stage, Holding,
    Listens, TypeOK, Daemon, files, Advance, CleanupSocket
<1>12. ASSUME NEW d \in Daemons, CleanupPID(d) PROVE SocketAgrees'
  BY <1>12, DaemonsAssumption DEF LockAgrees, SocketAgrees, Stage, Holding,
    Listens, TypeOK, Daemon, files, Advance, CleanupPID
<1>13. ASSUME NEW d \in Daemons, Unlock(d) PROVE SocketAgrees'
  BY <1>13, DaemonsAssumption DEF LockAgrees, SocketAgrees, Stage, Holding,
    Listens, TypeOK, Daemon, files, Advance, Unlock
<1>14. ASSUME NEW d \in Daemons, BeginDrain(d) PROVE SocketAgrees'
  BY <1>14, DaemonsAssumption DEF LockAgrees, SocketAgrees, Stage, Holding,
    Listens, TypeOK, Daemon, files, BeginDrain
<1>15. ASSUME NEW d \in Daemons, BeginShutdown(d) PROVE SocketAgrees'
  BY <1>15, DaemonsAssumption DEF LockAgrees, SocketAgrees, Stage, Holding,
    Listens, TypeOK, Daemon, files, Lives, Ending, BeginShutdown
<1>16. ASSUME NEW d \in Daemons, GracefulStop(d) PROVE SocketAgrees'
  BY <1>16, DaemonsAssumption DEF LockAgrees, SocketAgrees, Stage, Holding,
    Listens, TypeOK, Daemon, files, Lives, Ending, GracefulStop
<1>17. ASSUME NEW d \in Daemons, BeginReload(d) PROVE SocketAgrees'
  BY <1>17, DaemonsAssumption DEF LockAgrees, SocketAgrees, Stage, Holding,
    Listens, TypeOK, Daemon, files, Lives, Ending, BeginReload
<1>18. ASSUME NEW d \in Daemons, FinishReload(d) PROVE SocketAgrees'
  BY <1>18, DaemonsAssumption DEF LockAgrees, SocketAgrees, Stage, Holding,
    Listens, TypeOK, Daemon, files, Lives, Ending, FinishReload
<1>19. ASSUME NEW d \in Daemons, CancelAfterReload(d) PROVE SocketAgrees'
  BY <1>19, DaemonsAssumption DEF LockAgrees, SocketAgrees, Stage, Holding,
    Listens, TypeOK, Daemon, files, Lives, Ending, CancelAfterReload
<1>20. ASSUME NEW d \in Daemons, ReloadEnds(d) PROVE SocketAgrees'
  BY <1>20, DaemonsAssumption DEF LockAgrees, SocketAgrees, Stage, Holding,
    Listens, TypeOK, Daemon, files, Lives, Ending, ReloadEnds
<1>21. ASSUME NEW d \in Daemons, CallEnds(d) PROVE SocketAgrees'
  BY <1>21, DaemonsAssumption DEF LockAgrees, SocketAgrees, Stage, Holding,
    Listens, TypeOK, Daemon, files, CallEnds
<1>22. ASSUME NEW d \in Daemons, Die(d), UNCHANGED <<pidFile, socket>>
       PROVE  SocketAgrees'
  BY <1>22, DieStep, DaemonsAssumption DEF LockAgrees, SocketAgrees, Stage,
    Holding, Listens, TypeOK, files, DaemonType, Others, Flags
<1>23. ASSUME NEW d \in Daemons, AcquireLock(d) PROVE SocketAgrees'
  <2>1. CASE lock = None /\ lock' = d /\ Advance(d, "lock", "check")
    BY <1>23, <2>1, AdvanceStep, DaemonsAssumption DEF LockAgrees,
      SocketAgrees, Stage, Holding, Listens, TypeOK, files, DaemonType,
      Advance, Stages, Starting, AcquireLock
  <2> QED BY <1>23, <1>22, <2>1 DEF AcquireLock
<1>24. ASSUME NEW d \in Daemons, Exit(d) \/ Crash(d) PROVE SocketAgrees'
  BY <1>24, <1>22 DEF Exit, Crash
<1>25. ASSUME NEW d \in Daemons, Terminate(d), UNCHANGED <<pidFile, socket>>
       PROVE  SocketAgrees'
  BY <1>25, <1>22, TerminateStep, DaemonsAssumption DEF LockAgrees,
    SocketAgrees, Stage, Holding, Listens, TypeOK, files, DaemonType, Others,
    Flags
<1>26. ASSUME NEW d \in Daemons, ReloadSignal(d), UNCHANGED files
       PROVE  SocketAgrees'
  BY <1>26, DaemonsAssumption DEF LockAgrees, SocketAgrees, Stage, Holding,
    Listens, TypeOK, Daemon, files, DaemonType, ReloadSignal
<1>27. ASSUME NEW c \in Commands, Effect(c) PROVE SocketAgrees'
  <2>1. CASE UNCHANGED <<files, daemon>>
    BY <2>1 DEF LockAgrees, SocketAgrees, Stage, Holding, Listens, TypeOK,
      files, DaemonType
  <2>2. CASE \E r \in {"ok", "error"} : Return(c, r)
    BY <2>2, ReturnStep, DaemonsAssumption DEF LockAgrees, SocketAgrees,
      Stage, Holding, Listens, TypeOK, files, DaemonType, CommandType, Flags
  <2>3. CASE \E to \in Places : Spawn(c, to)
    BY <2>3, SpawnStep, DaemonsAssumption DEF LockAgrees, SocketAgrees,
      Stage, Holding, Listens, TypeOK, files, DaemonType, CommandType,
      Others, Flags
  <2>4. CASE \E d \in Daemons :
               /\ Accepts(d) /\ UNCHANGED files
               /\ daemon' = [daemon EXCEPT ![d].context = "canceled"]
    BY <2>4, DaemonsAssumption DEF LockAgrees, SocketAgrees, Stage, Holding,
      Listens, TypeOK, Daemon, files, Accepts
  <2> QED BY <1>27, <1>25, <1>26, <2>1, <2>2, <2>3, <2>4 DEF Effect
<1>28. CASE UNCHANGED vars
  BY <1>28 DEF LockAgrees, SocketAgrees, Stage, Holding, Listens, TypeOK,
    files, DaemonType, vars
<1> QED
  BY <1>1, <1>2, <1>3, <1>4, <1>5, <1>6, <1>7, <1>8, <1>9, <1>10, <1>11,
     <1>12, <1>13, <1>14, <1>15, <1>16, <1>17, <1>18, <1>19, <1>20, <1>21,
     <1>22, <1>23, <1>24, <1>25, <1>26, <1>27, <1>28,
     ActEffect DEF Next, Main, Watch, Reload, RequestReload, Interrupt, IsRunning

(* The barrier is down before the drain ends, and stays down.            *)
LEMMA BarrierStep ==
  ASSUME TypeOK, BarrierHolds, StopAgrees, [Next]_vars
  PROVE  BarrierHolds'
<1>1. ASSUME NEW d \in Daemons, Launch(d) PROVE BarrierHolds'
  BY <1>1, DaemonsAssumption DEF BarrierHolds, Stage, TypeOK, Daemon, files,
    Advance, Unused, Launch
<1>2. ASSUME NEW d \in Daemons, CheckRunning(d) PROVE BarrierHolds'
  BY <1>2, DaemonsAssumption DEF BarrierHolds, Stage, TypeOK, Daemon, files,
    Advance, CheckRunning
<1>3. ASSUME NEW d \in Daemons, CreatePID(d) PROVE BarrierHolds'
  BY <1>3, DaemonsAssumption DEF BarrierHolds, Stage, TypeOK, Daemon, files,
    Advance, CreatePID
<1>4. ASSUME NEW d \in Daemons, WritePID(d) PROVE BarrierHolds'
  BY <1>4, DaemonsAssumption DEF BarrierHolds, Stage, TypeOK, Daemon, files,
    Advance, WritePID
<1>5. ASSUME NEW d \in Daemons, Listen(d) PROVE BarrierHolds'
  BY <1>5, DaemonsAssumption DEF BarrierHolds, Stage, TypeOK, Daemon, files,
    Advance, Listen
<1>6. ASSUME NEW d \in Daemons, NewDaemonService(d) PROVE BarrierHolds'
  BY <1>6, DaemonsAssumption DEF BarrierHolds, Stage, TypeOK, Daemon, files,
    Advance, NewDaemonService
<1>7. ASSUME NEW d \in Daemons, ServeFails(d) PROVE BarrierHolds'
  BY <1>7, DaemonsAssumption DEF BarrierHolds, Stage, TypeOK, Daemon, files,
    Advance, ServeFails
<1>8. ASSUME NEW d \in Daemons, Stopped(d) PROVE BarrierHolds'
  BY <1>8, DaemonsAssumption DEF BarrierHolds, Stage, TypeOK, Daemon, files,
    Advance, Stopped
<1>9. ASSUME NEW d \in Daemons, Drained(d) PROVE BarrierHolds'
  BY <1>9, DaemonsAssumption DEF BarrierHolds, Stage, TypeOK, Daemon, files,
    Advance, Drained
<1>10. ASSUME NEW d \in Daemons, CloseService(d) PROVE BarrierHolds'
  BY <1>10, DaemonsAssumption DEF BarrierHolds, Stage, TypeOK, Daemon, files,
    Advance, CloseService
<1>11. ASSUME NEW d \in Daemons, CleanupSocket(d) PROVE BarrierHolds'
  BY <1>11, DaemonsAssumption DEF BarrierHolds, Stage, TypeOK, Daemon, files,
    Advance, CleanupSocket
<1>12. ASSUME NEW d \in Daemons, CleanupPID(d) PROVE BarrierHolds'
  BY <1>12, DaemonsAssumption DEF BarrierHolds, Stage, TypeOK, Daemon, files,
    Advance, CleanupPID
<1>13. ASSUME NEW d \in Daemons, Unlock(d) PROVE BarrierHolds'
  BY <1>13, DaemonsAssumption DEF BarrierHolds, Stage, TypeOK, Daemon, files,
    Advance, Unlock
<1>14. ASSUME NEW d \in Daemons, BeginDrain(d) PROVE BarrierHolds'
  BY <1>14, DaemonsAssumption DEF BarrierHolds, Stage, TypeOK, Daemon, files,
    BeginDrain
<1>15. ASSUME NEW d \in Daemons, BeginShutdown(d) PROVE BarrierHolds'
  BY <1>15, DaemonsAssumption DEF BarrierHolds, Stage, TypeOK, Daemon, files,
    Lives, Ending, BeginShutdown
<1>16. ASSUME NEW d \in Daemons, GracefulStop(d) PROVE BarrierHolds'
  BY <1>16, DaemonsAssumption DEF BarrierHolds, Stage, TypeOK, Daemon, files,
    Lives, Ending, GracefulStop
<1>17. ASSUME NEW d \in Daemons, BeginReload(d) PROVE BarrierHolds'
  BY <1>17, DaemonsAssumption DEF BarrierHolds, Stage, TypeOK, Daemon, files,
    Lives, Ending, BeginReload
<1>18. ASSUME NEW d \in Daemons, FinishReload(d) PROVE BarrierHolds'
  BY <1>18, DaemonsAssumption DEF BarrierHolds, Stage, TypeOK, Daemon, files,
    Lives, Ending, FinishReload
<1>19. ASSUME NEW d \in Daemons, CancelAfterReload(d) PROVE BarrierHolds'
  BY <1>19, DaemonsAssumption DEF BarrierHolds, Stage, TypeOK, Daemon, files,
    Lives, Ending, CancelAfterReload
<1>20. ASSUME NEW d \in Daemons, ReloadEnds(d) PROVE BarrierHolds'
  BY <1>20, DaemonsAssumption DEF BarrierHolds, Stage, TypeOK, Daemon, files,
    Lives, Ending, ReloadEnds
<1>21. ASSUME NEW d \in Daemons, CallEnds(d) PROVE BarrierHolds'
  BY <1>21, DaemonsAssumption DEF BarrierHolds, Stage, TypeOK, Daemon, files,
    CallEnds
<1>22. ASSUME NEW d \in Daemons, Die(d), UNCHANGED <<pidFile, socket>>
       PROVE  BarrierHolds'
  BY <1>22, DieStep, DaemonsAssumption DEF BarrierHolds, Stage, TypeOK,
    files, DaemonType, Others, Flags
<1>23. ASSUME NEW d \in Daemons, AcquireLock(d) PROVE BarrierHolds'
  <2>1. CASE lock = None /\ lock' = d /\ Advance(d, "lock", "check")
    BY <1>23, <2>1, AdvanceStep, DaemonsAssumption DEF BarrierHolds, Stage,
      TypeOK, files, DaemonType, Advance, Stages, Starting, AcquireLock
  <2> QED BY <1>23, <1>22, <2>1 DEF AcquireLock
<1>24. ASSUME NEW d \in Daemons, Exit(d) \/ Crash(d) PROVE BarrierHolds'
  BY <1>24, <1>22 DEF Exit, Crash
<1>25. ASSUME NEW d \in Daemons, Terminate(d), UNCHANGED <<pidFile, socket>>
       PROVE  BarrierHolds'
  BY <1>25, <1>22, TerminateStep, DaemonsAssumption DEF BarrierHolds, Stage,
    TypeOK, files, DaemonType, Others, Flags
<1>26. ASSUME NEW d \in Daemons, ReloadSignal(d), UNCHANGED files
       PROVE  BarrierHolds'
  BY <1>26, DaemonsAssumption DEF BarrierHolds, Stage, TypeOK, Daemon, files,
    DaemonType, ReloadSignal
<1>27. ASSUME NEW c \in Commands, Effect(c) PROVE BarrierHolds'
  <2>1. CASE UNCHANGED <<files, daemon>>
    BY <2>1 DEF BarrierHolds, Stage, TypeOK, files, DaemonType
  <2>2. CASE \E r \in {"ok", "error"} : Return(c, r)
    BY <2>2, ReturnStep, DaemonsAssumption DEF BarrierHolds, Stage, TypeOK,
      files, DaemonType, CommandType, Flags
  <2>3. CASE \E to \in Places : Spawn(c, to)
    BY <2>3, SpawnStep, DaemonsAssumption DEF BarrierHolds, Stage, TypeOK,
      files, DaemonType, CommandType, Others, Flags
  <2>4. CASE \E d \in Daemons :
               /\ Accepts(d) /\ UNCHANGED files
               /\ daemon' = [daemon EXCEPT ![d].context = "canceled"]
    BY <2>4, DaemonsAssumption DEF BarrierHolds, Stage, TypeOK, Daemon,
      files, Accepts
  <2> QED BY <1>27, <1>25, <1>26, <2>1, <2>2, <2>3, <2>4 DEF Effect
<1>28. CASE UNCHANGED vars
  BY <1>28 DEF BarrierHolds, Stage, TypeOK, files, DaemonType, vars
<1> QED
  BY <1>1, <1>2, <1>3, <1>4, <1>5, <1>6, <1>7, <1>8, <1>9, <1>10, <1>11,
     <1>12, <1>13, <1>14, <1>15, <1>16, <1>17, <1>18, <1>19, <1>20, <1>21,
     <1>22, <1>23, <1>24, <1>25, <1>26, <1>27, <1>28,
     ActEffect DEF Next, Main, Watch, Reload, RequestReload, Interrupt, IsRunning

(* The daemons keep their type.                                          *)
LEMMA DaemonStep ==
  ASSUME TypeOK, StopAgrees, [Next]_vars
  PROVE  DaemonType'
<1>1. ASSUME NEW d \in Daemons, Launch(d) PROVE DaemonType'
  BY <1>1, AdvanceStep DEF TypeOK, DaemonType, Stages, Starting, Launch
<1>2. ASSUME NEW d \in Daemons, CheckRunning(d) PROVE DaemonType'
  BY <1>2, AdvanceStep DEF TypeOK, DaemonType, Stages, Starting, Ending,
    CheckRunning
<1>3. ASSUME NEW d \in Daemons, CreatePID(d) PROVE DaemonType'
  BY <1>3, AdvanceStep DEF TypeOK, DaemonType, Stages, Starting, Ending,
    CreatePID
<1>4. ASSUME NEW d \in Daemons, WritePID(d) PROVE DaemonType'
  BY <1>4, AdvanceStep DEF TypeOK, DaemonType, Stages, Starting, Ending,
    WritePID
<1>5. ASSUME NEW d \in Daemons, Listen(d) PROVE DaemonType'
  BY <1>5, AdvanceStep DEF TypeOK, DaemonType, Stages, Starting, Ending,
    Listen
<1>6. ASSUME NEW d \in Daemons, NewDaemonService(d) PROVE DaemonType'
  BY <1>6, AdvanceStep DEF TypeOK, DaemonType, Stages, Starting, Ending,
    NewDaemonService
<1>7. ASSUME NEW d \in Daemons, ServeFails(d) PROVE DaemonType'
  BY <1>7, AdvanceStep DEF TypeOK, DaemonType, Stages, Starting, Ending,
    ServeFails
<1>8. ASSUME NEW d \in Daemons, Stopped(d) PROVE DaemonType'
  BY <1>8, AdvanceStep DEF TypeOK, DaemonType, Stages, Starting, Ending,
    Stopped
<1>9. ASSUME NEW d \in Daemons, Drained(d) PROVE DaemonType'
  BY <1>9, AdvanceStep DEF TypeOK, DaemonType, Stages, Starting, Ending,
    Drained
<1>10. ASSUME NEW d \in Daemons, CloseService(d) PROVE DaemonType'
  BY <1>10, AdvanceStep DEF TypeOK, DaemonType, Stages, Starting, Ending,
    CloseService
<1>11. ASSUME NEW d \in Daemons, CleanupSocket(d) PROVE DaemonType'
  BY <1>11, AdvanceStep DEF TypeOK, DaemonType, Stages, Starting, Ending,
    CleanupSocket
<1>12. ASSUME NEW d \in Daemons, CleanupPID(d) PROVE DaemonType'
  BY <1>12, AdvanceStep DEF TypeOK, DaemonType, Stages, Starting, Ending,
    CleanupPID
<1>13. ASSUME NEW d \in Daemons, Unlock(d) PROVE DaemonType'
  BY <1>13, AdvanceStep DEF TypeOK, DaemonType, Stages, Starting, Ending,
    Unlock
<1>14. ASSUME NEW d \in Daemons, BeginDrain(d) PROVE DaemonType'
  <2>1. [daemon[d] EXCEPT !.closing = TRUE, !.context = "canceled"] \in Daemon
    BY DEF TypeOK, Daemon
  <2> QED BY <1>14, <2>1, UpdateType DEF TypeOK, DaemonType, BeginDrain
<1>15. ASSUME NEW d \in Daemons, BeginShutdown(d) PROVE DaemonType'
  <2>1. [daemon[d] EXCEPT !.closing = TRUE, !.context = "canceled",
                      !.watch = "barrier"] \in Daemon
    BY DEF TypeOK, Daemon
  <2> QED BY <1>15, <2>1, UpdateType DEF TypeOK, DaemonType, BeginShutdown
<1>16. ASSUME NEW d \in Daemons, GracefulStop(d) PROVE DaemonType'
  <2>1. PICK calls \in BOOLEAN :
          daemon' = [daemon EXCEPT ![d].watch = "graceful", ![d].busy = calls]
    BY <1>16 DEF GracefulStop
  <2>2. [daemon[d] EXCEPT !.watch = "graceful", !.busy = calls] \in Daemon
    BY DEF TypeOK, Daemon
  <2> QED BY <2>1, <2>2, UpdateType DEF TypeOK, DaemonType
<1>17. ASSUME NEW d \in Daemons, BeginReload(d) PROVE DaemonType'
  BY <1>17, DaemonsAssumption DEF DaemonType, TypeOK, Daemon, files, Lives,
    Ending, BeginReload
<1>18. ASSUME NEW d \in Daemons, FinishReload(d) PROVE DaemonType'
  BY <1>18, DaemonsAssumption DEF DaemonType, TypeOK, Daemon, files, Lives,
    Ending, FinishReload
<1>19. ASSUME NEW d \in Daemons, CancelAfterReload(d) PROVE DaemonType'
  <2>1. [daemon[d] EXCEPT !.reload = "end", !.context = "canceled"] \in Daemon
    BY DEF TypeOK, Daemon
  <2> QED BY <1>19, <2>1, UpdateType DEF TypeOK, DaemonType, CancelAfterReload
<1>20. ASSUME NEW d \in Daemons, ReloadEnds(d) PROVE DaemonType'
  BY <1>20, DaemonsAssumption DEF DaemonType, TypeOK, Daemon, files, Lives,
    Ending, ReloadEnds
<1>21. ASSUME NEW d \in Daemons, CallEnds(d) PROVE DaemonType'
  <2>1. [daemon[d] EXCEPT !.busy = FALSE] \in Daemon
    BY DEF TypeOK, Daemon
  <2> QED BY <1>21, <2>1, UpdateType DEF TypeOK, DaemonType, CallEnds
<1>22. ASSUME NEW d \in Daemons, Die(d), UNCHANGED <<pidFile, socket>>
       PROVE  DaemonType'
  BY <1>22, DieStep, DaemonsAssumption DEF DaemonType, TypeOK, files, Others,
    Flags
<1>23. ASSUME NEW d \in Daemons, AcquireLock(d) PROVE DaemonType'
  <2>1. CASE lock = None /\ lock' = d /\ Advance(d, "lock", "check")
    BY <1>23, <2>1, AdvanceStep, DaemonsAssumption DEF DaemonType, TypeOK,
      files, Advance, Stages, Starting, AcquireLock
  <2> QED BY <1>23, <1>22, <2>1 DEF AcquireLock
<1>24. ASSUME NEW d \in Daemons, Exit(d) \/ Crash(d) PROVE DaemonType'
  BY <1>24, <1>22 DEF Exit, Crash
<1>25. ASSUME NEW d \in Daemons, Terminate(d), UNCHANGED <<pidFile, socket>>
       PROVE  DaemonType'
  BY <1>25, <1>22, TerminateStep, DaemonsAssumption DEF DaemonType, TypeOK,
    files, Others, Flags
<1>26. ASSUME NEW d \in Daemons, ReloadSignal(d), UNCHANGED files
       PROVE  DaemonType'
  BY <1>26, DaemonsAssumption DEF DaemonType, TypeOK, Daemon, files,
    ReloadSignal
<1>27. ASSUME NEW c \in Commands, Effect(c) PROVE DaemonType'
  <2>1. CASE UNCHANGED <<files, daemon>>
    BY <2>1 DEF DaemonType, TypeOK, files
  <2>2. CASE \E r \in {"ok", "error"} : Return(c, r)
    BY <2>2, ReturnStep, DaemonsAssumption DEF DaemonType, TypeOK, files,
      CommandType, Flags
  <2>3. CASE \E to \in Places : Spawn(c, to)
    BY <2>3, SpawnStep, DaemonsAssumption DEF DaemonType, TypeOK, files,
      CommandType, Others, Flags
  <2>4. CASE \E d \in Daemons :
               /\ Accepts(d) /\ UNCHANGED files
               /\ daemon' = [daemon EXCEPT ![d].context = "canceled"]
    BY <2>4, DaemonsAssumption DEF DaemonType, TypeOK, Daemon, files, Accepts
  <2> QED BY <1>27, <1>25, <1>26, <2>1, <2>2, <2>3, <2>4 DEF Effect
<1>28. CASE UNCHANGED vars
  BY <1>28 DEF DaemonType, TypeOK, files, vars
<1> QED
  BY <1>1, <1>2, <1>3, <1>4, <1>5, <1>6, <1>7, <1>8, <1>9, <1>10, <1>11,
     <1>12, <1>13, <1>14, <1>15, <1>16, <1>17, <1>18, <1>19, <1>20, <1>21,
     <1>22, <1>23, <1>24, <1>25, <1>26, <1>27, <1>28,
     ActEffect DEF Next, Main, Watch, Reload, RequestReload, Interrupt, IsRunning

(* Who has ended does not come back.                                     *)
LEMMA GoneStep ==
  ASSUME TypeOK, StopAgrees, [Next]_vars
  PROVE  GoneStays
<1>1. ASSUME NEW d \in Daemons, Launch(d) PROVE GoneStays
  BY <1>1, DaemonsAssumption DEF GoneStays, Stage, TypeOK, Daemon, files,
    Advance, Unused, Launch
<1>2. ASSUME NEW d \in Daemons, CheckRunning(d) PROVE GoneStays
  BY <1>2, DaemonsAssumption DEF GoneStays, Stage, TypeOK, Daemon, files,
    Advance, CheckRunning
<1>3. ASSUME NEW d \in Daemons, CreatePID(d) PROVE GoneStays
  BY <1>3, DaemonsAssumption DEF GoneStays, Stage, TypeOK, Daemon, files,
    Advance, CreatePID
<1>4. ASSUME NEW d \in Daemons, WritePID(d) PROVE GoneStays
  BY <1>4, DaemonsAssumption DEF GoneStays, Stage, TypeOK, Daemon, files,
    Advance, WritePID
<1>5. ASSUME NEW d \in Daemons, Listen(d) PROVE GoneStays
  BY <1>5, DaemonsAssumption DEF GoneStays, Stage, TypeOK, Daemon, files,
    Advance, Listen
<1>6. ASSUME NEW d \in Daemons, NewDaemonService(d) PROVE GoneStays
  BY <1>6, DaemonsAssumption DEF GoneStays, Stage, TypeOK, Daemon, files,
    Advance, NewDaemonService
<1>7. ASSUME NEW d \in Daemons, ServeFails(d) PROVE GoneStays
  BY <1>7, DaemonsAssumption DEF GoneStays, Stage, TypeOK, Daemon, files,
    Advance, ServeFails
<1>8. ASSUME NEW d \in Daemons, Stopped(d) PROVE GoneStays
  BY <1>8, DaemonsAssumption DEF GoneStays, Stage, TypeOK, Daemon, files,
    Advance, Stopped
<1>9. ASSUME NEW d \in Daemons, Drained(d) PROVE GoneStays
  BY <1>9, DaemonsAssumption DEF GoneStays, Stage, TypeOK, Daemon, files,
    Advance, Drained
<1>10. ASSUME NEW d \in Daemons, CloseService(d) PROVE GoneStays
  BY <1>10, DaemonsAssumption DEF GoneStays, Stage, TypeOK, Daemon, files,
    Advance, CloseService
<1>11. ASSUME NEW d \in Daemons, CleanupSocket(d) PROVE GoneStays
  BY <1>11, DaemonsAssumption DEF GoneStays, Stage, TypeOK, Daemon, files,
    Advance, CleanupSocket
<1>12. ASSUME NEW d \in Daemons, CleanupPID(d) PROVE GoneStays
  BY <1>12, DaemonsAssumption DEF GoneStays, Stage, TypeOK, Daemon, files,
    Advance, CleanupPID
<1>13. ASSUME NEW d \in Daemons, Unlock(d) PROVE GoneStays
  BY <1>13, DaemonsAssumption DEF GoneStays, Stage, TypeOK, Daemon, files,
    Advance, Unlock
<1>14. ASSUME NEW d \in Daemons, BeginDrain(d) PROVE GoneStays
  BY <1>14, DaemonsAssumption DEF GoneStays, Stage, TypeOK, Daemon, files,
    BeginDrain
<1>15. ASSUME NEW d \in Daemons, BeginShutdown(d) PROVE GoneStays
  BY <1>15, DaemonsAssumption DEF GoneStays, Stage, TypeOK, Daemon, files,
    Lives, Ending, BeginShutdown
<1>16. ASSUME NEW d \in Daemons, GracefulStop(d) PROVE GoneStays
  BY <1>16, DaemonsAssumption DEF GoneStays, Stage, TypeOK, Daemon, files,
    Lives, Ending, GracefulStop
<1>17. ASSUME NEW d \in Daemons, BeginReload(d) PROVE GoneStays
  BY <1>17, DaemonsAssumption DEF GoneStays, Stage, TypeOK, Daemon, files,
    Lives, Ending, BeginReload
<1>18. ASSUME NEW d \in Daemons, FinishReload(d) PROVE GoneStays
  BY <1>18, DaemonsAssumption DEF GoneStays, Stage, TypeOK, Daemon, files,
    Lives, Ending, FinishReload
<1>19. ASSUME NEW d \in Daemons, CancelAfterReload(d) PROVE GoneStays
  BY <1>19, DaemonsAssumption DEF GoneStays, Stage, TypeOK, Daemon, files,
    Lives, Ending, CancelAfterReload
<1>20. ASSUME NEW d \in Daemons, ReloadEnds(d) PROVE GoneStays
  BY <1>20, DaemonsAssumption DEF GoneStays, Stage, TypeOK, Daemon, files,
    Lives, Ending, ReloadEnds
<1>21. ASSUME NEW d \in Daemons, CallEnds(d) PROVE GoneStays
  BY <1>21, DaemonsAssumption DEF GoneStays, Stage, TypeOK, Daemon, files,
    CallEnds
<1>22. ASSUME NEW d \in Daemons, Die(d), UNCHANGED <<pidFile, socket>>,
              Stage(d) \notin {"none", "gone"}
       PROVE  GoneStays
  BY <1>22, DieStep, DaemonsAssumption DEF GoneStays, Stage, TypeOK, files,
    DaemonType, Others, Flags
<1>23. ASSUME NEW d \in Daemons, AcquireLock(d) PROVE GoneStays
  <2>1. CASE lock = None /\ lock' = d /\ Advance(d, "lock", "check")
    BY <1>23, <2>1, AdvanceStep, DaemonsAssumption DEF GoneStays, Stage,
      TypeOK, files, DaemonType, Advance, Stages, Starting, AcquireLock
  <2> QED BY <1>23, <1>22, <2>1 DEF AcquireLock, Stage
<1>24. ASSUME NEW d \in Daemons, Exit(d) \/ Crash(d) PROVE GoneStays
  BY <1>24, <1>22 DEF Exit, Crash, Stage
<1>25. ASSUME NEW d \in Daemons, Terminate(d), UNCHANGED <<pidFile, socket>>
       PROVE  GoneStays
  BY <1>25, <1>22, TerminateStep, DaemonsAssumption DEF GoneStays, Stage,
    TypeOK, files, DaemonType, Others, Flags, Starting, Ending
<1>26. ASSUME NEW d \in Daemons, ReloadSignal(d), UNCHANGED files
       PROVE  GoneStays
  BY <1>26, DaemonsAssumption DEF GoneStays, Stage, TypeOK, Daemon, files,
    DaemonType, ReloadSignal
<1>27. ASSUME NEW c \in Commands, Effect(c) PROVE GoneStays
  <2>1. CASE UNCHANGED <<files, daemon>>
    BY <2>1 DEF GoneStays, Stage, TypeOK, files, DaemonType
  <2>2. CASE \E r \in {"ok", "error"} : Return(c, r)
    BY <2>2, ReturnStep, DaemonsAssumption DEF GoneStays, Stage, TypeOK,
      files, DaemonType, CommandType, Flags
  <2>3. CASE \E to \in Places : Spawn(c, to)
    BY <2>3, SpawnStep, DaemonsAssumption DEF GoneStays, Stage, TypeOK,
      files, DaemonType, CommandType, Others, Flags
  <2>4. CASE \E d \in Daemons :
               /\ Accepts(d) /\ UNCHANGED files
               /\ daemon' = [daemon EXCEPT ![d].context = "canceled"]
    BY <2>4, DaemonsAssumption DEF GoneStays, Stage, TypeOK, Daemon, files,
      Accepts
  <2> QED BY <1>27, <1>25, <1>26, <2>1, <2>2, <2>3, <2>4 DEF Effect
<1>28. CASE UNCHANGED vars
  BY <1>28 DEF GoneStays, Stage, TypeOK, files, DaemonType, vars
<1> QED
  BY <1>1, <1>2, <1>3, <1>4, <1>5, <1>6, <1>7, <1>8, <1>9, <1>10, <1>11,
     <1>12, <1>13, <1>14, <1>15, <1>16, <1>17, <1>18, <1>19, <1>20, <1>21,
     <1>22, <1>23, <1>24, <1>25, <1>26, <1>27, <1>28,
     ActEffect DEF Next, Main, Watch, Reload, RequestReload, Interrupt, IsRunning

(* A command that stays where it is keeps to its path.                   *)
LEMMA KeepsPath ==
  ASSUME TypeOK, GoneStays, NEW c \in Commands, OnPath(c), command'[c] = command[c]
  PROVE  OnPath(c)'
<1>1. command[c].old \in Daemons \cup {None}
  BY DEF TypeOK, Command
<1>2. CASE command[c].old = None
  BY <1>2 DEF OnPath
<1>3. CASE command[c].old \in Daemons
  BY <1>3 DEF OnPath, GoneStays
<1> QED BY <1>1, <1>2, <1>3

(* One that goes on does so when it has moved to a place on its path.    *)
LEMMA MovesOnPath ==
  ASSUME TypeOK, GoneStays, StopAgrees, NEW c \in Commands, NEW to \in Places,
         Goto(c, to), command[c].at \in Places \ {"idle"},
         command[c].kind \in {"stop", "restart"} => to \in Stopping \cup {"start", "ready"},
         to \in Stopping
           => to # "capture" /\ command[c].at \in Stopping \ {"capture"},
         to \in {"start", "ready", "reconcile"} /\ command[c].old # None
           => \/ command[c].at \in {"start", "ready", "reconcile"}
              \/ ~Running(command[c].old)
  PROVE  CommandType' /\ StopAgrees'
<1>1. /\ CommandType'
      /\ command'[c].at = to /\ command'[c].kind = command[c].kind
      /\ command'[c].old = command[c].old
      /\ \A b \in Commands \ {c} : command'[b] = command[b]
  BY GotoStep DEF TypeOK, CommandType
<1>2. OnPath(c) /\ command[c].old \in Daemons \cup {None}
  BY DEF StopAgrees, TypeOK, Command
<1>3. command[c].old # None => daemon'[command[c].old].at # "none"
  BY <1>2 DEF OnPath, GoneStays, Stage
<1>4. command[c].old # None /\ to \in {"start", "ready", "reconcile"}
        => daemon'[command[c].old].at = "gone"
  BY <1>2 DEF OnPath, GoneStays, Running, Stage
<1>5. OnPath(c)'
  BY <1>1, <1>2, <1>3, <1>4 DEF OnPath, Stage
<1>6. \A b \in Commands \ {c} : OnPath(b)'
  BY <1>1, KeepsPath DEF StopAgrees
<1> QED BY <1>1, <1>5, <1>6 DEF StopAgrees

(* One that begins or ends forgets the process it found.                 *)
LEMMA AnewOnPath ==
  ASSUME TypeOK, GoneStays, StopAgrees, NEW c \in Commands, NEW s \in Command,
         command' = [command EXCEPT ![c] = s], s.old = None,
         s.at \notin Stopping \ {"capture"},
         s.kind \in {"stop", "restart"} <=> s.at = "capture"
  PROVE  CommandType' /\ StopAgrees'
<1>1. /\ CommandType' /\ command'[c] = s
      /\ \A b \in Commands \ {c} : command'[b] = command[b]
  BY DEF TypeOK, CommandType
<1>2. OnPath(c)'
  BY <1>1 DEF OnPath, Stopping
<1>3. \A b \in Commands \ {c} : OnPath(b)'
  BY <1>1, KeepsPath DEF StopAgrees
<1> QED BY <1>1, <1>2, <1>3 DEF StopAgrees

(* The commands keep their type and their paths.                         *)
LEMMA CommandStep ==
  ASSUME TypeOK, PIDAgrees, StopAgrees, GoneStays, NEW c \in Commands, Act(c)
  PROVE  CommandType' /\ StopAgrees'
<1> DEFINE Goal == CommandType' /\ StopAgrees'
<1>a. ASSUME NEW r \in {"ok", "error"}, Return(c, r) PROVE Goal
  <2>1. [Idle EXCEPT !.result = r] \in Command
    BY DEF Idle, Command, Places
  <2>2. /\ [Idle EXCEPT !.result = r].old = None
        /\ [Idle EXCEPT !.result = r].at = "idle"
        /\ [Idle EXCEPT !.result = r].kind = "start"
    BY DEF Idle
  <2> QED BY <1>a, <2>1, <2>2, AnewOnPath DEF Return, Stopping
<1> USE DEF Stopping, Places, Reloading, At
<1>1. CASE Begin(c)
  <2>1. PICK kind \in {"start", "stop", "restart", "session"} :
          command' = [command EXCEPT ![c] =
            [at |-> CASE kind \in {"stop", "restart"} -> "capture"
                      [] kind = "session" -> "ensure"
                      [] OTHER -> "start",
             kind |-> kind, old |-> None, result |-> "error"]]
    BY <1>1 DEF Begin
  <2> DEFINE s == [at |-> CASE kind \in {"stop", "restart"} -> "capture"
                            [] kind = "session" -> "ensure"
                            [] OTHER -> "start",
                   kind |-> kind, old |-> None, result |-> "error"]
  <2>2. s \in Command /\ s.old = None /\ s.kind = kind
    BY DEF Command
  <2>3. /\ kind \in {"stop", "restart"} <=> s.at = "capture"
        /\ s.at \in {"capture", "ensure", "start"}
    OBVIOUS
  <2> HIDE DEF s
  <2>4. command' = [command EXCEPT ![c] = s]
    BY <2>1 DEF s
  <2> QED BY <2>2, <2>3, <2>4, AnewOnPath
<1>2. CASE Ensure(c)
  BY <1>2, MovesOnPath DEF Ensure, Continue, StopAgrees, OnPath
<1>3. CASE StartBackground(c)
  BY <1>3, <1>a, MovesOnPath DEF StartBackground, Continue, Spawn
<1>4. CASE Ready(c)
  BY <1>4, <1>a, MovesOnPath DEF Ready, Continue
<1>5. CASE Capture(c)
  <2>1. CASE /\ pidFile \in Daemons
             /\ command' = [command EXCEPT ![c].at = "alive", ![c].old = pidFile]
    <3>1. [command[c] EXCEPT !.at = "alive", !.old = pidFile] \in Command
      BY <2>1 DEF TypeOK, Command
    <3>2. /\ CommandType'
          /\ command'[c] = [command[c] EXCEPT !.at = "alive", !.old = pidFile]
          /\ \A b \in Commands \ {c} : command'[b] = command[b]
      BY <2>1, <3>1 DEF TypeOK, CommandType
    <3>3. OnPath(c) /\ command[c].at = "capture"
      BY <1>5 DEF Capture, StopAgrees
    <3>4. daemon'[pidFile].at # "none" /\ pidFile # None
      BY <2>1, DaemonsAssumption DEF PIDAgrees, GoneStays, Named, Stage
    <3>5. command'[c].at = "alive" /\ command'[c].old = pidFile
          /\ command'[c].kind = command[c].kind
      BY <3>2 DEF TypeOK, Command
    <3>6. command[c].kind \in {"stop", "restart"}
      BY <3>3 DEF OnPath
    <3>7. OnPath(c)'
      BY <3>4, <3>5, <3>6 DEF OnPath, Stage
    <3> QED BY <3>2, <3>7, KeepsPath DEF StopAgrees
  <2>2. command[c].at = "capture" /\ command[c].old = None
    BY <1>5 DEF Capture, StopAgrees, OnPath
  <2> QED BY <1>5, <1>a, <2>1, <2>2, MovesOnPath DEF Capture, Continue
<1>6. CASE CheckCaptured(c)
  BY <1>6, MovesOnPath DEF CheckCaptured, Continue, StopAgrees, OnPath
<1>7. CASE ShutdownRPC(c)
  BY <1>7, MovesOnPath DEF ShutdownRPC, Continue
<1>8. CASE WaitGrace(c)
  BY <1>8, MovesOnPath DEF WaitGrace, Continue
<1>9. CASE TerminateDaemon(c)
  BY <1>9, <1>a, MovesOnPath DEF TerminateDaemon
<1>10. CASE WaitFallback(c)
  BY <1>10, <1>a, MovesOnPath DEF WaitFallback, Continue
<1>11. CASE Reconcile(c)
  BY <1>11, <1>a, MovesOnPath DEF Reconcile, Continue
<1>12. CASE BeginReloadDaemon(c)
  <2>1. [command[c] EXCEPT !.at = "trigger", !.kind = "reloaded"] \in Command
    BY DEF TypeOK, Command
  <2>2. OnPath(c) /\ command[c].kind = "session"
    BY <1>12 DEF BeginReloadDaemon, StopAgrees
  <2>3. [command[c] EXCEPT !.at = "trigger", !.kind = "reloaded"].old = None
    BY <2>2 DEF TypeOK, Command, OnPath
  <2> QED BY <1>12, <2>1, <2>3, AnewOnPath DEF BeginReloadDaemon, TypeOK, Command
<1>13. CASE TriggerReload(c)
  BY <1>13, MovesOnPath DEF TriggerReload, Continue, StopAgrees, OnPath
<1>14. CASE AwaitVanished(c)
  BY <1>14, MovesOnPath DEF AwaitVanished, Continue, StopAgrees, OnPath
<1>15. CASE SpawnReplacement(c)
  BY <1>15, MovesOnPath DEF SpawnReplacement, Continue, Spawn, StopAgrees,
    OnPath
<1>16. CASE AwaitSocket(c)
  BY <1>16, MovesOnPath DEF AwaitSocket, Continue, StopAgrees, OnPath
<1>17. CASE Quit(c)
  BY <1>17, <1>a DEF Quit
<1> QED
  BY <1>1, <1>2, <1>3, <1>4, <1>5, <1>6, <1>7, <1>8, <1>9, <1>10, <1>11,
     <1>12, <1>13, <1>14, <1>15, <1>16, <1>17
     DEF Act

(* The files keep their type.                                            *)
LEMMA FilesStep ==
  ASSUME TypeOK, StopAgrees, [Next]_vars
  PROVE  /\ lock' \in Daemons \cup {None}
         /\ pidFile' \in Daemons \cup {None, Empty}
         /\ socket' \in Daemons \cup {None}
<1> DEFINE Goal == /\ lock' \in Daemons \cup {None}
                   /\ pidFile' \in Daemons \cup {None, Empty}
                   /\ socket' \in Daemons \cup {None}
<1> USE DEF TypeOK, files
<1>1. ASSUME NEW d \in Daemons, Die(d), UNCHANGED <<pidFile, socket>> PROVE Goal
  BY <1>1 DEF Die
<1>2. ASSUME NEW d \in Daemons, Terminate(d), UNCHANGED <<pidFile, socket>>
      PROVE  Goal
  BY <1>1, <1>2 DEF Terminate
<1>3. ASSUME NEW d \in Daemons, Main(d) PROVE Goal
  BY <1>1, <1>3 DEF Main, AcquireLock, CheckRunning, CreatePID, WritePID, Listen,
    NewDaemonService, Stopped, BeginDrain, Drained, CloseService, CleanupSocket,
    CleanupPID, Unlock, Exit
<1>4. ASSUME NEW d \in Daemons, Watch(d) \/ Reload(d) PROVE Goal
  BY <1>4 DEF Watch, BeginShutdown, GracefulStop, Reload, BeginReload,
    FinishReload, CancelAfterReload, ReloadEnds
<1>5. ASSUME NEW d \in Daemons,
             Launch(d) \/ ServeFails(d) \/ CallEnds(d) \/ RequestReload(d)
               \/ Crash(d) \/ Interrupt(d)
      PROVE  Goal
  BY <1>1, <1>2, <1>5 DEF Launch, ServeFails, CallEnds, RequestReload, Crash,
    Interrupt
<1>6. ASSUME NEW c \in Commands, Act(c) PROVE Goal
  <2>1. Effect(c)
    BY <1>6, ActEffect
  <2> QED BY <1>2, <2>1 DEF Effect, Return, Spawn
<1>7. CASE UNCHANGED vars
  BY <1>7 DEF vars
<1> QED BY <1>3, <1>4, <1>5, <1>6, <1>7 DEF Next

(* A step that no command takes leaves the commands as they are.         *)
LEMMA CommandsStay ==
  ASSUME NEW d \in Daemons,
         \/ Launch(d) \/ Main(d) \/ ServeFails(d) \/ Watch(d) \/ Reload(d)
         \/ CallEnds(d) \/ RequestReload(d) \/ Crash(d) \/ Interrupt(d)
  PROVE  command' = command
<1>1. CASE Main(d)
  BY <1>1 DEF Main, AcquireLock, CheckRunning, CreatePID, WritePID, Listen,
    NewDaemonService, Stopped, BeginDrain, Drained, CloseService, CleanupSocket,
    CleanupPID, Unlock, Exit
<1>2. CASE Watch(d) \/ Reload(d)
  BY <1>2 DEF Watch, BeginShutdown, GracefulStop, Reload, BeginReload,
    FinishReload, CancelAfterReload, ReloadEnds
<1>3. CASE \/ Launch(d) \/ ServeFails(d) \/ CallEnds(d) \/ RequestReload(d)
           \/ Crash(d) \/ Interrupt(d)
  BY <1>3 DEF Launch, ServeFails, CallEnds, RequestReload, Crash, Interrupt
<1> QED BY <1>1, <1>2, <1>3

(***************************************************************************)
(* The invariant.                                                          *)
(***************************************************************************)
(* It holds at first: there is no daemon and no command under way.       *)
LEMMA InitIInv == Init => IInv
<1> SUFFICES ASSUME Init PROVE IInv
  OBVIOUS
<1>1. Fresh \in Daemon /\ Idle \in Command
  BY DEF Fresh, Daemon, Stages, Idle, Command, Places
<1>2. TypeOK
  BY <1>1 DEF Init, TypeOK
<1>3. \A d \in Daemons : daemon[d] = Fresh
  BY DEF Init
<1>4. LockAgrees /\ PIDAgrees /\ SocketAgrees /\ BarrierHolds
  BY <1>3, DaemonsAssumption DEF Init, LockAgrees, PIDAgrees, SocketAgrees,
    Listens, BarrierHolds, Stage, Fresh, Holding, Named
<1>5. StopAgrees
  BY DEF Init, Idle, StopAgrees, OnPath, Stopping
<1> QED BY <1>2, <1>4, <1>5 DEF IInv

(* Every step keeps it.                                                  *)
LEMMA NextIInv == IInv /\ [Next]_vars => IInv'
<1> SUFFICES ASSUME IInv, [Next]_vars PROVE IInv'
  OBVIOUS
<1>1. LockAgrees' /\ PIDAgrees' /\ SocketAgrees' /\ BarrierHolds'
  BY LockStep, PIDStep, SocketStep, BarrierStep DEF IInv
<1>2. GoneStays
  BY GoneStep DEF IInv
<1>3. CommandType' /\ StopAgrees'
  <2>1. CASE command' = command
    <3>1. \A c \in Commands : OnPath(c)'
      BY <1>2, <2>1, KeepsPath DEF IInv, StopAgrees
    <3> QED BY <2>1, <3>1 DEF IInv, TypeOK, CommandType, StopAgrees
  <2>2. CASE \E c \in Commands : Act(c)
    BY <1>2, <2>2, CommandStep DEF IInv
  <2> QED BY <2>1, <2>2, CommandsStay DEF Next, vars
<1>4. TypeOK'
  BY <1>3, DaemonStep, FilesStep DEF IInv, TypeOK, DaemonType, CommandType
<1> QED BY <1>1, <1>3, <1>4 DEF IInv

(* So it always holds.                                                   *)
LEMMA AlwaysIInv == Spec => []IInv
  BY InitIInv, NextIInv, PTL DEF Spec

(***************************************************************************)
(* The theorems.                                                           *)
(***************************************************************************)
(* Type correctness: locks, files, daemons and commands keep their types.  *)
THEOREM TypeCorrect == Spec => []TypeOK
<1>1. IInv => TypeOK
  BY DEF IInv
<1> QED BY <1>1, AlwaysIInv, PTL

(* However many daemons are started, killed, stopped, restarted or         *)
(* reloaded, the one that serves has the lock, the PID file and the socket,*)
(* and what a dead one left behind blocks no start unless it is a zombie   *)
(* (Start, CleanupSocket, CleanupPID, stopContextWithOps).                 *)
THEOREM OneDaemonServes == Spec => []OneDaemon
<1>1. IInv => OneDaemon
  <2> SUFFICES ASSUME IInv, NEW d \in Daemons
               PROVE  /\ Stage(d) = "serve" => lock = d /\ pidFile = d
                      /\ Stage(d) = "serve" /\ daemon[d].watch \in {"wait", "barrier"}
                           => socket = d
                      /\ Stage(d) = "check" /\ IsRunning
                           => daemon[pidFile].at = "zombie"
    BY DEF OneDaemon, Stage
  <2>1. Stage(d) = "serve" => lock = d /\ pidFile = d
    BY DEF IInv, LockAgrees, PIDAgrees, Holding, Named
  <2>2. Stage(d) = "serve" /\ daemon[d].watch \in {"wait", "barrier"}
          => socket = d
    BY DEF IInv, SocketAgrees, Listens
  <2>3. ASSUME Stage(d) = "check", IsRunning PROVE Stage(pidFile) = "zombie"
    <3>1. pidFile \in Daemons /\ Stage(pidFile) \in Named \cup {"zombie"}
      BY <2>3 DEF IInv, PIDAgrees, IsRunning, Running, Stage
    <3>2. lock = d
      BY <2>3 DEF IInv, LockAgrees, Holding
    <3>3. Stage(pidFile) \in Named => pidFile = d
      BY <3>1, <3>2 DEF IInv, LockAgrees, Holding, Named
    <3> QED BY <2>3, <3>1, <3>3 DEF Named
  <2> QED BY <2>1, <2>2, <2>3 DEF Stage
<1> QED BY <1>1, AlwaysIInv, PTL

(* The export of a reload runs while the service is open: shutdown and the *)
(* deferred calls of Start wait for it at the barrier, and none begins     *)
(* behind them (reloadBarrier, Start).                                     *)
THEOREM ReloadsMeetService == Spec => []ReloadMeetsService
<1>1. IInv => ReloadMeetsService
  BY DEF IInv, BarrierHolds, ReloadMeetsService, Stage
<1> QED BY <1>1, AlwaysIInv, PTL

(* Only two steps report that a stop or restart succeeded.               *)
LEMMA ReportsAt ==
  ASSUME TypeOK, NEW c \in Commands, Act(c), command[c].kind \in {"stop", "restart"},
         command[c].at # "idle", command'[c].at = "idle", command'[c].result = "ok"
  PROVE  command[c].at \in {"ready", "reconcile", "session"}
<1>1. ~Return(c, "error")
  BY DEF Return, Idle, TypeOK
<1>2. \A to \in Places \ {"idle"} : ~Goto(c, to)
  BY DEF Goto, TypeOK, Command
<1> USE DEF Places, Stopping, Reloading, At
<1>3. ~(Ensure(c) \/ StartBackground(c) \/ Capture(c) \/ CheckCaptured(c))
  <2>1. ~Capture(c)
    BY <1>1, <1>2 DEF Capture, Continue, TypeOK, Command
  <2> QED BY <1>1, <1>2, <2>1 DEF Ensure, StartBackground, CheckCaptured, Continue, Spawn
<1>4. ~(ShutdownRPC(c) \/ WaitGrace(c) \/ TerminateDaemon(c) \/ WaitFallback(c))
  BY <1>1, <1>2 DEF ShutdownRPC, WaitGrace, TerminateDaemon, WaitFallback, Continue
<1>5. ~(AwaitVanished(c) \/ SpawnReplacement(c) \/ AwaitSocket(c) \/ TriggerReload(c))
  BY <1>1, <1>2 DEF AwaitVanished, SpawnReplacement, AwaitSocket, TriggerReload,
    Continue, Spawn
<1> QED
  BY <1>3, <1>4, <1>5 DEF Act, Begin, Ready, Reconcile, BeginReloadDaemon, Quit

(* A command changes no other.                                           *)
LEMMA ActsAlone ==
  ASSUME TypeOK, NEW b \in Commands, NEW c \in Commands, Act(b), command'[c] # command[c]
  PROVE  b = c
<1> SUFFICES ASSUME b # c PROVE command'[c] = command[c]
  OBVIOUS
<1>1. \A to : Goto(b, to) => command'[c] = command[c]
  BY DEF Goto, TypeOK
<1>2. \A r : Return(b, r) => command'[c] = command[c]
  BY DEF Return, TypeOK
<1>3. CASE Begin(b) \/ Capture(b) \/ BeginReloadDaemon(b)
  BY <1>1, <1>2, <1>3 DEF Begin, Capture, BeginReloadDaemon, Continue, TypeOK
<1>4. CASE ~(Begin(b) \/ Capture(b) \/ BeginReloadDaemon(b))
  BY <1>1, <1>2, <1>4 DEF Act, Ensure, StartBackground, Ready, CheckCaptured,
    ShutdownRPC, WaitGrace, TerminateDaemon, WaitFallback, Reconcile,
    TriggerReload, AwaitVanished, SpawnReplacement, AwaitSocket, Quit, Continue,
    Spawn
<1> QED BY <1>3, <1>4

(* A stop or restart that reports success has seen the process whose id it *)
(* read at first end, whoever answered its call and whatever was started   *)
(* meanwhile (stopContextWithOps, reconcileDaemonOwnership).               *)
THEOREM StopsTellTruth == Spec => StopsAreTrue
<1> DEFINE True(c) ==
      /\ command[c].kind \in {"stop", "restart"} /\ command[c].old # None
      /\ command'[c].at = "idle" /\ command'[c].result = "ok"
      => ~Running(command[c].old)
<1>1. ASSUME IInv, [Next]_vars, NEW c \in Commands PROVE True(c)
  <2> SUFFICES ASSUME command[c].kind \in {"stop", "restart"}, command[c].old # None,
                      command'[c].at = "idle", command'[c].result = "ok"
               PROVE  ~Running(command[c].old)
    OBVIOUS
  <2>1. OnPath(c) /\ command[c].at \in Stopping \cup {"start", "ready"}
    BY <1>1 DEF IInv, StopAgrees, OnPath
  <2>2. command[c].at # "idle" /\ command'[c] # command[c]
    BY <2>1 DEF Stopping
  <2>3. PICK b \in Commands : Act(b)
    BY <1>1, <2>2, CommandsStay DEF Next, vars
  <2>4. b = c
    BY <1>1, <2>2, <2>3, ActsAlone DEF IInv
  <2>5. command[c].at \in {"ready", "reconcile"}
    BY <1>1, <2>1, <2>2, <2>3, <2>4, ReportsAt DEF IInv, Stopping
  <2> QED BY <2>1, <2>5 DEF OnPath, Running, Stage
<1>2. IInv /\ [Next]_vars => [\A c \in Commands : True(c)]_vars
  BY <1>1
<1> QED BY <1>2, AlwaysIInv, PTL DEF Spec, StopsAreTrue

===============================================================================

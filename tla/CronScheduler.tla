---------------------------- MODULE CronScheduler ----------------------------
(***************************************************************************)
(* The cron scheduler of the daemon, internal/daemon/cron.go: the stored   *)
(* status of each job, its entry in memory and the goroutines that tick,   *)
(* while clients create, pause, resume and stop jobs, the daemon shuts     *)
(* down, dies and starts again.                                            *)
(*                                                                         *)
(* A step is one statement on the database or one section under a mutex.   *)
(* cs.mu is held over several steps by a resume only.                      *)
(***************************************************************************)
EXTENDS Naturals

CONSTANTS
  Jobs,
  Handlers,   \* RPC handlers
  Loops,      \* goroutines of jobs; their number bounds those that are alive
  None

ASSUME CronAssumption == None \notin Handlers \cup Loops

VARIABLES
  stored,     \* cron_jobs.status, "none" without a row
  \* memory of one daemon process
  phase,      \* "down", "starting", "up", "canceled" or "closed"
  starting,   \* the rows that Start has still to go through
  entries,    \* the keys of cs.entries
  entry,      \* the entry of each job: its status, the loop its cancel ends
  loop,       \* the goroutines
  mu,         \* the holder of cs.mu
  handler

memory == <<phase, starting, entries, entry, loop, mu, handler>>
vars == <<stored, memory>>

-----------------------------------------------------------------------------
NoLoop == [at |-> "none", job |-> None, canceled |-> FALSE]
NoEntry == [status |-> "paused", loop |-> None]
Idle == [at |-> "idle", job |-> None]

Init ==
  /\ stored = [j \in Jobs |-> "none"]
  /\ phase = "down"
  /\ starting = {} /\ entries = {}
  /\ entry = [j \in Jobs |-> NoEntry]
  /\ loop = [l \in Loops |-> NoLoop]
  /\ mu = None
  /\ handler = [h \in Handlers |-> Idle]

(* The process ends. *)
Down ==
  /\ phase' = "down"
  /\ starting' = {} /\ entries' = {}
  /\ entry' = [j \in Jobs |-> NoEntry]
  /\ loop' = [l \in Loops |-> NoLoop]
  /\ mu' = None
  /\ handler' = [h \in Handlers |-> Idle]
  /\ UNCHANGED stored

Alive(l) == loop[l].at # "none"

(* A context is done when its entry canceled it or the daemon shuts down.  *)
Done(l) == loop[l].canceled \/ phase \in {"canceled", "closed"}

(* Loops that an entry still refers to are not used again.                 *)
FreeLoops ==
  {l \in Loops : ~Alive(l) /\ \A j \in Jobs : entry[j].loop # l}

(* startEntryLocked, restartEntryLocked: a new goroutine for a job *)
StartLoop(j, status) ==
  LET l == CHOOSE l \in FreeLoops : TRUE IN
  /\ FreeLoops # {}
  /\ loop' = [loop EXCEPT ![l] = [at |-> "wait", job |-> j, canceled |-> FALSE]]
  /\ entry' = [entry EXCEPT ![j] = [status |-> status, loop |-> l]]

Canceled(l) ==
  IF l = None THEN loop ELSE [loop EXCEPT ![l].canceled = Alive(l)]

Goto(h, at, j) == handler' = [handler EXCEPT ![h] = [at |-> at, job |-> j]]
Return(h) == handler' = [handler EXCEPT ![h] = Idle]

-----------------------------------------------------------------------------
(***************************************************************************)
(* NewService starts the scheduler before it serves: the jobs that are     *)
(* stored as active get an entry and a goroutine.                          *)
(***************************************************************************)
Boot ==
  /\ phase = "down"
  /\ phase' = "starting"
  /\ starting' = {j \in Jobs : stored[j] = "active"}
  /\ UNCHANGED <<stored, entries, entry, loop, mu, handler>>

StartEntry(j) ==
  /\ phase = "starting"
  /\ j \in starting
  /\ starting' = starting \ {j}
  /\ entries' = entries \cup {j}
  /\ StartLoop(j, stored[j])
  /\ UNCHANGED <<stored, phase, mu, handler>>

Serve ==
  /\ phase = "starting"
  /\ starting = {}
  /\ phase' = "up"
  /\ UNCHANGED <<stored, starting, entries, entry, loop, mu, handler>>

Serving == phase \in {"up", "canceled", "closed"}

-----------------------------------------------------------------------------
(***************************************************************************)
(* Create stores the row and starts the goroutine under cs.mu. A statement *)
(* that fails leaves nothing.                                              *)
(***************************************************************************)
CreateUnchecked(h, j) ==   \* mutant of Create: whether closed or not
  /\ Serving
  /\ handler[h].at = "idle"
  /\ mu = None
  /\ stored[j] = "none"
  /\ stored' = [stored EXCEPT ![j] = "active"]
  /\ entries' = entries \cup {j}
  /\ StartLoop(j, "active")
  /\ UNCHANGED <<phase, starting, mu, handler>>

Create(h, j) ==
  /\ Serving
  /\ handler[h].at = "idle"
  /\ mu = None
  /\ phase # "closed"
  /\ stored[j] = "none"
  /\ stored' = [stored EXCEPT ![j] = "active"]
  /\ entries' = entries \cup {j}
  /\ StartLoop(j, "active")
  /\ UNCHANGED <<phase, starting, mu, handler>>

(***************************************************************************)
(* Pause finds the entry under cs.mu, cancels it under its own mutex, and  *)
(* stores the status without any.                                          *)
(***************************************************************************)
Pause(h, j) ==
  /\ Serving
  /\ handler[h].at = "idle"
  /\ mu = None
  /\ j \in entries
  /\ Goto(h, "pause", j)
  /\ UNCHANGED <<stored, phase, starting, entries, entry, loop, mu>>

PauseEntry(h) ==
  LET j == handler[h].job IN
  /\ handler[h].at = "pause"
  /\ \/ /\ entry[j].status = "paused"
        /\ Return(h)
        /\ UNCHANGED <<entry, loop>>
     \/ /\ entry[j].status # "paused"
        /\ loop' = Canceled(entry[j].loop)
        /\ entry' = [entry EXCEPT ![j].status = "paused"]
        /\ Goto(h, "pause_store", j)
  /\ UNCHANGED <<stored, phase, starting, entries, mu>>

PauseStore(h) ==
  LET j == handler[h].job IN
  /\ handler[h].at = "pause_store"
  /\ stored' \in {stored, [stored EXCEPT ![j] = "paused"]}
  /\ Return(h)
  /\ UNCHANGED <<phase, starting, entries, entry, loop, mu>>

(***************************************************************************)
(* Resume holds cs.mu throughout, but the mutex of the entry only where it *)
(* changes the status, so that a Pause may come before the new goroutine.  *)
(***************************************************************************)
ResumeUnlocked(h, j) ==   \* mutant of Resume: cs.mu only for the lookup
  /\ Serving
  /\ handler[h].at = "idle"
  /\ mu = None
  /\ phase # "closed"
  /\ j \in entries
  /\ entry[j].status = "paused"
  /\ entry' = [entry EXCEPT ![j].status = "active"]
  /\ Goto(h, "resume_store", j)
  /\ UNCHANGED <<stored, phase, starting, entries, loop, mu>>

Resume(h, j) ==
  /\ Serving
  /\ handler[h].at = "idle"
  /\ mu = None
  /\ phase # "closed"
  /\ j \in entries
  /\ entry[j].status = "paused"
  /\ mu' = h
  /\ entry' = [entry EXCEPT ![j].status = "active"]
  /\ Goto(h, "resume_store", j)
  /\ UNCHANGED <<stored, phase, starting, entries, loop>>

ResumeStore(h) ==
  LET j == handler[h].job IN
  /\ handler[h].at = "resume_store"
  /\ stored' = [stored EXCEPT ![j] = "active"]
  /\ Goto(h, "restart", j)
  /\ UNCHANGED <<phase, starting, entries, entry, loop, mu>>

ResumeFailsActive(h) ==   \* mutant of ResumeFails: the status is not reset
  /\ handler[h].at = "resume_store"
  /\ mu' = None
  /\ Return(h)
  /\ UNCHANGED <<stored, phase, starting, entries, entry, loop>>

ResumeFailsLocked(h) ==   \* mutant of ResumeFails: cs.mu is kept
  LET j == handler[h].job IN
  /\ handler[h].at = "resume_store"
  /\ entry' = [entry EXCEPT ![j].status = "paused"]
  /\ Return(h)
  /\ UNCHANGED <<stored, phase, starting, entries, loop, mu>>

ResumeFails(h) ==
  LET j == handler[h].job IN
  /\ handler[h].at = "resume_store"
  /\ entry' = [entry EXCEPT ![j].status = "paused"]
  /\ mu' = None
  /\ Return(h)
  /\ UNCHANGED <<stored, phase, starting, entries, loop>>

Restart(h) ==
  LET j == handler[h].job IN
  /\ handler[h].at = "restart"
  /\ StartLoop(j, entry[j].status)
  /\ mu' = None
  /\ Return(h)
  /\ UNCHANGED <<stored, phase, starting, entries>>

(***************************************************************************)
(* Stop removes the entry under cs.mu, cancels it and stores the status.   *)
(***************************************************************************)
Stop(h, j) ==
  /\ Serving
  /\ handler[h].at = "idle"
  /\ mu = None
  /\ j \in entries
  /\ entries' = entries \ {j}
  /\ Goto(h, "stop_cancel", j)
  /\ UNCHANGED <<stored, phase, starting, entry, loop, mu>>

StopCancel(h) ==
  LET j == handler[h].job IN
  /\ handler[h].at = "stop_cancel"
  /\ loop' = Canceled(entry[j].loop)
  /\ Goto(h, "stop_store", j)
  /\ UNCHANGED <<stored, phase, starting, entries, entry, mu>>

StopStore(h) ==
  LET j == handler[h].job IN
  /\ handler[h].at = "stop_store"
  /\ stored' \in {stored, [stored EXCEPT ![j] = "stopped"]}
  /\ Return(h)
  /\ UNCHANGED <<phase, starting, entries, entry, loop, mu>>

-----------------------------------------------------------------------------
(***************************************************************************)
(* A goroutine waits for its ticker or its context; when both are ready,   *)
(* select takes either. A tick of a job that is not active ends it.        *)
(***************************************************************************)
Tick(l) ==
  /\ loop[l].at = "wait"
  /\ IF entry[loop[l].job].status = "active"
     THEN loop' = [loop EXCEPT ![l].at = "tick"]
     ELSE loop' = [loop EXCEPT ![l] = NoLoop]
  /\ UNCHANGED <<stored, phase, starting, entries, entry, mu, handler>>

(* The run is stored and the command is handed to the session. *)
Callback(l) ==
  /\ loop[l].at = "tick"
  /\ loop' = [loop EXCEPT ![l].at = "wait"]
  /\ UNCHANGED <<stored, phase, starting, entries, entry, mu, handler>>

Quit(l) ==
  /\ loop[l].at = "wait"
  /\ Done(l)
  /\ loop' = [loop EXCEPT ![l] = NoLoop]
  /\ UNCHANGED <<stored, phase, starting, entries, entry, mu, handler>>

-----------------------------------------------------------------------------
(***************************************************************************)
(* Service.Close cancels the context of the daemon, closes the scheduler   *)
(* and waits for its goroutines.                                           *)
(***************************************************************************)
CancelAll ==
  /\ phase = "up"
  /\ phase' = "canceled"
  /\ UNCHANGED <<stored, starting, entries, entry, loop, mu, handler>>

Close ==
  /\ phase = "canceled"
  /\ mu = None
  /\ phase' = "closed"
  /\ loop' = [l \in Loops |->
                IF Alive(l) /\ \E j \in entries : entry[j].loop = l
                THEN [loop[l] EXCEPT !.canceled = TRUE] ELSE loop[l]]
  /\ UNCHANGED <<stored, starting, entries, entry, mu, handler>>

Exit ==
  /\ phase = "closed"
  /\ \A l \in Loops : ~Alive(l)
  /\ Down

Crash ==
  /\ phase # "down"
  /\ Down

-----------------------------------------------------------------------------
Begin(h) ==
  \E j \in Jobs : Create(h, j) \/ Pause(h, j) \/ Resume(h, j) \/ Stop(h, j)

Handle(h) ==
  \/ PauseEntry(h) \/ PauseStore(h) \/ ResumeStore(h) \/ ResumeFails(h)
  \/ Restart(h) \/ StopCancel(h) \/ StopStore(h)

Run(l) == Tick(l) \/ Callback(l) \/ Quit(l)

Next ==
  \/ Boot \/ Serve \/ CancelAll \/ Close \/ Exit \/ Crash
  \/ \E j \in Jobs : StartEntry(j)
  \/ \E h \in Handlers : Begin(h) \/ Handle(h)
  \/ \E l \in Loops : Run(l)

Spec == Init /\ [][Next]_vars

(***************************************************************************)
(* Goroutines run, the mutex hands itself to those that wait, and select   *)
(* takes each ready case in the end. Nothing makes a daemon start or stop. *)
(***************************************************************************)
FairSpec ==
  /\ Spec
  /\ SF_vars(Close) /\ WF_vars(Exit)
  /\ \A h \in Handlers : WF_vars(Handle(h))
  /\ \A l \in Loops : WF_vars(Callback(l)) /\ SF_vars(Quit(l))

-----------------------------------------------------------------------------
(***************************************************************************)
(* Type invariant.                                                         *)
(***************************************************************************)
TypeOK ==
  /\ stored \in [Jobs -> {"none", "active", "paused", "stopped"}]
  /\ phase \in {"down", "starting", "up", "canceled", "closed"}
  /\ starting \subseteq Jobs /\ entries \subseteq Jobs
  /\ entry \in [Jobs -> [status : {"active", "paused"}, loop : Loops \cup {None}]]
  /\ loop \in [Loops -> [at : {"none", "wait", "tick"}, job : Jobs \cup {None},
                         canceled : BOOLEAN]]
  /\ mu \in Handlers \cup {None}
  /\ handler \in [Handlers ->
       [at : {"idle", "pause", "pause_store", "resume_store", "restart",
              "stop_cancel", "stop_store"},
        job : Jobs \cup {None}]]

(***************************************************************************)
(* A job that its entry calls active has a goroutine that ticks and that   *)
(* the entry can cancel, except while a Resume is about to start it.       *)
(***************************************************************************)
ActiveRuns ==
  phase = "up" =>
    \A j \in entries :
      \/ entry[j].status = "paused"
      \/ /\ mu # None
         /\ handler[mu].job = j
      \/ /\ entry[j].loop # None
         /\ Alive(entry[j].loop)
         /\ ~loop[entry[j].loop].canceled
         /\ loop[entry[j].loop].job = j

(***************************************************************************)
(* A job that was stored as stopped is never stored as active again: no    *)
(* late Resume brings it back after a restart.                             *)
(***************************************************************************)
StoppedIsFinal ==
  [][\A j \in Jobs : stored[j] = "stopped" => stored'[j] # "active"]_vars

(***************************************************************************)
(* After Close no goroutine starts that Close does not wait for, and no    *)
(* job is stored whose goroutine never started.                            *)
(***************************************************************************)
ClosedAdmitsNothing ==
  [][phase = "closed" /\ phase' = "closed" =>
       /\ \A l \in Loops : Alive(l)' => Alive(l)
       /\ \A j \in Jobs : stored[j] = "none" => stored'[j] = "none"]_vars

(***************************************************************************)
(* The end of a job and the end of the scheduler are final.                *)
(***************************************************************************)
EndsAreFinal == StoppedIsFinal /\ ClosedAdmitsNothing

(***************************************************************************)
(* The shutdown gets past the scheduler, whatever jobs and clients do.     *)
(***************************************************************************)
CloseReturns == phase = "canceled" ~> phase = "down"

=============================================================================

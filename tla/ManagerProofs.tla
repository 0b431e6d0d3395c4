----------------------------- MODULE ManagerProofs -----------------------------
(***************************************************************************)
(* Theorems about the two managers of work in the background: the cron     *)
(* scheduler, for any jobs, handlers and goroutines, and one fleet, for    *)
(* any number of workers, of slots, of places in the channel and of        *)
(* callers. Neither calls the other; the fleet's names begin with Fleet    *)
(* where both have one.                                                    *)
(***************************************************************************)
EXTENDS CronScheduler, Fleet, FiniteSetTheorems, SequenceTheorems, TLAPS

-----------------------------------------------------------------------------
(***************************************************************************)
(* The cron scheduler: the inductive invariant.                            *)
(***************************************************************************)
Held(h) == handler[h].at \in {"resume_store", "restart"}
Stopping(h) == handler[h].at \in {"stop_cancel", "stop_store"}

(* What a process starts with, and what it has not begun. *)
PhaseInv ==
  /\ phase = "down" => entries = {}
  /\ phase \in {"down", "starting", "closed"} => mu = None
  /\ phase \in {"down", "starting"} => \A h \in Handlers : handler[h].at = "idle"
  /\ phase # "starting" => starting = {}
  /\ \A j \in starting : stored[j] = "active"

(* A resume has cs.mu and its job an entry; the job of a stop has none.    *)
HandlerInv ==
  \A h \in Handlers :
    /\ handler[h].at # "idle" => handler[h].job \in Jobs /\ stored[handler[h].job] # "none"
    /\ Held(h) <=> mu = h
    /\ Held(h) => handler[h].job \in entries
    /\ Stopping(h) => handler[h].job \notin entries

EntryInv == \A j \in entries : stored[j] \notin {"none", "stopped"}

(* No two entries have a goroutine in common. *)
LoopInv ==
  \A i, j \in Jobs : i # j /\ entry[i].loop # None => entry[i].loop # entry[j].loop

Served(j) ==
  /\ entry[j].loop # None
  /\ Alive(entry[j].loop)
  /\ ~loop[entry[j].loop].canceled
  /\ loop[entry[j].loop].job = j

RunInv ==
  phase \in {"starting", "up"} =>
    \A j \in entries :
      \/ entry[j].status = "paused"
      \/ mu # None /\ handler[mu].job = j
      \/ Served(j)

IInv == TypeOK /\ PhaseInv /\ HandlerInv /\ EntryInv /\ LoopInv /\ RunInv

-----------------------------------------------------------------------------
(***************************************************************************)
(* Types.                                                                  *)
(***************************************************************************)
LEMMA TypeInit == Init => TypeOK
BY DEF Init, TypeOK, NoEntry, NoLoop, Idle

LEMMA DownTypes == TypeOK /\ Down => TypeOK'
BY DEF TypeOK, Down, NoEntry, NoLoop, Idle

(* Starting a goroutine takes one that no entry refers to. *)
LEMMA StartLoopTakesFree ==
  ASSUME NEW j, NEW s, StartLoop(j, s)
  PROVE  \E l \in Loops :
           /\ \A i \in Jobs : entry[i].loop # l
           /\ ~Alive(l)
           /\ loop' = [loop EXCEPT ![l] = [at |-> "wait", job |-> j, canceled |-> FALSE]]
           /\ entry' = [entry EXCEPT ![j] = [status |-> s, loop |-> l]]
<1> DEFINE l == CHOOSE l \in FreeLoops : TRUE
<1>1. l \in FreeLoops
  BY DEF StartLoop
<1>2. /\ loop' = [loop EXCEPT ![l] = [at |-> "wait", job |-> j, canceled |-> FALSE]]
      /\ entry' = [entry EXCEPT ![j] = [status |-> s, loop |-> l]]
  BY DEF StartLoop
<1> HIDE DEF l
<1> QED BY <1>1, <1>2 DEF FreeLoops

LEMMA StartLoopTypes ==
  ASSUME TypeOK, NEW j \in Jobs \cup {None}, NEW s \in {"active", "paused"}, StartLoop(j, s)
  PROVE  /\ loop' \in [Loops -> [at : {"none", "wait", "tick"}, job : Jobs \cup {None},
                                 canceled : BOOLEAN]]
         /\ entry' \in [Jobs -> [status : {"active", "paused"}, loop : Loops \cup {None}]]
<1>1. PICK l \in Loops :
        /\ loop' = [loop EXCEPT ![l] = [at |-> "wait", job |-> j, canceled |-> FALSE]]
        /\ entry' = [entry EXCEPT ![j] = [status |-> s, loop |-> l]]
  BY StartLoopTakesFree
<1> QED BY <1>1 DEF TypeOK

LEMMA CanceledTypes ==
  ASSUME TypeOK, NEW l
  PROVE  Canceled(l) \in [Loops -> [at : {"none", "wait", "tick"}, job : Jobs \cup {None},
                                    canceled : BOOLEAN]]
<1>1. l \in Loops => Alive(l) \in BOOLEAN
  BY DEF Alive
<1>2. CASE l = None
  BY <1>2 DEF TypeOK, Canceled
<1>3. CASE l # None /\ l \in Loops
  <2>1. loop[l] \in [at : {"none", "wait", "tick"}, job : Jobs \cup {None}, canceled : BOOLEAN]
    BY <1>3 DEF TypeOK
  <2>2. [loop[l] EXCEPT !.canceled = Alive(l)] \in
          [at : {"none", "wait", "tick"}, job : Jobs \cup {None}, canceled : BOOLEAN]
    BY <2>1, <1>1, <1>3
  <2> QED BY <1>3, <2>2 DEF TypeOK, Canceled
<1>4. CASE l # None /\ l \notin Loops
  BY <1>4 DEF TypeOK, Canceled
<1> QED BY <1>2, <1>3, <1>4

LEMMA TypeBegin ==
  ASSUME TypeOK, NEW h \in Handlers, Begin(h)
  PROVE  TypeOK'
<1>1. ASSUME NEW j \in Jobs, Create(h, j) PROVE TypeOK'
  <2>1. StartLoop(j, "active") BY <1>1 DEF Create
  <2>2. /\ stored' = [stored EXCEPT ![j] = "active"]
        /\ entries' = entries \cup {j}
        /\ UNCHANGED <<phase, starting, mu, handler>>
    BY <1>1 DEF Create
  <2> QED BY <2>1, <2>2, StartLoopTypes DEF TypeOK
<1>2. ASSUME NEW j \in Jobs, Pause(h, j) PROVE TypeOK'
  BY <1>2 DEF TypeOK, Pause, Goto
<1>3. ASSUME NEW j \in Jobs, Resume(h, j) PROVE TypeOK'
  BY <1>3 DEF TypeOK, Resume, Goto
<1>4. ASSUME NEW j \in Jobs, Stop(h, j) PROVE TypeOK'
  BY <1>4 DEF TypeOK, Stop, Goto
<1> QED
  BY <1>1, <1>2, <1>3, <1>4 DEF Begin

LEMMA TypeHandle ==
  ASSUME TypeOK, NEW h \in Handlers, Handle(h)
  PROVE  TypeOK'
<1>5. CASE PauseEntry(h)
  <2> DEFINE j == handler[h].job
  <2>1. /\ loop' = loop \/ loop' = Canceled(entry[j].loop)
        /\ entry' = entry \/ entry' = [entry EXCEPT ![j].status = "paused"]
        /\ handler' = [handler EXCEPT ![h] = Idle] \/ Goto(h, "pause_store", j)
        /\ UNCHANGED <<stored, phase, starting, entries, mu>>
    BY <1>5 DEF PauseEntry, Return
  <2>2. loop' \in [Loops -> [at : {"none", "wait", "tick"}, job : Jobs \cup {None},
                             canceled : BOOLEAN]]
    BY <2>1, CanceledTypes DEF TypeOK
  <2>3. entry' \in [Jobs -> [status : {"active", "paused"}, loop : Loops \cup {None}]]
    BY <2>1 DEF TypeOK
  <2>4. handler' \in [Handlers ->
          [at : {"idle", "pause", "pause_store", "resume_store", "restart",
                 "stop_cancel", "stop_store"}, job : Jobs \cup {None}]]
    BY <2>1 DEF TypeOK, Goto, Idle
  <2> HIDE DEF j
  <2> QED BY <2>1, <2>2, <2>3, <2>4 DEF TypeOK
<1>6. CASE PauseStore(h)
  BY <1>6 DEF TypeOK, PauseStore, Return, Idle
<1>7. CASE ResumeStore(h)
  BY <1>7 DEF TypeOK, ResumeStore, Goto
<1>8. CASE ResumeFails(h)
  BY <1>8 DEF TypeOK, ResumeFails, Return, Idle
<1>9. CASE Restart(h)
  <2> DEFINE j == handler[h].job
  <2>1. j \in Jobs \cup {None}
    BY DEF TypeOK
  <2>2. CASE j \in Jobs
    <3>1. StartLoop(j, entry[j].status) /\ entry[j].status \in {"active", "paused"}
      BY <1>9, <2>2 DEF Restart, TypeOK
    <3>2. mu' = None /\ Return(h) /\ UNCHANGED <<stored, phase, starting, entries>>
      BY <1>9 DEF Restart
    <3> HIDE DEF j
    <3> QED BY <2>1, <3>1, <3>2, StartLoopTypes DEF TypeOK, Return, Idle
  <2>3. CASE j \notin Jobs
    <3>1. PICK l \in Loops :
            /\ loop' = [loop EXCEPT ![l] = [at |-> "wait", job |-> j, canceled |-> FALSE]]
            /\ entry' = [entry EXCEPT ![j] = [status |-> entry[j].status, loop |-> l]]
      BY <1>9, StartLoopTakesFree DEF Restart
    <3>2. mu' = None /\ Return(h) /\ UNCHANGED <<stored, phase, starting, entries>>
      BY <1>9 DEF Restart
    <3> HIDE DEF j
    <3> QED BY <2>1, <2>3, <3>1, <3>2 DEF TypeOK, Return, Idle
  <2> QED BY <2>2, <2>3
<1>10. CASE StopCancel(h)
  <2>1. /\ loop' = Canceled(entry[handler[h].job].loop)
        /\ Goto(h, "stop_store", handler[h].job)
        /\ UNCHANGED <<stored, phase, starting, entries, entry, mu>>
    BY <1>10 DEF StopCancel
  <2> QED BY <2>1, CanceledTypes DEF TypeOK, Goto
<1>11. CASE StopStore(h)
  BY <1>11 DEF TypeOK, StopStore, Return, Idle
<1> QED
  BY <1>5, <1>6, <1>7, <1>8, <1>9, <1>10, <1>11 DEF Handle

LEMMA TypeStep ==
  ASSUME TypeOK, PhaseInv, Next
  PROVE  TypeOK'
<1>1. CASE Boot \/ Serve \/ CancelAll
  BY <1>1 DEF TypeOK, Boot, Serve, CancelAll
<1>2. CASE Close
  <2>1. /\ phase' = "closed"
        /\ loop' = [l \in Loops |->
                IF Alive(l) /\ \E j \in entries : entry[j].loop = l
                THEN [loop[l] EXCEPT !.canceled = TRUE] ELSE loop[l]]
        /\ UNCHANGED <<stored, starting, entries, entry, mu, handler>>
    BY <1>2 DEF Close
  <2> QED BY <2>1 DEF TypeOK
<1>3. CASE Exit \/ Crash
  BY <1>3, DownTypes DEF Exit, Crash
<1>4. ASSUME NEW j \in Jobs, StartEntry(j) PROVE TypeOK'
  <2>1. /\ StartLoop(j, stored[j])
        /\ starting' = starting \ {j} /\ entries' = entries \cup {j}
        /\ UNCHANGED <<stored, phase, mu, handler>>
        /\ j \in starting
    BY <1>4 DEF StartEntry
  <2>2. stored[j] = "active"
    BY <2>1 DEF PhaseInv
  <2> QED BY <2>1, <2>2, StartLoopTypes DEF TypeOK
<1>5. ASSUME NEW h \in Handlers, Begin(h) \/ Handle(h) PROVE TypeOK'
  BY <1>5, TypeBegin, TypeHandle
<1>6. ASSUME NEW l \in Loops, Run(l) PROVE TypeOK'
  <2>1. /\ UNCHANGED <<stored, phase, starting, entries, entry, mu, handler>>
        /\ \/ loop' = [loop EXCEPT ![l].at = "tick"]
           \/ loop' = [loop EXCEPT ![l].at = "wait"]
           \/ loop' = [loop EXCEPT ![l] = NoLoop]
    BY <1>6 DEF Run, Tick, Callback, Quit
  <2>2. loop' \in [Loops -> [at : {"none", "wait", "tick"}, job : Jobs \cup {None},
                             canceled : BOOLEAN]]
    <3>1. CASE loop' = [loop EXCEPT ![l].at = "tick"]
      BY <3>1 DEF TypeOK
    <3>2. CASE loop' = [loop EXCEPT ![l].at = "wait"]
      BY <3>2 DEF TypeOK
    <3>3. CASE loop' = [loop EXCEPT ![l] = NoLoop]
      BY <3>3 DEF TypeOK, NoLoop
    <3> QED BY <2>1, <3>1, <3>2, <3>3
  <2> QED BY <2>1, <2>2 DEF TypeOK
<1> QED BY <1>1, <1>2, <1>3, <1>4, <1>5, <1>6 DEF Next

-----------------------------------------------------------------------------
(***************************************************************************)
(* The parts of the invariant, one after the other.                        *)
(***************************************************************************)
LEMMA DownEstablishes == Down /\ TypeOK' => PhaseInv' /\ HandlerInv' /\ EntryInv' /\ LoopInv' /\ RunInv'
<1> SUFFICES ASSUME Down, TypeOK' PROVE PhaseInv' /\ HandlerInv' /\ EntryInv' /\ LoopInv' /\ RunInv'
  OBVIOUS
<1> USE CronAssumption
<1>1. PhaseInv'
  BY DEF Down, PhaseInv, Idle
<1>2. HandlerInv'
  BY DEF Down, HandlerInv, Held, Stopping, Idle
<1>3. EntryInv' /\ LoopInv' /\ RunInv'
  BY DEF Down, EntryInv, LoopInv, RunInv, NoEntry
<1> QED BY <1>1, <1>2, <1>3

(* What the steps of a handler leave alone. *)
LEMMA HandleKeeps ==
  ASSUME TypeOK, NEW h \in Handlers, Handle(h)
  PROVE  /\ UNCHANGED <<phase, starting, entries>>
         /\ handler[h].at # "idle"
         /\ \A g \in Handlers \ {h} : handler'[g] = handler[g]
         /\ \A j \in Jobs : stored[j] # "none" => stored'[j] # "none"
BY DEF TypeOK, Handle, PauseEntry, PauseStore, ResumeStore, ResumeFails, Restart, StopCancel, StopStore,
       Goto, Return

(* A handler ends its call, or goes on with the job it has. *)
LEMMA HandleGoes ==
  ASSUME TypeOK, NEW h \in Handlers, Handle(h)
  PROVE  \/ handler'[h].at = "idle" /\ (Held(h) => mu' = None) /\ (~Held(h) => mu' = mu)
         \/ /\ handler'[h].job = handler[h].job
            /\ mu' = mu
            /\ \/ handler[h].at = "pause" /\ handler'[h].at = "pause_store"
               \/ handler[h].at = "resume_store" /\ handler'[h].at = "restart"
               \/ handler[h].at = "stop_cancel" /\ handler'[h].at = "stop_store"
BY DEF TypeOK, Handle, PauseEntry, PauseStore, ResumeStore, ResumeFails, Restart, StopCancel, StopStore,
       Goto, Return, Idle, Held

(* What a run of a goroutine leaves alone. *)
LEMMA RunKeeps ==
  ASSUME NEW l \in Loops, Run(l)
  PROVE  UNCHANGED <<stored, phase, starting, entries, entry, mu, handler>>
BY DEF Run, Tick, Callback, Quit

LEMMA PhaseStep ==
  ASSUME IInv, Next, TypeOK'
  PROVE  PhaseInv'
<1> USE DEF IInv, PhaseInv
<1>1. CASE Boot \/ Serve \/ CancelAll \/ Close
  BY <1>1 DEF Boot, Serve, CancelAll, Close
<1>2. CASE Exit \/ Crash
  BY <1>2, DownEstablishes DEF Exit, Crash
<1>3. ASSUME NEW j \in Jobs, StartEntry(j) PROVE PhaseInv'
  BY <1>3 DEF StartEntry
<1>4. ASSUME NEW h \in Handlers, Begin(h) PROVE PhaseInv'
  <2>1. phase' = phase /\ starting' = starting /\ Serving
    BY <1>4 DEF Begin, Create, Pause, Resume, Stop
  <2>2. starting = {} /\ phase \notin {"down", "starting"}
    BY <2>1 DEF Serving
  <2>3. phase = "closed" => mu' = mu
    BY <1>4 DEF Begin, Create, Pause, Resume, Stop
  <2> QED BY <2>1, <2>2, <2>3
<1>5. ASSUME NEW h \in Handlers, Handle(h) PROVE PhaseInv'
  <2>1. /\ UNCHANGED <<phase, starting, entries>> /\ handler[h].at # "idle"
        /\ mu' \in {mu, None}
    BY <1>5, HandleKeeps, HandleGoes
  <2> QED BY <2>1
<1>6. ASSUME NEW l \in Loops, Run(l) PROVE PhaseInv'
  BY <1>6, RunKeeps
<1> QED BY <1>1, <1>2, <1>3, <1>4, <1>5, <1>6 DEF Next

LEMMA HandlerStep ==
  ASSUME IInv, Next, TypeOK'
  PROVE  HandlerInv'
<1> USE CronAssumption DEF IInv
<1>1. CASE Boot \/ Serve \/ CancelAll \/ Close
  BY <1>1 DEF Boot, Serve, CancelAll, Close, HandlerInv, Held, Stopping
<1>2. CASE Exit \/ Crash
  BY <1>2, DownEstablishes DEF Exit, Crash
<1>3. ASSUME NEW j \in Jobs, StartEntry(j) PROVE HandlerInv'
  <2>1. \A h \in Handlers : handler'[h].at = "idle" /\ mu' = None
    BY <1>3 DEF StartEntry, PhaseInv
  <2> QED BY <2>1 DEF HandlerInv, Held, Stopping
<1>4. ASSUME NEW h \in Handlers, NEW j \in Jobs, Create(h, j) PROVE HandlerInv'
  <2>1. /\ UNCHANGED <<mu, handler>> /\ entries' = entries \cup {j}
        /\ stored[j] = "none" /\ stored' = [stored EXCEPT ![j] = "active"]
    BY <1>4 DEF Create
  <2>2. ASSUME NEW g \in Handlers, handler[g].at # "idle" PROVE handler[g].job # j
    BY <2>1, <2>2 DEF HandlerInv
  <2> QED BY <2>1, <2>2 DEF HandlerInv, Held, Stopping, TypeOK
<1>5. ASSUME NEW h \in Handlers, NEW j \in Jobs, Pause(h, j) \/ Resume(h, j) \/ Stop(h, j)
      PROVE HandlerInv'
  <2>1. /\ mu = None /\ handler[h].at = "idle" /\ j \in entries /\ stored' = stored
        /\ handler'[h].job = j
        /\ \A g \in Handlers \ {h} : handler'[g] = handler[g]
        /\ \/ handler'[h].at = "pause" /\ mu' = mu /\ entries' = entries
           \/ handler'[h].at = "resume_store" /\ mu' = h /\ entries' = entries
           \/ handler'[h].at = "stop_cancel" /\ mu' = mu /\ entries' = entries \ {j}
    BY <1>5 DEF Pause, Resume, Stop, Goto, TypeOK
  <2>2. stored[j] # "none"
    BY <2>1 DEF EntryInv
  <2>3. \A g \in Handlers : ~Held(g)
    BY <2>1 DEF HandlerInv
  <2> QED BY <2>1, <2>2, <2>3 DEF HandlerInv, Held, Stopping
<1>6. ASSUME NEW h \in Handlers, Handle(h) PROVE HandlerInv'
  <2>1. /\ UNCHANGED entries
        /\ \A g \in Handlers \ {h} : handler'[g] = handler[g]
        /\ \A j \in Jobs : stored[j] # "none" => stored'[j] # "none"
        /\ handler[h].at # "idle"
    BY <1>6, HandleKeeps
  <2>2. \/ handler'[h].at = "idle" /\ (Held(h) => mu' = None) /\ (~Held(h) => mu' = mu)
        \/ /\ handler'[h].job = handler[h].job
           /\ mu' = mu
           /\ \/ handler[h].at = "pause" /\ handler'[h].at = "pause_store"
              \/ handler[h].at = "resume_store" /\ handler'[h].at = "restart"
              \/ handler[h].at = "stop_cancel" /\ handler'[h].at = "stop_store"
    BY <1>6, HandleGoes
  <2>3. ASSUME NEW g \in Handlers \ {h}
        PROVE  /\ handler'[g].at # "idle" => handler'[g].job \in Jobs /\ stored'[handler'[g].job] # "none"
               /\ handler'[g].at \in {"resume_store", "restart"} <=> mu' = g
               /\ handler'[g].at \in {"resume_store", "restart"} => handler'[g].job \in entries'
               /\ handler'[g].at \in {"stop_cancel", "stop_store"} => handler'[g].job \notin entries'
    BY <2>1, <2>2 DEF HandlerInv, Held, Stopping
  <2>4. /\ handler'[h].at # "idle" => handler'[h].job \in Jobs /\ stored'[handler'[h].job] # "none"
        /\ handler'[h].at \in {"resume_store", "restart"} <=> mu' = h
        /\ handler'[h].at \in {"resume_store", "restart"} => handler'[h].job \in entries'
        /\ handler'[h].at \in {"stop_cancel", "stop_store"} => handler'[h].job \notin entries'
    BY <2>1, <2>2 DEF HandlerInv, Held, Stopping
  <2> QED BY <2>3, <2>4 DEF HandlerInv, Held, Stopping
<1>7. ASSUME NEW l \in Loops, Run(l) PROVE HandlerInv'
  BY <1>7, RunKeeps DEF HandlerInv, Held, Stopping
<1> QED BY <1>1, <1>2, <1>3, <1>4, <1>5, <1>6, <1>7 DEF Next, Begin

LEMMA EntryStep ==
  ASSUME IInv, Next, TypeOK'
  PROVE  EntryInv'
<1> USE DEF IInv
<1>1. CASE Boot \/ Serve \/ CancelAll \/ Close
  BY <1>1 DEF Boot, Serve, CancelAll, Close, EntryInv
<1>2. CASE Exit \/ Crash
  BY <1>2, DownEstablishes DEF Exit, Crash
<1>3. ASSUME NEW j \in Jobs, StartEntry(j) PROVE EntryInv'
  BY <1>3 DEF StartEntry, EntryInv, PhaseInv
<1>4. ASSUME NEW h \in Handlers, Begin(h) PROVE EntryInv'
  BY <1>4 DEF Begin, Create, Pause, Resume, Stop, EntryInv, TypeOK
<1>5. ASSUME NEW h \in Handlers, Handle(h) PROVE EntryInv'
  <2>1. entries' = entries /\ handler[h].at # "idle"
    BY <1>5, HandleKeeps
  <2>2. CASE StopStore(h)
    BY <2>1, <2>2 DEF StopStore, EntryInv, HandlerInv, Stopping, TypeOK
  <2>3. CASE ~StopStore(h)
    BY <2>1, <2>3, <1>5 DEF Handle, PauseEntry, PauseStore, ResumeStore, ResumeFails, Restart,
                            StopCancel, EntryInv, TypeOK
  <2> QED BY <2>2, <2>3
<1>6. ASSUME NEW l \in Loops, Run(l) PROVE EntryInv'
  BY <1>6, RunKeeps DEF EntryInv
<1> QED BY <1>1, <1>2, <1>3, <1>4, <1>5, <1>6 DEF Next

(* A new goroutine is of one entry only. *)
LEMMA StartLoopAlone ==
  ASSUME TypeOK, LoopInv, NEW j \in Jobs, NEW s, StartLoop(j, s)
  PROVE  LoopInv'
<1>1. PICK l \in Loops :
        /\ \A i \in Jobs : entry[i].loop # l
        /\ entry' = [entry EXCEPT ![j] = [status |-> s, loop |-> l]]
  BY StartLoopTakesFree
<1>2. /\ entry'[j].loop = l
      /\ \A i \in Jobs \ {j} : entry'[i] = entry[i]
  BY <1>1 DEF TypeOK
<1> QED BY <1>1, <1>2 DEF LoopInv

LEMMA LoopStep ==
  ASSUME IInv, Next, TypeOK'
  PROVE  LoopInv'
<1> USE DEF IInv
<1>1. CASE Boot \/ Serve \/ CancelAll \/ Close
  BY <1>1 DEF Boot, Serve, CancelAll, Close, LoopInv
<1>2. CASE Exit \/ Crash
  BY <1>2, DownEstablishes DEF Exit, Crash
<1>3. ASSUME NEW j \in Jobs, StartEntry(j) PROVE LoopInv'
  BY <1>3, StartLoopAlone DEF StartEntry
<1>4. ASSUME NEW h \in Handlers, Begin(h) PROVE LoopInv'
  <2>1. ASSUME NEW j \in Jobs, Create(h, j) PROVE LoopInv'
    BY <2>1, StartLoopAlone DEF Create
  <2>2. ASSUME NEW j \in Jobs, Resume(h, j) PROVE LoopInv'
    <3>1. \A i \in Jobs : entry'[i].loop = entry[i].loop
      BY <2>2 DEF Resume, TypeOK
    <3> QED BY <3>1 DEF LoopInv
  <2>3. ASSUME NEW j \in Jobs, Pause(h, j) \/ Stop(h, j) PROVE LoopInv'
    BY <2>3 DEF Pause, Stop, LoopInv
  <2> QED BY <1>4, <2>1, <2>2, <2>3 DEF Begin
<1>5. ASSUME NEW h \in Handlers, Handle(h) PROVE LoopInv'
  <2>1. CASE Restart(h)
    <3>1. handler[h].job \in Jobs
      BY <2>1 DEF Restart, HandlerInv
    <3> QED BY <2>1, <3>1, StartLoopAlone DEF Restart
  <2>2. CASE ~Restart(h)
    <3>1. entry' = entry \/ entry' = [entry EXCEPT ![handler[h].job].status = "paused"]
      BY <2>2, <1>5 DEF Handle, PauseEntry, PauseStore, ResumeStore, ResumeFails, StopCancel, StopStore
    <3>2. \A i \in Jobs : entry'[i].loop = entry[i].loop
      BY <3>1 DEF TypeOK
    <3> QED BY <3>2 DEF LoopInv
  <2> QED BY <2>1, <2>2
<1>6. ASSUME NEW l \in Loops, Run(l) PROVE LoopInv'
  BY <1>6, RunKeeps DEF LoopInv
<1> QED BY <1>1, <1>2, <1>3, <1>4, <1>5, <1>6 DEF Next

-----------------------------------------------------------------------------
(***************************************************************************)
(* A job that is active is served.                                         *)
(***************************************************************************)
(* A new goroutine serves its entry, and those that served others go on.   *)
LEMMA StartLoopServes ==
  ASSUME TypeOK, NEW j \in Jobs, NEW s, StartLoop(j, s)
  PROVE  /\ Served(j)'
         /\ \A i \in Jobs \ {j} : entry'[i] = entry[i] /\ (Served(i) => Served(i)')
<1>1. PICK l \in Loops :
        /\ \A i \in Jobs : entry[i].loop # l
        /\ loop' = [loop EXCEPT ![l] = [at |-> "wait", job |-> j, canceled |-> FALSE]]
        /\ entry' = [entry EXCEPT ![j] = [status |-> s, loop |-> l]]
  BY StartLoopTakesFree
<1>2. entry'[j].loop = l /\ loop'[l] = [at |-> "wait", job |-> j, canceled |-> FALSE] /\ l # None
  BY <1>1, CronAssumption DEF TypeOK
<1>3. \A i \in Jobs \ {j} : entry'[i] = entry[i]
  BY <1>1 DEF TypeOK
<1>4. ASSUME NEW i \in Jobs \ {j}, Served(i) PROVE Served(i)'
  <2>1. entry[i].loop \in Loops \ {l}
    BY <1>1, <1>4 DEF Served, TypeOK
  <2>2. loop'[entry[i].loop] = loop[entry[i].loop]
    BY <1>1, <2>1 DEF TypeOK
  <2> QED BY <1>3, <1>4, <2>2 DEF Served, Alive
<1> QED BY <1>2, <1>3, <1>4 DEF Served, Alive

(* Canceling the goroutine of one entry leaves the others served. *)
LEMMA CanceledServes ==
  ASSUME TypeOK, LoopInv, NEW j \in Jobs, loop' = Canceled(entry[j].loop),
         \A i \in Jobs : entry'[i].loop = entry[i].loop,
         NEW i \in Jobs \ {j}, Served(i)
  PROVE  Served(i)'
<1>1. CASE entry[j].loop = None
  BY <1>1 DEF Canceled, Served, Alive
<1>2. CASE entry[j].loop # None
  <2>1. entry[i].loop # entry[j].loop /\ entry[i].loop \in Loops
    BY <1>2 DEF LoopInv, Served, TypeOK
  <2>2. loop'[entry[i].loop] = loop[entry[i].loop]
    BY <1>2, <2>1 DEF Canceled, TypeOK
  <2> QED BY <2>2 DEF Served, Alive
<1> QED BY <1>1, <1>2

LEMMA RunStep ==
  ASSUME IInv, Next, TypeOK'
  PROVE  RunInv'
<1> USE CronAssumption DEF IInv
<1>1. CASE Boot
  BY <1>1 DEF Boot, RunInv, PhaseInv
<1>2. CASE Serve
  BY <1>2 DEF Serve, RunInv, Served, Alive
<1>3. CASE CancelAll \/ Close
  BY <1>3 DEF CancelAll, Close, RunInv
<1>4. CASE Exit \/ Crash
  BY <1>4, DownEstablishes DEF Exit, Crash
<1>5. ASSUME NEW j \in Jobs, StartEntry(j) PROVE RunInv'
  <2>1. /\ StartLoop(j, stored[j]) /\ entries' = entries \cup {j}
        /\ UNCHANGED <<phase, mu, handler>> /\ phase = "starting"
    BY <1>5 DEF StartEntry
  <2>2. /\ Served(j)'
        /\ \A i \in Jobs \ {j} : entry'[i] = entry[i] /\ (Served(i) => Served(i)')
    BY <2>1, StartLoopServes
  <2> QED BY <2>1, <2>2 DEF RunInv, TypeOK
<1>6. ASSUME NEW h \in Handlers, NEW j \in Jobs, Create(h, j) PROVE RunInv'
  <2>1. /\ StartLoop(j, "active") /\ entries' = entries \cup {j}
        /\ UNCHANGED <<phase, mu, handler>>
    BY <1>6 DEF Create
  <2>2. /\ Served(j)'
        /\ \A i \in Jobs \ {j} : entry'[i] = entry[i] /\ (Served(i) => Served(i)')
    BY <2>1, StartLoopServes
  <2> QED BY <2>1, <2>2 DEF RunInv, TypeOK
<1>7. ASSUME NEW h \in Handlers, NEW j \in Jobs, Pause(h, j) \/ Stop(h, j) PROVE RunInv'
  <2>1. /\ mu = None /\ mu' = mu /\ entries' \subseteq entries
        /\ UNCHANGED <<phase, entry, loop>>
    BY <1>7 DEF Pause, Stop
  <2> QED BY <2>1 DEF RunInv, Served, Alive
<1>8. ASSUME NEW h \in Handlers, NEW j \in Jobs, Resume(h, j) PROVE RunInv'
  <2>1. /\ mu = None /\ mu' = h /\ handler'[h].job = j
        /\ UNCHANGED <<phase, entries, loop>>
        /\ entry'[j].loop = entry[j].loop
        /\ \A i \in Jobs \ {j} : entry'[i] = entry[i]
    BY <1>8 DEF Resume, Goto, TypeOK
  <2> QED BY <2>1 DEF RunInv, Served, Alive, TypeOK
<1>9. ASSUME NEW h \in Handlers, Handle(h) PROVE RunInv'
  <2> DEFINE j == handler[h].job
  <2>1. /\ UNCHANGED <<phase, entries>> /\ j \in Jobs
        /\ \A g \in Handlers \ {h} : handler'[g] = handler[g]
    BY <1>9, HandleKeeps DEF HandlerInv
  <2>2. CASE PauseEntry(h)
    <3>1. CASE UNCHANGED <<entry, loop>> /\ mu' = mu
      <4>1. mu # h
        BY <2>2 DEF PauseEntry, HandlerInv, Held
      <4>2. mu # None => handler'[mu] = handler[mu]
        BY <2>1, <4>1 DEF TypeOK
      <4> QED BY <2>1, <3>1, <4>2 DEF RunInv, Served, Alive
    <3>2. CASE /\ loop' = Canceled(entry[j].loop)
               /\ entry' = [entry EXCEPT ![j].status = "paused"]
               /\ mu' = mu
      <4>1. mu # h
        BY <2>2 DEF PauseEntry, HandlerInv, Held
      <4>2. mu # None => handler'[mu] = handler[mu]
        BY <2>1, <4>1 DEF TypeOK
      <4>3. /\ entry'[j].status = "paused"
            /\ \A i \in Jobs : entry'[i].loop = entry[i].loop
            /\ \A i \in Jobs \ {j} : entry'[i].status = entry[i].status
        BY <2>1, <3>2 DEF TypeOK
      <4>4. \A i \in Jobs \ {j} : Served(i) => Served(i)'
        BY <2>1, <3>2, <4>3, CanceledServes
      <4> HIDE DEF j
      <4> QED BY <2>1, <3>2, <4>2, <4>3, <4>4 DEF RunInv, TypeOK
    <3> QED BY <2>2, <3>1, <3>2 DEF PauseEntry
  <2>3. CASE PauseStore(h) \/ StopStore(h)
    <3>1. mu # h /\ UNCHANGED <<entry, loop, mu>>
      BY <2>3 DEF PauseStore, StopStore, HandlerInv, Held
    <3>2. mu # None => handler'[mu] = handler[mu]
      BY <2>1, <3>1 DEF TypeOK
    <3> QED BY <2>1, <3>1, <3>2 DEF RunInv, Served, Alive
  <2>4. CASE ResumeStore(h)
    <3>1. UNCHANGED <<entry, loop, mu>> /\ handler'[h].job = handler[h].job
      BY <2>4 DEF ResumeStore, Goto, TypeOK
    <3>2. mu # None => handler'[mu].job = handler[mu].job
      BY <2>1, <3>1 DEF TypeOK
    <3> QED BY <2>1, <3>1, <3>2 DEF RunInv, Served, Alive
  <2>5. CASE ResumeFails(h)
    <3>1. /\ mu = h /\ mu' = None /\ loop' = loop
          /\ entry'[j].status = "paused"
          /\ \A i \in Jobs : entry'[i].loop = entry[i].loop
          /\ \A i \in Jobs \ {j} : entry'[i].status = entry[i].status
      BY <2>1, <2>5 DEF ResumeFails, HandlerInv, Held, TypeOK
    <3> QED BY <2>1, <3>1 DEF RunInv, Served, Alive, TypeOK
  <2>6. CASE Restart(h)
    <3>1. PICK i \in Jobs : i = j
      BY <2>1
    <3>2. mu = h /\ mu' = None /\ StartLoop(i, entry[i].status) /\ handler[mu].job = i
      BY <2>6, <3>1 DEF Restart, HandlerInv, Held
    <3>3. /\ Served(i)'
          /\ \A k \in Jobs \ {i} : entry'[k] = entry[k] /\ (Served(k) => Served(k)')
      BY <3>2, StartLoopServes
    <3> HIDE DEF j
    <3> QED BY <2>1, <3>2, <3>3 DEF RunInv, TypeOK
  <2>7. CASE StopCancel(h)
    <3>1. mu # h /\ j \notin entries
      BY <2>7 DEF StopCancel, HandlerInv, Held, Stopping
    <3>2. loop' = Canceled(entry[j].loop) /\ UNCHANGED <<entry, mu>>
      BY <2>7 DEF StopCancel
    <3>3. mu # None => handler'[mu] = handler[mu]
      BY <2>1, <3>1, <3>2 DEF TypeOK
    <3>4. \A i \in Jobs \ {j} : Served(i) => Served(i)'
      BY <2>1, <3>2, CanceledServes
    <3> HIDE DEF j
    <3> QED BY <2>1, <3>1, <3>2, <3>3, <3>4 DEF RunInv, TypeOK
  <2> QED BY <1>9, <2>2, <2>3, <2>4, <2>5, <2>6, <2>7 DEF Handle
<1>10. ASSUME NEW l \in Loops, Run(l) PROVE RunInv'
  <2>1. UNCHANGED <<phase, entries, entry, mu, handler>>
    BY <1>10, RunKeeps
  <2>2. ASSUME phase \in {"starting", "up"}, NEW j \in Jobs, entry[j].status = "active", Served(j)
        PROVE  Served(j)'
    <3>1. CASE entry[j].loop = l
      <4>1. loop[l].job = j /\ ~loop[l].canceled
        BY <2>2, <3>1 DEF Served
      <4>2. loop' = [loop EXCEPT ![l].at = "tick"] \/ loop' = [loop EXCEPT ![l].at = "wait"]
        BY <1>10, <2>2, <4>1 DEF Run, Tick, Callback, Quit, Done
      <4> QED BY <2>1, <2>2, <3>1, <4>2 DEF Served, Alive, TypeOK
    <3>2. CASE entry[j].loop # l
      <4>1. \A k \in Loops \ {l} : loop'[k] = loop[k]
        BY <1>10 DEF Run, Tick, Callback, Quit, TypeOK
      <4>2. entry[j].loop \in Loops \ {l}
        BY <2>2, <3>2 DEF Served, TypeOK
      <4> QED BY <2>1, <2>2, <4>1, <4>2 DEF Served, Alive
    <3> QED BY <3>1, <3>2
  <2> QED BY <2>1, <2>2 DEF RunInv, TypeOK
<1> QED BY <1>1, <1>2, <1>3, <1>4, <1>5, <1>6, <1>7, <1>8, <1>9, <1>10 DEF Next, Begin

-----------------------------------------------------------------------------
(***************************************************************************)
(* The theorems.                                                           *)
(***************************************************************************)
LEMMA Inductive ==
  /\ Init => IInv
  /\ IInv /\ [Next]_vars => IInv'
<1>1. Init => IInv
  <2> SUFFICES ASSUME Init PROVE IInv
    OBVIOUS
  <2> USE CronAssumption DEF Init
  <2>1. TypeOK /\ PhaseInv /\ EntryInv /\ LoopInv /\ RunInv
    BY TypeInit DEF PhaseInv, EntryInv, LoopInv, RunInv, NoEntry, Idle
  <2>2. HandlerInv
    BY DEF HandlerInv, Held, Stopping, Idle
  <2> QED BY <2>1, <2>2 DEF IInv
<1>2. ASSUME IInv, Next PROVE IInv'
  <2>1. TypeOK'
    BY <1>2, TypeStep DEF IInv
  <2> QED BY <1>2, <2>1, PhaseStep, HandlerStep, EntryStep, LoopStep, RunStep DEF IInv
<1>3. ASSUME IInv, UNCHANGED vars PROVE IInv'
  BY <1>3 DEF IInv, vars, memory, TypeOK, PhaseInv, HandlerInv, EntryInv, LoopInv, RunInv, Held,
              Stopping, Served, Alive
<1> QED BY <1>1, <1>2, <1>3

LEMMA InvariantHolds == Spec => []IInv
BY Inductive, PTL DEF Spec

(* The types of the scheduler's variables. *)
THEOREM TypeCorrect == Spec => []TypeOK
BY InvariantHolds, PTL DEF IInv

(* A job that its entry calls active has a goroutine that ticks and that   *)
(* the entry can cancel, unless a resume is about to start it.             *)
THEOREM ActiveJobsRun == Spec => []ActiveRuns
<1>1. IInv => ActiveRuns
  BY DEF IInv, RunInv, ActiveRuns, Served
<1> QED BY InvariantHolds, <1>1, PTL

(* A job that is stored as stopped is not stored as active again, and a    *)
(* scheduler that is closed starts nothing.                                *)
THEOREM EndsStay == Spec => EndsAreFinal
<1>1. IInv /\ [Next]_vars => [\A j \in Jobs : stored[j] = "stopped" => stored'[j] # "active"]_vars
  <2> SUFFICES ASSUME IInv, Next, NEW j \in Jobs, stored[j] = "stopped" PROVE stored'[j] # "active"
    OBVIOUS
  <2>1. j \notin entries
    BY DEF IInv, EntryInv
  <2>2. ASSUME NEW h \in Handlers, Handle(h) PROVE stored'[j] # "active"
    <3>1. ResumeStore(h) => handler[h].job # j
      BY <2>1 DEF ResumeStore, IInv, HandlerInv, Held
    <3> QED BY <2>2, <3>1 DEF Handle, PauseEntry, PauseStore, ResumeStore, ResumeFails, Restart,
                              StopCancel, StopStore, IInv, TypeOK
  <2>3. ASSUME NEW h \in Handlers, Begin(h) PROVE stored'[j] # "active"
    BY <2>3 DEF Begin, Create, Pause, Resume, Stop, IInv, TypeOK
  <2>4. ASSUME NEW l \in Loops, Run(l) PROVE stored'[j] # "active"
    BY <2>4, RunKeeps
  <2> QED BY <2>2, <2>3, <2>4 DEF Next, Boot, Serve, CancelAll, Close, Exit, Crash, Down, StartEntry
<1>2. IInv /\ [Next]_vars =>
        [phase = "closed" /\ phase' = "closed" =>
           /\ \A l \in Loops : Alive(l)' => Alive(l)
           /\ \A j \in Jobs : stored[j] = "none" => stored'[j] = "none"]_vars
  <2> SUFFICES ASSUME IInv, Next, phase = "closed", phase' = "closed"
               PROVE  /\ \A l \in Loops : Alive(l)' => Alive(l)
                      /\ \A j \in Jobs : stored[j] = "none" => stored'[j] = "none"
    OBVIOUS
  <2> USE DEF IInv
  <2>1. mu = None /\ \A h \in Handlers : ~Held(h)
    BY CronAssumption DEF PhaseInv, HandlerInv
  <2>2. ASSUME NEW h \in Handlers, Begin(h)
        PROVE  UNCHANGED <<stored, loop>>
    BY <2>2 DEF Begin, Create, Pause, Resume, Stop
  <2>3. ASSUME NEW h \in Handlers, Handle(h)
        PROVE  /\ \A l \in Loops : Alive(l)' => Alive(l)
               /\ \A j \in Jobs : stored[j] = "none" => stored'[j] = "none"
    <3>1. ~Restart(h) /\ ~ResumeStore(h) /\ ~ResumeFails(h)
      BY <2>1 DEF Restart, ResumeStore, ResumeFails, Held
    <3>2. handler[h].job \in Jobs /\ stored[handler[h].job] # "none"
      BY <2>3, HandleKeeps DEF HandlerInv
    <3>3. \/ loop' = loop
          \/ \E l \in Loops \cup {None} : loop' = Canceled(l)
      BY <2>3, <3>1, <3>2 DEF Handle, PauseEntry, PauseStore, StopCancel, StopStore, TypeOK
    <3>4. \A l \in Loops : Alive(l)' => Alive(l)
      BY <3>3 DEF Alive, Canceled, TypeOK
    <3>5. \A j \in Jobs : stored[j] = "none" => stored'[j] = "none"
      BY <2>3, <3>1, <3>2 DEF Handle, PauseEntry, PauseStore, StopCancel, StopStore, TypeOK
    <3> QED BY <3>4, <3>5
  <2>4. ASSUME NEW l \in Loops, Run(l)
        PROVE  stored' = stored /\ \A k \in Loops : Alive(k)' => Alive(k)
    <3>1. stored' = stored
      BY <2>4, RunKeeps
    <3>2. \/ loop[l].at = "wait" /\ loop' = [loop EXCEPT ![l].at = "tick"]
          \/ loop[l].at = "tick" /\ loop' = [loop EXCEPT ![l].at = "wait"]
          \/ loop' = [loop EXCEPT ![l] = NoLoop]
      BY <2>4 DEF Run, Tick, Callback, Quit
    <3> QED BY <3>1, <3>2 DEF Alive, NoLoop, TypeOK
  <2>5. ~(Boot \/ Serve \/ CancelAll \/ Close \/ Exit \/ Crash \/ \E j \in Jobs : StartEntry(j))
    BY DEF Boot, Serve, CancelAll, Close, Exit, Crash, Down, StartEntry
  <2>6. \/ \E h \in Handlers : Begin(h) \/ Handle(h)
        \/ \E l \in Loops : Run(l)
    BY <2>5 DEF Next
  <2>7. CASE \E h \in Handlers : Begin(h)
    BY <2>2, <2>7 DEF Alive
  <2> QED BY <2>3, <2>4, <2>6, <2>7
<1> QED BY InvariantHolds, <1>1, <1>2, PTL DEF Spec, EndsAreFinal, StoppedIsFinal, ClosedAdmitsNothing

-----------------------------------------------------------------------------
(***************************************************************************)
(* A fleet. The inductive invariant: what the place of a worker says of    *)
(* its status, what the table holds of the workers, and what each place of *)
(* runFleet says of the fleet.                                             *)
(***************************************************************************)
Ended == {w \in Workers : worker[w].status = "ended"}

WorkerInv ==
  \A w \in Workers :
    /\ worker[w].at = "none" <=> w > launched
    /\ worker[w].status = "pending" <=> worker[w].at \in {"none", "begin"}
    /\ worker[w].at \in {"execute", "end"} => worker[w].status = "running"

TableInv ==
  /\ completed = Cardinality(Ended)
  /\ cancelFns = Unanswered

MainInv ==
  /\ main \in {"none", "insert"} => launched = 0
  /\ main \in {"launch", "finish"} => listed
  /\ main \in {"finish", "send", "close", "done"} => launched = Total /\ InFlight = {}
  /\ status = "completed" <=> main \in {"send", "close", "done"}
  /\ closed <=> main = "done"

FleetInv == FleetTypeOK /\ WorkerInv /\ TableInv /\ MainInv /\ StreamEndsCompleted

-----------------------------------------------------------------------------
(***************************************************************************)
(* Sets of workers are finite; the channel keeps its capacity.             *)
(***************************************************************************)
LEMMA WorkersAreFinite ==
  ASSUME NEW S \in SUBSET Workers
  PROVE  IsFiniteSet(S) /\ Cardinality(S) \in 0..Total
<1>1. IsFiniteSet(Workers) /\ Cardinality(Workers) = Total
  BY FleetAssumption, FS_Interval DEF Workers
<1>2. IsFiniteSet(S) /\ Cardinality(S) <= Total
  BY <1>1, FS_Subset
<1>3. Cardinality(S) \in Nat
  BY <1>2, FS_CardinalityType
<1> QED BY <1>2, <1>3, FleetAssumption

(* Two halves of the workers add up to all of them. *)
LEMMA HalvesAddUp ==
  ASSUME NEW S \in SUBSET Workers
  PROVE  Cardinality(S) = Total - Cardinality(Workers \ S)
<1>1. IsFiniteSet(Workers) /\ Cardinality(Workers) = Total
  BY FleetAssumption, FS_Interval DEF Workers
<1>2. /\ IsFiniteSet(S) /\ IsFiniteSet(Workers \ S) /\ S \cup (Workers \ S) = Workers
      /\ S \cap (Workers \ S) = {}
  BY WorkersAreFinite
<1>3. Cardinality(Workers) = Cardinality(S) + Cardinality(Workers \ S) - Cardinality({})
  BY <1>2, FS_Union
<1> QED BY <1>1, <1>3, WorkersAreFinite, FS_EmptySet, FleetAssumption

LEMMA OfferTypes ==
  ASSUME FleetTypeOK, NEW snapshot \in {"running", "completed"}, Offer(snapshot)
  PROVE  events' \in Seq({"running", "completed"}) /\ Len(events') <= Cap
<1>1. /\ events \in Seq({"running", "completed"}) /\ Len(events) <= Cap /\ Len(events) \in Nat
      /\ Cap \in Nat
  BY FleetAssumption, LenProperties DEF FleetTypeOK
<1>2. CASE events' = events
  BY <1>1, <1>2
<1>3. CASE events' = Append(events, snapshot) /\ Len(events) # Cap
  BY <1>1, <1>3, AppendProperties
<1> QED BY <1>2, <1>3 DEF Offer

LEMMA ReadTypes ==
  ASSUME FleetTypeOK, ClientReads
  PROVE  /\ events' \in Seq({"running", "completed"}) /\ Len(events') <= Cap
         /\ events' # <<>> => events'[Len(events')] = events[Len(events)]
<1>1. /\ events \in Seq({"running", "completed"}) /\ Len(events) <= Cap /\ Len(events) \in Nat
      /\ Cap \in Nat /\ events # <<>> /\ events' = Tail(events)
  BY FleetAssumption, LenProperties DEF FleetTypeOK, ClientReads
<1>2. /\ events' \in Seq({"running", "completed"}) /\ Len(events') = Len(events) - 1
      /\ \A i \in 1..Len(events') : events'[i] = events[i + 1]
  BY <1>1, HeadTailProperties
<1>3. Len(events') \in Nat /\ (events' # <<>> => Len(events') # 0)
  BY <1>2, LenProperties, EmptySeq
<1>4. events' # <<>> => Len(events') \in 1..Len(events') /\ Len(events') + 1 = Len(events)
  BY <1>1, <1>2, <1>3
<1> QED BY <1>1, <1>2, <1>4

-----------------------------------------------------------------------------
(***************************************************************************)
(* The steps of runFleet.                                                  *)
(***************************************************************************)
LEMMA InitInv == FleetInit => FleetInv
<1> SUFFICES ASSUME FleetInit PROVE FleetInv
  OBVIOUS
<1>1. Ended = {} /\ Unanswered = {} /\ Cardinality({}) = 0
  BY FS_EmptySet DEF FleetInit, Ended, Unanswered
<1>2. /\ \A w \in Workers : w > 0
      /\ 1 \in Workers
  BY FleetAssumption DEF Workers
<1>3. FleetTypeOK
  <2>1. <<>> \in Seq({"running", "completed"}) /\ Len(<<>>) = 0 /\ 0 <= Cap /\ 0 \in 0..Total
    BY FleetAssumption
  <2> QED BY <1>2, <2>1 DEF FleetInit, FleetTypeOK, NoCall
<1>4. WorkerInv /\ TableInv /\ MainInv /\ StreamEndsCompleted
  BY <1>1, <1>2 DEF FleetInit, WorkerInv, TableInv, MainInv, StreamEndsCompleted
<1> QED BY <1>3, <1>4 DEF FleetInv

(* What a step that leaves the workers and their table alone keeps. *)
LEMMA WorkersAside ==
  ASSUME FleetInv, worker' = worker, launched' = launched, completed' = completed, cancelFns' = cancelFns
  PROVE  WorkerInv' /\ TableInv' /\ InFlight' = InFlight
<1>1. Ended' = Ended /\ Unanswered' = Unanswered
  BY DEF Ended, Unanswered
<1> QED BY <1>1 DEF FleetInv, WorkerInv, TableInv, InFlight

LEMMA FleetRunInv ==
  ASSUME FleetInv, RunFleet
  PROVE  FleetInv'
<1>1. CASE StartFleet \/ Insert \/ Wait \/ Finish \/ CloseEvents
  <2>1. WorkerInv' /\ TableInv' /\ InFlight' = InFlight
    BY <1>1, WorkersAside DEF StartFleet, Insert, Wait, Finish, CloseEvents, fleet
  <2>2. FleetTypeOK'
    BY <1>1 DEF FleetInv, FleetTypeOK, StartFleet, Insert, Wait, Finish, CloseEvents, fleet, kills, channel
  <2>3. MainInv'
    BY <1>1, <2>1 DEF FleetInv, FleetTypeOK, MainInv, StartFleet, Insert, Wait, Finish, CloseEvents, fleet, channel
  <2>4. StreamEndsCompleted'
    BY <1>1 DEF FleetInv, StreamEndsCompleted, StartFleet, Insert, Wait, Finish, CloseEvents, channel
  <2> QED BY <2>1, <2>2, <2>3, <2>4 DEF FleetInv
<1>2. CASE Launch
  <2>1. /\ main = "launch" /\ launched < Total /\ launched' = launched + 1
        /\ worker' = [worker EXCEPT ![launched + 1].at = "begin"]
        /\ main' = main /\ listed' = listed /\ status' = status /\ completed' = completed
        /\ cancelFns' = cancelFns /\ canceled' = canceled /\ killed' = killed /\ caller' = caller
        /\ events' = events /\ closed' = closed /\ lost' = lost /\ panicked' = panicked
        /\ gone' = gone /\ purging' = purging
    BY <1>2 DEF Launch, fleet, kills, channel
  <2>2. /\ launched \in Nat /\ Total \in Nat /\ launched + 1 \in Workers /\ launched' \in 0..Total
        /\ \A w \in Workers : w \in Nat
    BY <2>1, FleetAssumption DEF FleetInv, FleetTypeOK, Workers
  <2>3. /\ worker[launched + 1].at = "none" /\ worker[launched + 1].status = "pending"
    BY <2>2 DEF FleetInv, WorkerInv
  <2>4. FleetTypeOK'
    <3>1. worker' \in [Workers -> [at : {"none", "begin", "send", "execute", "end", "leave", "done"},
                                   status : {"pending", "running", "ended"}]]
      BY <2>1, <2>2 DEF FleetInv, FleetTypeOK
    <3> QED BY <2>1, <2>2, <3>1 DEF FleetInv, FleetTypeOK
  <2>5. /\ worker'[launched + 1].at = "begin" /\ worker'[launched + 1].status = "pending"
        /\ \A w \in Workers : w # launched + 1 => worker'[w] = worker[w]
    BY <2>1, <2>2, <2>3 DEF FleetInv, FleetTypeOK
  <2>6. WorkerInv'
    BY <2>1, <2>2, <2>5 DEF FleetInv, WorkerInv
  <2>7. Ended' = Ended /\ Unanswered' = Unanswered
    BY <2>2, <2>3, <2>5 DEF Ended, Unanswered
  <2>8. TableInv' /\ MainInv' /\ StreamEndsCompleted'
    BY <2>1, <2>7 DEF FleetInv, TableInv, MainInv, StreamEndsCompleted
  <2> QED BY <2>4, <2>6, <2>8 DEF FleetInv
<1>3. CASE Send
  <2>1. WorkerInv' /\ TableInv' /\ InFlight' = InFlight
    BY <1>3, WorkersAside DEF Send, fleet
  <2>2. ~closed
    BY <1>3 DEF FleetInv, MainInv, Send
  <2>3. /\ panicked' = panicked
        /\ events' = IF Len(events) = Cap THEN events ELSE Append(events, "completed")
    <3>1. panicked = FALSE /\ closed = FALSE
      BY <2>2 DEF FleetInv, FleetTypeOK, StreamEndsCompleted
    <3>2. (panicked \/ closed) = FALSE
      BY <3>1
    <3>3. panicked' = (panicked \/ closed)
          /\ events' = IF closed \/ Len(events) = Cap THEN events ELSE Append(events, "completed")
      BY <1>3 DEF Send, Offer
    <3> QED BY <3>1, <3>2, <3>3
  <2>4. FleetTypeOK'
    <3>1. events' \in Seq({"running", "completed"}) /\ Len(events') <= Cap
      BY <1>3, OfferTypes DEF FleetInv, Send
    <3>2. lost' \in BOOLEAN
      BY <1>3 DEF Send
    <3> QED BY <1>3, <2>3, <3>1, <3>2 DEF FleetInv, FleetTypeOK, Send, fleet, kills
  <2>5. MainInv'
    BY <1>3, <2>1 DEF FleetInv, MainInv, Send, fleet
  <2>6. StreamEndsCompleted'
    <3>1. ~lost' => events' = Append(events, "completed")
      BY <1>3, <2>3 DEF Send
    <3>2. /\ Len(Append(events, "completed")) = Len(events) + 1
          /\ Append(events, "completed")[Len(events) + 1] = "completed"
      BY AppendProperties DEF FleetInv, FleetTypeOK
    <3> QED BY <2>3, <3>1, <3>2 DEF FleetInv, StreamEndsCompleted
  <2> QED BY <2>1, <2>4, <2>5, <2>6 DEF FleetInv
<1> QED BY <1>1, <1>2, <1>3 DEF RunFleet

-----------------------------------------------------------------------------
(***************************************************************************)
(* The steps of a worker.                                                  *)
(***************************************************************************)
(* A worker that is under way holds the fleet in its launch loop, and that *)
(* keeps the channel open.                                                 *)
LEMMA UnderWay ==
  ASSUME FleetInv, NEW w \in Workers, worker[w].at \notin {"none", "done"}
  PROVE  main = "launch" /\ ~closed /\ status # "completed" /\ w <= launched
<1>1. w \in InFlight
  BY DEF InFlight
<1>2. w <= launched /\ launched # 0
  BY FleetAssumption DEF FleetInv, WorkerInv, FleetTypeOK, Workers
<1> QED BY <1>1, <1>2 DEF FleetInv, MainInv, FleetTypeOK

LEMMA WorkInv ==
  ASSUME FleetInv, NEW w \in Workers, Work(w) \/ Execute(w)
  PROVE  FleetInv'
<1>1. /\ worker[w].at \notin {"none", "done"}
      /\ main' = main /\ launched' = launched /\ listed' = listed /\ status' = status
      /\ caller' = caller /\ closed' = closed /\ lost' = lost /\ gone' = gone /\ purging' = purging
  BY DEF Work, BeginWorker, WorkerSends, End, Leave, Execute, fleet, kills, channel
<1>2. main = "launch" /\ ~closed /\ status # "completed" /\ w <= launched
  BY <1>1, UnderWay
<1>3. MainInv'
  BY <1>1, <1>2 DEF FleetInv, MainInv
<1>4. panicked' = panicked
  <2>1. panicked = FALSE /\ closed = FALSE
    BY <1>2 DEF FleetInv, FleetTypeOK, StreamEndsCompleted
  <2>2. CASE WorkerSends(w)
    <3>1. panicked' = (panicked \/ closed)
      BY <2>2 DEF WorkerSends, Offer
    <3> QED BY <2>1, <3>1
  <2>3. CASE ~WorkerSends(w)
    BY <2>3 DEF Work, BeginWorker, End, Leave, Execute, channel
  <2> QED BY <2>2, <2>3
<1>5. StreamEndsCompleted'
  BY <1>1, <1>2, <1>4 DEF FleetInv, StreamEndsCompleted
<1>6. events' \in Seq({"running", "completed"}) /\ Len(events') <= Cap
  <2>1. CASE WorkerSends(w)
    BY <2>1, OfferTypes DEF FleetInv, WorkerSends
  <2>2. CASE ~WorkerSends(w)
    BY <2>2 DEF FleetInv, FleetTypeOK, Work, BeginWorker, End, Leave, Execute, channel
  <2> QED BY <2>1, <2>2
<1>7. canceled' \subseteq Workers /\ killed' \subseteq Workers /\ cancelFns' \subseteq Workers
  BY DEF FleetInv, FleetTypeOK, Work, BeginWorker, WorkerSends, End, Leave, Execute, kills, fleet
<1>8. /\ worker' \in [Workers -> [at : {"none", "begin", "send", "execute", "end", "leave", "done"},
                                  status : {"pending", "running", "ended"}]]
      /\ \A v \in Workers : v # w => worker'[v] = worker[v]
  BY DEF FleetInv, FleetTypeOK, Work, BeginWorker, WorkerSends, End, Leave, Execute
<1>9. WorkerInv'
  <2>1. /\ worker'[w].at # "none"
        /\ worker'[w].status = "pending" <=> worker'[w].at \in {"none", "begin"}
        /\ worker'[w].at \in {"execute", "end"} => worker'[w].status = "running"
    BY DEF FleetInv, FleetTypeOK, WorkerInv, Work, BeginWorker, WorkerSends, End, Leave, Execute
  <2>2. ~(w > launched)
    BY <1>2, FleetAssumption DEF FleetInv, FleetTypeOK, Workers
  <2> QED BY <1>1, <1>8, <2>1, <2>2 DEF FleetInv, WorkerInv
<1>10. TableInv'
  <2>1. CASE BeginWorker(w)
    <3>1. worker[w].status = "pending" /\ worker'[w].status = "running"
          /\ cancelFns' = cancelFns \cup {w} /\ completed' = completed
      BY <2>1 DEF FleetInv, FleetTypeOK, WorkerInv, BeginWorker
    <3>2. Ended' = Ended /\ Unanswered' = Unanswered \cup {w}
      BY <1>8, <3>1 DEF Ended, Unanswered
    <3> QED BY <3>1, <3>2 DEF FleetInv, TableInv
  <2>2. CASE End(w)
    <3>1. worker[w].status = "running" /\ worker'[w].status = "ended"
          /\ cancelFns' = cancelFns \ {w} /\ completed' = completed + 1
      BY <2>2 DEF FleetInv, FleetTypeOK, WorkerInv, End
    <3>2. Ended' = Ended \cup {w} /\ w \notin Ended /\ Unanswered' = Unanswered \ {w}
      BY <1>8, <3>1 DEF Ended, Unanswered
    <3>3. Cardinality(Ended \cup {w}) = Cardinality(Ended) + 1
      BY <3>2, WorkersAreFinite, FS_AddElement DEF Ended
    <3> QED BY <3>1, <3>2, <3>3 DEF FleetInv, TableInv
  <2>3. CASE WorkerSends(w) \/ Leave(w) \/ Execute(w)
    <3>1. worker'[w].status = worker[w].status /\ cancelFns' = cancelFns /\ completed' = completed
      BY <2>3 DEF FleetInv, FleetTypeOK, WorkerSends, Leave, Execute, fleet
    <3>2. Ended' = Ended /\ Unanswered' = Unanswered
      BY <1>8, <3>1 DEF Ended, Unanswered
    <3> QED BY <3>1, <3>2 DEF FleetInv, TableInv
  <2> QED BY <2>1, <2>2, <2>3 DEF Work
<1>11. completed' \in 0..Total
  <2>1. Ended' \in SUBSET Workers
    BY DEF Ended, Workers
  <2> QED BY <1>10, <2>1, WorkersAreFinite DEF TableInv
<1>12. FleetTypeOK'
  BY <1>1, <1>4, <1>6, <1>7, <1>8, <1>11 DEF FleetInv, FleetTypeOK
<1> QED BY <1>3, <1>5, <1>9, <1>10, <1>12 DEF FleetInv

-----------------------------------------------------------------------------
(***************************************************************************)
(* The steps of the client, of the callers and of the cleanup loop.        *)
(***************************************************************************)
LEMMA OutsideInv ==
  ASSUME FleetInv,
         \/ ClientReads \/ ClientLeaves \/ PurgeTick \/ Purge
         \/ \E c \in Callers : Call(c) \/ Kill(c)
  PROVE  FleetInv'
<1>1. /\ worker' = worker /\ launched' = launched /\ completed' = completed /\ cancelFns' = cancelFns
      /\ main' = main /\ status' = status /\ closed' = closed /\ lost' = lost /\ panicked' = panicked
  BY DEF ClientReads, ClientLeaves, PurgeTick, Purge, Call, Kill, Search, Find, LookUp, Cancel,
     fleet, channel
<1>2. WorkerInv' /\ TableInv' /\ InFlight' = InFlight
  BY <1>1, WorkersAside
<1>3. /\ events' \in Seq({"running", "completed"}) /\ Len(events') <= Cap
      /\ gone' => gone \/ ~ClientReads
      /\ events' # events => ClientReads /\ gone' = gone
      /\ events' # <<>> => events # <<>> /\ events'[Len(events')] = events[Len(events)]
  <2>1. CASE ClientReads
    BY <2>1, ReadTypes DEF FleetInv, ClientReads
  <2>2. CASE ~ClientReads
    <3>1. events' = events
      BY <2>2 DEF ClientLeaves, PurgeTick, Purge, Call, Kill, Search, Find, LookUp, Cancel, channel
    <3> QED BY <2>2, <3>1 DEF FleetInv, FleetTypeOK
  <2> QED BY <2>1, <2>2
<1>4. gone => gone'
  BY DEF ClientReads, ClientLeaves, PurgeTick, Purge, Call, Kill, Search, Find, LookUp, Cancel
<1>5. StreamEndsCompleted'
  BY <1>1, <1>3, <1>4 DEF FleetInv, StreamEndsCompleted
<1>6. listed' = listed \/ (status = "completed" /\ listed' = FALSE)
  BY DEF ClientReads, ClientLeaves, PurgeTick, Purge, Call, Kill, Search, Find, LookUp, Cancel, fleet
<1>7. MainInv'
  BY <1>1, <1>2, <1>6 DEF FleetInv, MainInv
<1>8. canceled' \subseteq Workers /\ killed' \subseteq Workers
  BY DEF FleetInv, FleetTypeOK, InFlight, ClientReads, ClientLeaves, PurgeTick, Purge, Call, Kill, Search, Find,
     LookUp, Cancel, kills
<1>9. caller' \in [Callers -> [at : {"idle", "search", "find", "lookup", "cancel"},
                               op : {"worker", "job"}, of : Workers]]
  <2>1. NoCall \in [at : {"idle", "search", "find", "lookup", "cancel"},
                    op : {"worker", "job"}, of : Workers]
    BY FleetAssumption DEF NoCall, Workers
  <2>2. CASE ClientReads \/ ClientLeaves \/ PurgeTick \/ Purge
    BY <2>2 DEF FleetInv, FleetTypeOK, ClientReads, ClientLeaves, PurgeTick, Purge, kills
  <2>3. ASSUME NEW c \in Callers, Call(c)
        PROVE  caller' \in [Callers -> [at : {"idle", "search", "find", "lookup", "cancel"},
                                         op : {"worker", "job"}, of : Workers]]
    BY <2>3 DEF FleetInv, FleetTypeOK, Call
  <2>4. ASSUME NEW c \in Callers, Kill(c)
        PROVE  caller' \in [Callers -> [at : {"idle", "search", "find", "lookup", "cancel"},
                                         op : {"worker", "job"}, of : Workers]]
    <3>1. PICK at \in {"idle", "find", "lookup", "cancel"} : Move(c, at)
      BY <2>4 DEF Kill, Search, Find, LookUp, Cancel
    <3> QED BY <2>1, <3>1 DEF FleetInv, FleetTypeOK, Move
  <2> QED BY <2>2, <2>3, <2>4
<1>10. gone' \in BOOLEAN /\ purging' \in BOOLEAN /\ listed' \in BOOLEAN
  BY <1>6 DEF FleetInv, FleetTypeOK, ClientReads, ClientLeaves, PurgeTick, Purge, Call, Kill, Search, Find,
     LookUp, Cancel
<1>11. FleetTypeOK'
  BY <1>1, <1>3, <1>8, <1>9, <1>10 DEF FleetInv, FleetTypeOK
<1> QED BY <1>2, <1>5, <1>7, <1>11 DEF FleetInv

-----------------------------------------------------------------------------
LEMMA FleetInductive == FleetInv /\ [FleetNext]_fleetVars => FleetInv'
<1> SUFFICES ASSUME FleetInv, [FleetNext]_fleetVars PROVE FleetInv'
  OBVIOUS
<1>1. CASE FleetNext
  BY <1>1, FleetRunInv, WorkInv, OutsideInv DEF FleetNext
<1>2. CASE UNCHANGED fleetVars
  <2>1. WorkerInv' /\ TableInv' /\ InFlight' = InFlight
    BY <1>2, WorkersAside DEF fleetVars, fleet
  <2>2. FleetTypeOK' /\ MainInv' /\ StreamEndsCompleted'
    BY <1>2, <2>1 DEF FleetInv, FleetTypeOK, MainInv, StreamEndsCompleted, fleetVars, fleet, kills, channel
  <2> QED BY <2>1, <2>2 DEF FleetInv
<1> QED BY <1>1, <1>2

LEMMA Invariance == FleetSpec => []FleetInv
<1> QED BY InitInv, FleetInductive, PTL DEF FleetSpec

(* The types, and that the channel holds no more than its capacity. *)
THEOREM FleetTypeCorrect == FleetSpec => []FleetTypeOK
<1>1. FleetInv => FleetTypeOK
  BY DEF FleetInv
<1> QED BY <1>1, Invariance, PTL

(* runFleet, KillWorker and the cleanup loop: a fleet that says it is      *)
(* completed is over and its table accounts for every worker, no send      *)
(* meets a closed channel, and what the stream ends with is true.          *)
THEOREM FleetsEndTruly == FleetSpec => []EndIsTrue
<1>1. FleetInv => EndIsTrue
  <2> SUFFICES ASSUME FleetInv PROVE EndIsTrue
    OBVIOUS
  <2>1. ASSUME status = "completed" \/ (main \notin {"none", "insert"} /\ ~listed)
        PROVE  /\ InFlight = {} /\ launched = Total
               /\ completed = Total - Cardinality(Unanswered) /\ cancelFns = Unanswered
    <3>1. main \in {"finish", "send", "close", "done"}
      BY <2>1 DEF FleetInv, FleetTypeOK, MainInv
    <3>2. InFlight = {} /\ launched = Total
      BY <3>1 DEF FleetInv, MainInv
    <3>3. \A w \in Workers : worker[w].status # "pending"
      BY <3>2, FleetAssumption DEF FleetInv, WorkerInv, InFlight, Workers
    <3>4. Workers \ Ended = Unanswered /\ Ended \in SUBSET Workers
      BY <3>3 DEF FleetInv, FleetTypeOK, Ended, Unanswered
    <3>5. Cardinality(Ended) = Total - Cardinality(Unanswered)
      BY <3>4, HalvesAddUp
    <3> QED BY <3>2, <3>5 DEF FleetInv, TableInv
  <2> QED BY <2>1 DEF FleetInv, EndIsTrue, CompletedAccounts
<1> QED BY <1>1, Invariance, PTL

=============================================================================

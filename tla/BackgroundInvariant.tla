------------------------- MODULE BackgroundInvariant -------------------------
(***************************************************************************)
(* The inductive invariant of BackgroundManager: who holds the lease, the  *)
(* reservation and the end of a worker, and what the four files hold at    *)
(* each write.                                                             *)
(***************************************************************************)
EXTENDS BackgroundManager

Recording == {"journal", "state", "audit", "final", "clear", "mark", "recorded"}
Starters == {p \in Callers \cup {Boot} :
               stopping # p /\ proc[p].at \notin {"idle", "reserve"}}
LastIsLaunch == audit # <<>> /\ ~audit[Len(audit)].ends

CallerPlaces == {"idle", "reserve", "read", "join", "launch"} \cup Recording
WorkerPlaces == {"idle", "watch", "handoff", "admit", "unlease", "leave"} \cup Recording
BootPlaces == {"idle", "settle", "reconcile", "resume", "launch"} \cup Recording

(* Each kind of goroutine has its own places, and no two kinds of them run *)
(* before the daemon serves.                                               *)
PlaceInv ==
  /\ \A c \in Callers : proc[c].at \in CallerPlaces
  /\ \A w \in Workers : proc[w].at \in WorkerPlaces
  /\ proc[Boot].at \in BootPlaces
  /\ phase = "down" => \A p \in Procs : proc[p] = Idle
  /\ phase \in {"down", "resuming"} =>
       /\ \A p \in Callers \cup Workers : proc[p] = Idle
       /\ stopping = None /\ active = None
  /\ phase \in {"up", "closing"} => proc[Boot] = Idle

(* A worker holds the lease from its launch until it gives it up, and who  *)
(* starts one holds it and the reservation of the session.                 *)
LeaseInv ==
  /\ \A w \in Workers : proc[w].at \notin {"idle", "leave"} => lease = w /\ active = w
  /\ \A p \in Starters : lease = p /\ transition = p
  /\ transition \in Callers => stopping = transition \/ transition \in Starters
  /\ transition = Boot => proc[Boot].at # "idle"
  /\ transition \in Workers => \A w \in Workers : ~At(w, "watch")

(* A Stop keeps its reservation, records an end and nothing else, and      *)
(* knows the worker it stops.                                              *)
StopInv ==
  /\ stopping # None =>
       /\ transition = stopping
       /\ proc[stopping].at \in {"read", "join"} \cup Recording
       /\ At(stopping, "join") => joins[stopping] # None
       /\ \A w \in Workers : At(w, "watch") => joins[stopping] = w
  /\ \A c \in Callers :
       /\ proc[c].at \in {"read", "join"} => stopping = c
       /\ At(c, "join") => handoff = "yield"
       /\ stopping = c /\ proc[c].at \in Recording => proc[c].ends
  /\ handoff = "yield" => stopping # None /\ (joins[stopping] # None => At(stopping, "join"))

(* A worker that waits to hear from a Stop is the one it stops; what it    *)
(* heard says how it goes on.                                              *)
Handoff(w) ==
  /\ proc[w].at \in Recording => proc[w].ends
  /\ At(w, "watch") => run[w].owner = None /\ run[w].answer = "none"
  /\ At(w, "watch") /\ run[w].canceled => stopping # None /\ At(stopping, "join")
  /\ proc[w].at \notin {"idle", "watch"} =>
       /\ run[w].owner = None => transition = w /\ run[w].answer = "keep"
       /\ run[w].answer = "none" =>
            At(w, "handoff") /\ stopping = run[w].owner /\ joins[stopping] = w
       /\ run[w].answer = "never" => At(w, "handoff")
       /\ run[w].answer = "yield" =>
            /\ stopping = run[w].owner /\ At(stopping, "join") /\ joins[stopping] = w
            /\ proc[w].at \in {"handoff", "unlease", "leave"} /\ ~proc[w].ends
  /\ proc[w].at \in {"idle", "watch", "handoff", "admit"} => ~proc[w].ends
  /\ proc[w].at \notin {"idle", "watch"} /\ run[w].result = "canceled" =>
       phase = "closing" \/ run[w].answer = "yield"
  /\ proc[w].at \in {"unlease", "leave"} /\ ~proc[w].ends =>
       phase = "closing" \/ run[w].answer = "yield"

HandoffInv == \A w \in Workers : Handoff(w)

(* What a launch has written at each of its writes: nobody else writes.    *)
Launching(p) ==
  /\ proc[p].at \notin {"final", "mark", "recorded"}
  /\ proc[p].at \in {"state", "audit", "clear"} => journal # None
  /\ proc[p].at \in {"state", "audit"} =>
       ~proc[p].entry.ends /\ ~Logged(proc[p].entry.event)
  /\ proc[p].at \in {"audit", "clear", "launch"} => policy = Stored(TRUE, FALSE)
  /\ proc[p].at \in {"clear", "launch"} => LastIsLaunch
  /\ At(p, "launch") => journal = None

StartInv == \A p \in Starters : ~proc[p].ends => Launching(p)

(* The log only has events that were drawn, each once, and an enabled      *)
(* policy that is off the journal is on it.                                *)
LogInv ==
  /\ \A i \in DOMAIN audit : audit[i].event <= drawn
  /\ journal # None => journal.event <= drawn
  /\ \A p \in Procs : proc[p].at \in {"state", "audit"} =>
       proc[p].entry # None /\ proc[p].entry.event <= drawn
  /\ LoggedOnce
  /\ Enabled /\ journal = None => audit # <<>>
  /\ \A p \in Procs : proc[p].at \in {"final", "clear"} => audit # <<>>

(* An end that is recorded has disabled the policy, for a launch needs the *)
(* reservation.                                                            *)
Ended(p) ==
  /\ At(p, "audit") /\ proc[p].stored /\ proc[p].ends => ~Enabled
  /\ At(p, "final") => ~Enabled
  /\ At(p, "clear") /\ proc[p].ends => ~Enabled
  /\ At(p, "recorded") /\ proc[p].ok => ~Enabled
  /\ At(p, "recorded") => proc[p].ends
  /\ At(p, "launch") => ~proc[p].ends
  /\ proc[p].at \in {"journal", "state"} => ~proc[p].stored
  /\ At(p, "join") => ~Enabled

EndInv == \A p \in Procs : Ended(p)

(* The start of a daemon settled what the log ended.                       *)
BootInv ==
  /\ At(Boot, "reconcile") /\ Enabled => audit = <<>> \/ LastIsLaunch
  /\ At(Boot, "resume") /\ Enabled => journal = None /\ LastIsLaunch
  /\ ResumesCompleted

(* An end that could not be recorded had a failing write, and a worker     *)
(* that kept its record after a Stop had one as well.                      *)
Spoiled(p) ==
  \/ At(p, "audit") /\ ~proc[p].stored
  \/ At(p, "mark")
  \/ At(p, "recorded") /\ ~proc[p].ok

Leaving(w) == At(w, "leave") /\ proc[w].ends
OthersLeaving(w) == \E v \in Workers : v # w /\ Leaving(v)

KeptInv(w) ==
  proc[w].at \notin {"idle", "watch"} /\ run[w].owner # None /\ run[w].answer = "keep" =>
    faults >= 1

LeftInv(w) == At(w, "watch") /\ OthersLeaving(w) => faults >= 1

SpoiledInv ==
  stopping # None /\ Spoiled(stopping) =>
    /\ faults >= 1
    /\ \A w \in Workers : At(w, "watch") /\ OthersLeaving(w) => faults >= 2

StopRecords == stopping # None /\ proc[stopping].at \in Recording

DisabledInv(w) ==
  At(w, "watch") /\ ~Canceled(w) /\ ~Enabled /\ ~StopRecords =>
    \/ faults >= 1 /\ guard = "degraded" /\ ~OthersLeaving(w)
    \/ faults >= 2

FaultInv ==
  /\ SpoiledInv
  /\ \A w \in Workers : KeptInv(w) /\ LeftInv(w) /\ DisabledInv(w)

(* A session reported as enabled has a worker, is being started, or could  *)
(* not be started.                                                         *)
ReportInv ==
  phase = "up" /\ guard = "none" /\ Enabled /\ active = None =>
    transition \in Starters \/ unlaunched

IInv ==
  /\ TypeOK
  /\ PlaceInv
  /\ LeaseInv
  /\ StopInv
  /\ HandoffInv
  /\ StartInv
  /\ LogInv
  /\ EndInv
  /\ BootInv
  /\ FaultInv
  /\ ReportInv

=============================================================================

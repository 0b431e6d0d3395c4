-------------------------------- MODULE Fleet --------------------------------
(***************************************************************************)
(* One fleet of the daemon, daemon/fleet.go: the goroutine that launches   *)
(* its workers under a semaphore, the workers, the client whose stream the *)
(* status goes to, the calls that list and kill workers, the kill that     *)
(* comes through the registry of jobs (daemon/jobs.go), and the loop that  *)
(* purges the fleet.                                                       *)
(*                                                                         *)
(* A step is one section under fi.mu or fm.mu, or one operation on a       *)
(* channel. Only KillJob keeps fm.mu from one step to the next, so the     *)
(* state of that lock is who reads under it and who waits to write. What a *)
(* worker does, the models it is routed to and the hooks are left out.     *)
(***************************************************************************)
EXTENDS Naturals, Sequences, FiniteSets

CONSTANTS
  Total,        \* the workers of the fleet
  MaxWorkers,   \* how many run at a time
  Cap,          \* capacity of eventCh
  Callers       \* RPC handlers that kill workers

Workers == 1..Total

ASSUME FleetAssumption ==
  /\ Total \in Nat \ {0}
  /\ MaxWorkers \in Workers
  /\ Cap \in Nat \ {0}

VARIABLES
  main,       \* where StartFleet and then runFleet is
  launched,   \* how many workers the loop has launched
  listed,     \* the fleet is in fm.fleets
  status,     \* fi.status.Status
  completed,  \* fi.status.Completed
  worker,     \* each worker: where its goroutine is and its status
  cancelFns,  \* fi.cancelFns
  canceled,   \* the workers whose context is canceled before they leave
  killed,     \* the workers whose kill reported success before they left
  events,     \* eventCh
  closed,     \* eventCh is closed
  lost,       \* the last snapshot met a full channel
  panicked,   \* a send met the closed channel: it ends the daemon
  gone,       \* the stream of the client ended
  caller,     \* the calls of KillWorker and KillJob
  purging     \* the cleanup loop waits for fm.mu

fleet == <<listed, status, completed, cancelFns>>
kills == <<canceled, killed, caller>>
channel == <<events, closed, lost, panicked>>
fleetVars == <<main, launched, fleet, worker, kills, channel, gone, purging>>

-----------------------------------------------------------------------------
NoCall == [at |-> "idle", op |-> "worker", of |-> 1]

FleetInit ==
  /\ main = "none" /\ launched = 0
  /\ listed = FALSE /\ status = "running" /\ completed = 0
  /\ worker = [w \in Workers |->
                [at |-> "none", status |-> "pending"]]
  /\ cancelFns = {} /\ canceled = {} /\ killed = {}
  /\ events = <<>> /\ closed = FALSE /\ lost = FALSE /\ panicked = FALSE
  /\ gone = FALSE
  /\ caller = [c \in Callers |-> NoCall]
  /\ purging = FALSE

(* Go's RWMutex lets no new reader in while a writer waits. *)
Reading == {c \in Callers : caller[c].op = "job" /\ caller[c].at # "search"}
MayRead == ~purging /\ main # "insert"
MayWrite == Reading = {}

(* sendFleetStatus never waits: a full channel drops what is sent. Of a    *)
(* snapshot the fleet's own status is kept. Those of the workers may come  *)
(* in another order than they were taken: no property tells them apart.    *)
OfferBlocking(snapshot) ==   \* mutant of Offer: waits for room
  /\ Len(events) < Cap
  /\ panicked' = (panicked \/ closed)
  /\ events' = Append(events, snapshot)

Offer(snapshot) ==
  /\ panicked' = (panicked \/ closed)
  /\ events' = IF closed \/ Len(events) = Cap THEN events ELSE Append(events, snapshot)

-----------------------------------------------------------------------------
(***************************************************************************)
(* StartFleet and runFleet                                                 *)
(***************************************************************************)
StartFleet ==
  /\ main = "none"
  /\ main' = "insert"
  /\ UNCHANGED <<launched, fleet, worker, kills, channel, gone, purging>>

Insert ==
  /\ main = "insert"
  /\ MayWrite
  /\ listed' = TRUE
  /\ main' = "launch"
  /\ UNCHANGED <<launched, status, completed, cancelFns, worker, kills, channel, gone, purging>>

(* The semaphore counts the goroutines that have not left. *)
InFlightUnsent ==   \* mutant of InFlight: a worker is done before its last send
  {w \in Workers : /\ worker[w].at \notin {"none", "done"}
                   /\ ~(worker[w].at = "send" /\ worker[w].status = "ended")}

InFlight == {w \in Workers : worker[w].at \notin {"none", "done"}}

Launch ==
  /\ main = "launch"
  /\ launched < Total
  /\ Cardinality(InFlight) < MaxWorkers
  /\ launched' = launched + 1
  /\ worker' = [worker EXCEPT ![launched + 1].at = "begin"]
  /\ UNCHANGED <<main, fleet, kills, channel, gone, purging>>

WaitAdded ==   \* mutant of Wait: a worker is added when its goroutine begins
  /\ main = "launch"
  /\ launched = Total /\ {w \in InFlight : worker[w].at # "begin"} = {}
  /\ main' = "finish"
  /\ UNCHANGED <<launched, fleet, worker, kills, channel, gone, purging>>

Wait ==
  /\ main = "launch"
  /\ launched = Total /\ InFlight = {}
  /\ main' = "finish"
  /\ UNCHANGED <<launched, fleet, worker, kills, channel, gone, purging>>

Finish ==
  /\ main = "finish"
  /\ status' = "completed"
  /\ main' = "send"
  /\ UNCHANGED <<launched, listed, completed, cancelFns, worker, kills, channel, gone, purging>>

Send ==
  /\ main = "send"
  /\ Offer("completed")
  /\ lost' = (Len(events) = Cap)
  /\ main' = "close"
  /\ UNCHANGED <<launched, fleet, worker, kills, closed, gone, purging>>

CloseEvents ==
  /\ main = "close"
  /\ closed' = TRUE
  /\ main' = "done"
  /\ UNCHANGED <<launched, fleet, worker, kills, events, lost, panicked, gone, purging>>

-----------------------------------------------------------------------------
(***************************************************************************)
(* The goroutine of a worker                                               *)
(***************************************************************************)
BeginWorker(w) ==
  /\ worker[w].at = "begin"
  /\ cancelFns' = cancelFns \cup {w}
  /\ worker' = [worker EXCEPT ![w].at = "send", ![w].status = "running"]
  /\ UNCHANGED <<main, launched, listed, status, completed, kills, channel, gone, purging>>

WorkerSends(w) ==
  /\ worker[w].at = "send"
  /\ Offer("running")
  /\ worker' = [worker EXCEPT ![w].at =
                  IF worker[w].status = "running" THEN "execute" ELSE "leave"]
  /\ UNCHANGED <<main, launched, fleet, kills, closed, lost, gone, purging>>

(* executeWorker answers, or it panics and the deferred function recovers: *)
(* then the worker leaves without a status. Whether it completed or failed *)
(* is told to the client and nothing depends on it.                        *)
Execute(w) ==
  /\ worker[w].at = "execute"
  /\ \E next \in {"end", "leave"} : worker' = [worker EXCEPT ![w].at = next]
  /\ UNCHANGED <<main, launched, fleet, kills, channel, gone, purging>>

End(w) ==
  /\ worker[w].at = "end"
  /\ cancelFns' = cancelFns \ {w}
  /\ worker' = [worker EXCEPT ![w].at = "send", ![w].status = "ended"]
  /\ completed' = completed + 1
  /\ UNCHANGED <<main, launched, listed, status, kills, channel, gone, purging>>

Leave(w) ==
  /\ worker[w].at = "leave"
  /\ worker' = [worker EXCEPT ![w].at = "done"]
  /\ canceled' = canceled \ {w}
  /\ killed' = killed \ {w}
  /\ UNCHANGED <<main, launched, fleet, caller, channel, gone, purging>>

-----------------------------------------------------------------------------
(***************************************************************************)
(* The client. Its stream's context is the context of the fleet.           *)
(***************************************************************************)
ClientReads ==
  /\ ~gone
  /\ events # <<>>
  /\ events' = Tail(events)
  /\ UNCHANGED <<main, launched, fleet, worker, kills, closed, lost, panicked, gone, purging>>

ClientLeaves ==
  /\ ~gone
  /\ main # "none"
  /\ gone' = TRUE
  /\ UNCHANGED <<main, launched, fleet, worker, kills, channel, purging>>

-----------------------------------------------------------------------------
(***************************************************************************)
(* Kills: KillWorker, and KillJob, which finds the fleet of the worker     *)
(* under the read lock and then calls KillWorker under that lock.          *)
(***************************************************************************)
Move(c, at) ==
  caller' = [caller EXCEPT ![c] = IF at = "idle" THEN NoCall ELSE [@ EXCEPT !.at = at]]

Call(c) ==
  /\ caller[c].at = "idle"
  /\ \E w \in Workers :
       \/ caller' = [caller EXCEPT ![c] = [at |-> "find", op |-> "worker", of |-> w]]
       \/ caller' = [caller EXCEPT ![c] = [at |-> "search", op |-> "job", of |-> w]]
  /\ UNCHANGED <<main, launched, fleet, worker, canceled, killed, channel, gone, purging>>

(* Nothing is read between the two read locks, of fm.mu and of fi.mu. *)
Search(c) ==
  /\ caller[c].at = "search"
  /\ MayRead
  /\ Move(c, IF listed /\ caller[c].of \in cancelFns THEN "find" ELSE "idle")
  /\ UNCHANGED <<main, launched, fleet, worker, canceled, killed, channel, gone, purging>>

Find(c) ==
  /\ caller[c].at = "find"
  /\ MayRead
  /\ Move(c, IF listed THEN "lookup" ELSE "idle")
  /\ UNCHANGED <<main, launched, fleet, worker, canceled, killed, channel, gone, purging>>

LookUpWaits(c) ==   \* mutant of LookUp: waits until the worker is registered
  /\ caller[c].at = "lookup"
  /\ caller[c].of \in cancelFns
  /\ Move(c, "cancel")
  /\ UNCHANGED <<main, launched, fleet, worker, canceled, killed, channel, gone, purging>>

LookUp(c) ==
  /\ caller[c].at = "lookup"
  /\ Move(c, IF caller[c].of \in cancelFns THEN "cancel" ELSE "idle")
  /\ UNCHANGED <<main, launched, fleet, worker, canceled, killed, channel, gone, purging>>

CancelEntry(c) ==   \* mutant of Cancel: removes the function and does not call it
  /\ caller[c].at = "cancel"
  /\ cancelFns' = cancelFns \ {caller[c].of}
  /\ killed' = killed \cup ({caller[c].of} \cap InFlight)
  /\ Move(c, "idle")
  /\ UNCHANGED <<main, launched, listed, status, completed, worker, canceled, channel, gone, purging>>

Cancel(c) ==
  /\ caller[c].at = "cancel"
  /\ canceled' = canceled \cup ({caller[c].of} \cap InFlight)
  /\ killed' = killed \cup ({caller[c].of} \cap InFlight)
  /\ Move(c, "idle")
  /\ UNCHANGED <<main, launched, fleet, worker, channel, gone, purging>>

-----------------------------------------------------------------------------
(***************************************************************************)
(* cleanupLoop and purgeCompleted                                          *)
(***************************************************************************)
PurgeTick ==
  /\ ~purging
  /\ purging' = TRUE
  /\ UNCHANGED <<main, launched, fleet, worker, kills, channel, gone>>

Purge ==
  /\ purging
  /\ MayWrite
  /\ purging' = FALSE
  /\ listed' \in IF status = "completed" THEN {FALSE, listed} ELSE {listed}
  /\ UNCHANGED <<main, launched, status, completed, cancelFns, worker, kills, channel, gone>>

-----------------------------------------------------------------------------
RunFleet == StartFleet \/ Insert \/ Launch \/ Wait \/ Finish \/ Send \/ CloseEvents
Work(w) == BeginWorker(w) \/ WorkerSends(w) \/ End(w) \/ Leave(w)
Kill(c) == Search(c) \/ Find(c) \/ LookUp(c) \/ Cancel(c)

FleetNext ==
  \/ RunFleet
  \/ ClientReads \/ ClientLeaves
  \/ PurgeTick \/ Purge
  \/ \E w \in Workers : Work(w) \/ Execute(w)
  \/ \E c \in Callers : Call(c) \/ Kill(c)

FleetSpec == FleetInit /\ [][FleetNext]_fleetVars

(* A worker need not answer: only its context makes it. The read lock of   *)
(* a call is strongly fair because the readers that wait when a writer     *)
(* leaves enter before the next writer.                                    *)
WorkerCanceled(w) == gone \/ w \in canceled

FleetFairSpec ==
  /\ FleetSpec
  /\ WF_fleetVars(Insert \/ Launch \/ Wait \/ Finish \/ Send \/ CloseEvents)
  /\ WF_fleetVars(ClientReads) /\ WF_fleetVars(Purge)
  /\ \A w \in Workers : WF_fleetVars(Work(w)) /\ WF_fleetVars(WorkerCanceled(w) /\ Execute(w))
  /\ \A c \in Callers : SF_fleetVars(Kill(c))

-----------------------------------------------------------------------------
(***************************************************************************)
(* Properties                                                              *)
(***************************************************************************)
(* Every variable holds what its declaration in the code lets it hold. *)
FleetTypeOK ==
  /\ main \in {"none", "insert", "launch", "finish", "send", "close", "done"}
  /\ launched \in 0..Total
  /\ status \in {"running", "completed"}
  /\ completed \in 0..Total
  /\ worker \in [Workers -> [at : {"none", "begin", "send", "execute", "end", "leave", "done"},
                             status : {"pending", "running", "ended"}]]
  /\ cancelFns \subseteq Workers /\ canceled \subseteq Workers /\ killed \subseteq Workers
  /\ events \in Seq({"running", "completed"})
  /\ Len(events) <= Cap
  /\ caller \in [Callers -> [at : {"idle", "search", "find", "lookup", "cancel"},
                             op : {"worker", "job"}, of : Workers]]
  /\ {listed, closed, lost, panicked, gone, purging} \subseteq BOOLEAN

(* A fleet that says it is completed, and one that was purged, is over: no *)
(* goroutine of it runs; every worker has ended and is counted, and its    *)
(* cancel function is gone, except those that panicked: each of these      *)
(* still says running and keeps its cancel function.                       *)
Unanswered == {w \in Workers : worker[w].status = "running"}

CompletedAccounts ==
  status = "completed" \/ (main \notin {"none", "insert"} /\ ~listed) =>
    /\ InFlight = {}
    /\ launched = Total
    /\ completed = Total - Cardinality(Unanswered)
    /\ cancelFns = Unanswered

(* No send meets the closed channel, and the stream of a fleet ends with   *)
(* the status of the whole: what was sent before it cannot come after it,  *)
(* and it is missing only when the channel had no room for it.             *)
StreamEndsCompleted ==
  /\ ~panicked
  /\ main = "close" /\ ~lost /\ ~gone /\ events # <<>> =>
       events[Len(events)] = "completed"

(* The end of a fleet says the truth, in its table and on its stream. *)
EndIsTrue == CompletedAccounts /\ StreamEndsCompleted

(* A fleet whose client left ends: every worker that was launched and      *)
(* every one still to come meets a canceled context, and no status it      *)
(* reports waits for a reader. The lock of the manager plays no part.      *)
FleetEnds == (gone /\ main # "insert") ~> closed

(* A kill that reported success ends its worker: the cancel function that  *)
(* was registered is the one of the context the worker runs under.         *)
KilledEnds == \A w \in Workers : w \in killed ~> w \notin killed

(* A cancellation is effective, of a worker or of the whole fleet. *)
CanceledEnds == FleetEnds /\ KilledEnds

(* A kill returns, unless a KillJob stands between its two read locks      *)
(* while a writer waits: then the manager is stuck for every caller, and   *)
(* nothing else ever makes it so.                                          *)
Stuck == ~MayRead /\ \E c \in Reading : caller[c].at = "find"

CallsReturn == \A c \in Callers : caller[c].at # "idle" ~> caller[c].at = "idle" \/ Stuck

=============================================================================

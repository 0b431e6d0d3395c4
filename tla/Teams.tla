-------------------------------- MODULE Teams --------------------------------
(***************************************************************************)
(* One team of the daemon, daemon/teams.go: the goroutine that runs it (or *)
(* forwards the events of a mesh team), the client whose stream the events *)
(* go to, operators that send messages to its agents, kill, rename, remove *)
(* and observe, and the loop that purges it.                               *)
(*                                                                         *)
(* Two channels are bounded: events, which the run blocks on and a message *)
(* does not, and mesh, where a full channel drops. A step is one section   *)
(* under ti.mu or tm.mu, or one operation on a channel. Texts, names, the  *)
(* blackboard and the router between the nodes of a mesh are left out.     *)
(***************************************************************************)
EXTENDS Naturals, Sequences, Functions

CONSTANTS
  Orchestrator, Worker,   \* the agents of a team
  Handlers,               \* RPC handlers of DirectMessage, a message each
  Observers,              \* streams of AttachTeam
  Cap,                    \* capacity of ti.eventCh
  MeshCap,                \* capacity of handle.Events
  MaxCalls                \* bound on the calls of other clients

Agents == {Orchestrator, Worker}

ASSUME TeamAssumption ==
  /\ Orchestrator # Worker
  /\ Agents \cap Handlers = {}
  /\ {"update", "completed", "failed", "errors"} \cap Handlers = {}
  /\ Cap \in Nat \ {0}
  /\ MeshCap \in Nat \ {0, 1}
  /\ MaxCalls \in Nat

VARIABLES
  kind,       \* "none", "run" (tm.run) or "mesh" (the forwarder of StartMeshTeam)
  listed,     \* the team is in tm.teams
  status,     \* ti.status
  agents,     \* ti.agents: the status of each, or "none"
  inbox,      \* the messages of operators that each agent has
  canceled,   \* ti.cancel was called
  gone,       \* the stream of the client that started the team ended
  events,     \* ti.eventCh
  closed,     \* ti.eventCh is closed
  received,   \* the messages of operators and the verdict that the client has read
  main,       \* where the run or the forwarder is
  mesh,       \* handle.Events
  node,       \* the nodes of the mesh
  handler,    \* the DirectMessage handlers
  observer,   \* ti.observers, with the handler and the channel of each
  panicked,   \* the channel whose close a send met: it ends the daemon
  calls       \* bound

team == <<kind, listed, status, agents, inbox, canceled, calls>>
channel == <<events, closed>>
client == <<gone, received>>
others == <<handler, observer, panicked>>
vars == <<team, channel, client, main, mesh, node, others>>

-----------------------------------------------------------------------------
Event(type, agent) == [type |-> type, agent |-> agent]

Init ==
  /\ kind = "none" /\ listed = FALSE /\ status = "running"
  /\ agents = [a \in Agents |-> "none"]
  /\ inbox = [a \in Agents |-> {}]
  /\ canceled = FALSE /\ gone = FALSE
  /\ events = <<>> /\ closed = FALSE /\ received = {}
  /\ main = [at |-> "none", agent |-> Orchestrator, found |-> {},
             verdict |-> "none"]
  /\ mesh = <<>>
  /\ node = [a \in Agents |-> "none"]
  /\ handler = [h \in Handlers |-> [at |-> "idle", to |-> Worker]]
  /\ observer = [o \in Observers |-> [at |-> "none", served |-> FALSE, closed |-> FALSE]]
  /\ panicked = "no" /\ calls = 0

Goto(at) == main' = [main EXCEPT !.at = at]

(* A send that waits for room in the channel. What is told apart there is  *)
(* the message of an operator and the verdict of the team.                 *)
Put(event) ==
  /\ Len(events) < Cap
  /\ events' = Append(events, event)
  /\ UNCHANGED closed

-----------------------------------------------------------------------------
(***************************************************************************)
(* tm.run                                                                  *)
(***************************************************************************)
StartTeam ==
  /\ kind = "none"
  /\ kind' = "run"
  /\ listed' = TRUE
  /\ Goto("insert")
  /\ UNCHANGED <<status, agents, inbox, canceled, channel, client, mesh, node, others, calls>>

Insert ==
  /\ main.at = "insert"
  /\ agents' = [agents EXCEPT ![main.agent] = "running"]
  /\ Goto("announce")
  /\ UNCHANGED <<kind, listed, status, inbox, canceled, channel, client, mesh, node, others, calls>>

Announce ==
  /\ main.at = "announce"
  /\ Put("update")
  /\ main' = IF main.agent = Orchestrator
             THEN [main EXCEPT !.at = "insert", !.agent = Worker]
             ELSE [main EXCEPT !.at = "check"]
  /\ UNCHANGED <<team, client, mesh, node, others>>

CheckContext ==
  /\ main.at = "check"
  /\ main' = IF gone \/ canceled THEN [main EXCEPT !.at = "mark", !.verdict = "failed"]
             ELSE [main EXCEPT !.at = "find"]
  /\ UNCHANGED <<team, channel, client, mesh, node, others>>

(* agentByRole: an agent that was removed before is not executed. *)
Find ==
  /\ main.at = "find"
  /\ main' = [main EXCEPT !.at = "execute", !.agent = Orchestrator,
                          !.found = {a \in Agents : agents[a] # "none"}]
  /\ UNCHANGED <<team, channel, client, mesh, node, others>>

(* An agent that was removed meanwhile ends unseen. What an agent made of  *)
(* its task is sent to the other one.                                      *)
Ended(result) ==
  agents' = IF agents[main.agent] = "none" THEN agents
            ELSE [agents EXCEPT ![main.agent] = result]

Execute ==
  /\ main.at = "execute"
  /\ \/ main.agent \notin main.found /\ Goto("next") /\ UNCHANGED agents
     \/ main.agent \in main.found /\ Ended("failed") /\ Goto("next")
     \/ /\ main.agent \in main.found
        /\ Ended("completed")
        /\ Goto(IF main.found = Agents THEN "send" ELSE "next")
  /\ UNCHANGED <<kind, listed, status, inbox, canceled, channel, client, mesh, node, others, calls>>

(* The executor panics: run closes the channel and recovers. *)
Panic ==
  /\ main.at = "execute"
  /\ main.agent \in main.found
  /\ Goto("abort")
  /\ UNCHANGED <<team, channel, client, mesh, node, others>>

(* routeMessage; the copy that the sender keeps is left out. *)
RouteSend ==
  /\ main.at = "send"
  /\ Put("update")
  /\ Goto("broadcast")
  /\ UNCHANGED <<team, client, mesh, node, others>>

(* broadcastToObservers, under the read lock of ti.mu. *)
Broadcast ==
  panicked' = IF \E o \in Observers : observer[o].at \in {"attached", "canceled"}
                                        /\ observer[o].closed
              THEN "observer" ELSE panicked

RouteBroadcast ==
  /\ main.at = "broadcast"
  /\ Broadcast
  /\ Goto("next")
  /\ UNCHANGED <<team, channel, client, mesh, node, handler, observer>>

NextAgent ==
  /\ main.at = "next"
  /\ main' = IF main.agent = Orchestrator THEN [main EXCEPT !.at = "execute", !.agent = Worker]
             ELSE [main EXCEPT !.at = "judge"]
  /\ UNCHANGED <<team, channel, client, mesh, node, others>>

Judge ==
  /\ main.at = "judge"
  /\ main' = [main EXCEPT !.at = "complete", !.found = {}, !.verdict =
                 IF \E a \in Agents : agents[a] = "failed" THEN "failed" ELSE "completed"]
  /\ UNCHANGED <<team, channel, client, mesh, node, others>>

CompleteOrDrop ==   \* mutant of Complete: does not wait for room
  /\ main.at = "complete"
  /\ Put(main.verdict) \/ (Len(events) = Cap /\ UNCHANGED channel)
  /\ Goto("mark")
  /\ UNCHANGED <<team, client, mesh, node, others>>

Complete ==
  /\ main.at = "complete"
  /\ \/ Put(main.verdict)
     \/ kind = "mesh" /\ gone /\ UNCHANGED channel
  /\ Goto("mark")
  /\ UNCHANGED <<team, client, mesh, node, others>>

MarkNothing ==   \* mutant of MarkDone
  /\ main.at = "mark"
  /\ Goto("close")
  /\ UNCHANGED <<team, channel, client, mesh, node, others>>

MarkDone ==
  /\ main.at = "mark"
  /\ status' = main.verdict
  /\ Goto("close")
  /\ UNCHANGED <<kind, listed, agents, inbox, canceled, channel, client, mesh, node, others, calls>>

(* The deferred close(eventCh). *)
Close ==
  /\ main.at \in {"close", "abort"}
  /\ closed' = TRUE
  /\ Goto(IF main.at = "close" THEN "ended" ELSE "aborted")
  /\ UNCHANGED <<team, events, client, mesh, node, others>>

Run ==
  \/ Insert \/ Announce \/ CheckContext \/ Find \/ Execute \/ RouteSend
  \/ RouteBroadcast \/ NextAgent \/ Judge \/ Complete \/ MarkDone \/ Close

-----------------------------------------------------------------------------
(***************************************************************************)
(* A mesh team: its nodes announce themselves, send messages and end, and  *)
(* drop what does not fit; the last one closes the mesh channel. The       *)
(* forwarder gives up when the stream of the client ends.                  *)
(***************************************************************************)
StartMeshTeam ==
  /\ kind = "none"
  /\ kind' = "mesh"
  /\ listed' = TRUE
  /\ mesh' = <<Event("spawned", Orchestrator), Event("spawned", Worker)>>
  /\ node' = [a \in Agents |-> "running"]
  /\ Goto("receive")
  /\ UNCHANGED <<status, agents, inbox, canceled, channel, client, others, calls>>

Emit(event) == mesh' = IF Len(mesh) < MeshCap THEN Append(mesh, event) ELSE mesh

NodeMessage(a) ==
  /\ node[a] = "running"
  /\ node' = [node EXCEPT ![a] = "ending"]
  /\ Emit(Event("message", a))
  /\ UNCHANGED <<team, channel, client, main, others>>

NodeEnds(a) ==
  /\ node[a] \in {"running", "ending"}
  /\ \/ node' = [node EXCEPT ![a] = "completed"] /\ Emit(Event("complete", a))
     \/ node' = [node EXCEPT ![a] = "failed"] /\ Emit(Event("error", a))
  /\ UNCHANGED <<team, channel, client, main, others>>

(* The agents of the team follow the events; a failed node stays running.  *)
Track(event) ==
  agents' = CASE event.type = "spawned" -> [agents EXCEPT ![event.agent] = "running"]
              [] event.type = "complete" /\ agents[event.agent] # "none" ->
                   [agents EXCEPT ![event.agent] = "completed"]
              [] OTHER -> agents

Receive ==
  /\ main.at = "receive"
  /\ mesh # <<>>
  /\ Track(Head(mesh))
  /\ mesh' = Tail(mesh)
  /\ main' = IF Head(mesh).type = "complete" THEN main
             ELSE [main EXCEPT !.at = "forward"]
  /\ UNCHANGED <<kind, listed, status, inbox, canceled, channel, client, node, others, calls>>

Forward ==
  /\ main.at = "forward"
  /\ Put("update")
  /\ Goto("receive")
  /\ UNCHANGED <<team, client, mesh, node, others>>

(* handle.Result, once the mesh channel is closed. *)
Result ==
  LET failed == {a \in Agents : node[a] = "failed"} IN
  /\ main.at = "receive"
  /\ mesh = <<>>
  /\ \A a \in Agents : node[a] \in {"completed", "failed"}
  /\ main' = [main EXCEPT !.at = "errors", !.found = failed, !.verdict =
                 IF failed = {} THEN "completed" ELSE "errors"]
  /\ UNCHANGED <<team, channel, client, mesh, node, others>>

Errors ==
  /\ main.at = "errors"
  /\ \/ main.found = {} /\ Goto("complete") /\ UNCHANGED channel
     \/ \E a \in main.found :
          Put("update") /\ main' = [main EXCEPT !.found = @ \ {a}]
  /\ UNCHANGED <<team, client, mesh, node, others>>

GiveUp ==
  /\ main.at = "forward" \/ (main.at = "errors" /\ main.found # {})
  /\ gone
  /\ Goto("abort")
  /\ UNCHANGED <<team, channel, client, mesh, node, others>>

ForwardMesh == Receive \/ Forward \/ Result \/ Errors \/ GiveUp

-----------------------------------------------------------------------------
(***************************************************************************)
(* Clients.                                                                *)
(***************************************************************************)
ClientReads ==
  /\ ~gone
  /\ events # <<>>
  /\ received' = received \cup ({Head(events)} \ {"update"})
  /\ events' = Tail(events)
  /\ UNCHANGED <<team, closed, gone, main, mesh, node, others>>

ClientLeaves ==
  /\ kind # "none"
  /\ ~gone
  /\ gone' = TRUE
  /\ UNCHANGED <<team, channel, received, main, mesh, node, others>>

Call == calls < MaxCalls /\ calls' = calls + 1

(* KillAgent: the context of the whole team is canceled. *)
KillTeam ==
  /\ Call
  /\ listed
  /\ ~canceled
  /\ canceled' = TRUE
  /\ UNCHANGED <<kind, listed, status, agents, inbox, channel, client, main, mesh, node, others>>

(* TeamJobProvider.KillJob: the agent is marked whatever became of it, and  *)
(* nothing is canceled.                                                    *)
KillJob(a) ==
  /\ Call
  /\ listed
  /\ agents[a] # "none"
  /\ agents' = [agents EXCEPT ![a] = "failed"]
  /\ UNCHANGED <<kind, listed, status, inbox, canceled, channel, client, main, mesh, node, others>>

RemoveAgent(a) ==
  /\ Call
  /\ listed
  /\ agents[a] # "none"
  /\ agents' = [agents EXCEPT ![a] = "none"]
  /\ UNCHANGED <<kind, listed, status, inbox, canceled, channel, client, main, mesh, node, others>>

Purge ==
  /\ listed
  /\ status # "running"
  /\ listed' = FALSE
  /\ UNCHANGED <<kind, status, agents, inbox, canceled, channel, client, main, mesh, node, others, calls>>

-----------------------------------------------------------------------------
(***************************************************************************)
(* DirectMessage looks at the status and the recipient, and puts the       *)
(* message on the channel after it released ti.mu.                         *)
(***************************************************************************)
HandlerAt(h, at) == handler' = [handler EXCEPT ![h].at = at]

DirectMessage(h, a) ==
  /\ Call
  /\ handler[h].at = "idle"
  /\ handler' = [handler EXCEPT ![h] =
       [at |-> IF listed /\ status = "running" /\ agents[a] # "none" THEN "send" ELSE "refused",
        to |-> a]]
  /\ UNCHANGED <<kind, listed, status, agents, inbox, canceled, channel, client, main, mesh, node, observer, panicked>>

MessageSendLossy(h) ==   \* mutant of MessageSend: accepts what does not fit
  /\ handler[h].at = "send"
  /\ \/ closed /\ panicked' = "events" /\ UNCHANGED <<events, handler>>
     \/ /\ ~closed
        /\ events' = IF Len(events) < Cap THEN Append(events, h) ELSE events
        /\ HandlerAt(h, "append")
        /\ UNCHANGED panicked
  /\ UNCHANGED <<team, closed, client, main, mesh, node, observer>>

MessageSend(h) ==
  /\ handler[h].at = "send"
  /\ \/ /\ closed
        /\ panicked' = "events"
        /\ UNCHANGED <<events, handler>>
     \/ /\ ~closed /\ Len(events) < Cap
        /\ events' = Append(events, h)
        /\ HandlerAt(h, "append")
        /\ UNCHANGED panicked
     \/ /\ ~closed /\ Len(events) = Cap
        /\ HandlerAt(h, "refused")
        /\ UNCHANGED <<events, panicked>>
  /\ UNCHANGED <<team, closed, client, main, mesh, node, observer>>

MessageAppend(h) ==
  /\ handler[h].at = "append"
  /\ inbox' = [inbox EXCEPT ![handler[h].to] = @ \cup {h}]
  /\ HandlerAt(h, "broadcast")
  /\ UNCHANGED <<kind, listed, status, agents, canceled, channel, client, main, mesh, node,
                 observer, panicked, calls>>

MessageBroadcast(h) ==
  /\ handler[h].at = "broadcast"
  /\ Broadcast
  /\ HandlerAt(h, "accepted")
  /\ UNCHANGED <<team, channel, client, main, mesh, node, observer>>

Message(h) == MessageSend(h) \/ MessageAppend(h) \/ MessageBroadcast(h)

-----------------------------------------------------------------------------
(***************************************************************************)
(* Observers: the stream that ends cancels its observer, when the team is  *)
(* still listed, and a goroutine takes it out of the team and closes its   *)
(* channel.                                                                *)
(***************************************************************************)
AttachTeam(o) ==
  /\ Call
  /\ listed
  /\ observer[o].at = "none"
  /\ observer' = [observer EXCEPT ![o].at = "attached", ![o].served = TRUE]
  /\ UNCHANGED <<kind, listed, status, agents, inbox, canceled, channel, client, main, mesh, node, handler, panicked>>

DetachTeam(o) ==
  /\ observer[o].served
  /\ observer' = [observer EXCEPT ![o].served = FALSE,
                                  ![o].at = IF listed THEN "canceled" ELSE @]
  /\ UNCHANGED <<team, channel, client, main, mesh, node, handler, panicked>>

ObserverClosesFirst(o) ==   \* mutant of ObserverEnds: closes before it deletes
  /\ \/ /\ observer[o].at = "canceled" /\ ~observer[o].closed
        /\ observer' = [observer EXCEPT ![o].closed = TRUE]
     \/ /\ observer[o].at = "canceled" /\ observer[o].closed
        /\ observer' = [observer EXCEPT ![o].at = "deleted"]
  /\ UNCHANGED <<team, channel, client, main, mesh, node, handler, panicked>>

ObserverEnds(o) ==
  /\ \/ /\ observer[o].at = "canceled"
        /\ observer' = [observer EXCEPT ![o].at = "deleted"]
     \/ /\ observer[o].at = "deleted" /\ ~observer[o].closed
        /\ observer' = [observer EXCEPT ![o].closed = TRUE]
  /\ UNCHANGED <<team, channel, client, main, mesh, node, handler, panicked>>

-----------------------------------------------------------------------------
(* A panic in a handler or in the goroutine of a mesh team ends the daemon. *)
Next ==
  /\ panicked = "no"
  /\ \/ StartTeam \/ StartMeshTeam \/ Run \/ Panic \/ ForwardMesh
     \/ ClientReads \/ ClientLeaves \/ KillTeam \/ Purge
     \/ \E a \in Agents : NodeMessage(a) \/ NodeEnds(a) \/ KillJob(a) \/ RemoveAgent(a)
     \/ \E h \in Handlers : Message(h) \/ \E a \in Agents : DirectMessage(h, a)
     \/ \E o \in Observers : AttachTeam(o) \/ DetachTeam(o) \/ ObserverEnds(o)

Spec == Init /\ [][Next]_vars

(***************************************************************************)
(* Goroutines run, a connected client reads, and agents end: an executor   *)
(* stops after a bounded number of iterations. Nobody has to start, kill,  *)
(* purge or message a team, to observe it, or to leave it.                 *)
(***************************************************************************)
FairSpec ==
  /\ Spec
  /\ WF_vars(Run)
  /\ WF_vars(ForwardMesh)
  /\ WF_vars(ClientReads)
  /\ \A a \in Agents : WF_vars(NodeEnds(a))
  /\ \A h \in Handlers : WF_vars(Message(h))
  /\ \A o \in Observers : WF_vars(ObserverEnds(o))

-----------------------------------------------------------------------------
(***************************************************************************)
(* Type invariant.                                                         *)
(***************************************************************************)
Verdicts == {"completed", "failed", "errors"}
TeamEvent == Verdicts \cup Handlers \cup {"update"}
MeshEvent == [type : {"spawned", "message", "error", "complete"}, agent : Agents]

TypeOK ==
  /\ kind \in {"none", "run", "mesh"}
  /\ status \in Verdicts \cup {"running"}
  /\ agents \in [Agents -> {"none", "running", "completed", "failed"}]
  /\ inbox \in [Agents -> SUBSET Handlers]
  /\ {listed, canceled, gone, closed} \subseteq BOOLEAN
  /\ events \in Seq(TeamEvent) /\ Len(events) <= Cap
  /\ mesh \in Seq(MeshEvent) /\ Len(mesh) <= MeshCap
  /\ received \subseteq TeamEvent
  /\ main \in [at : {"none", "insert", "announce", "check", "find", "execute", "send", "broadcast", "next", "judge", "complete", "mark", "close",
                    "ended", "abort", "aborted", "receive", "forward", "errors"},
               agent : Agents, found : SUBSET Agents, verdict : Verdicts \cup {"none"}]
  /\ node \in [Agents -> {"none", "running", "ending", "completed", "failed"}]
  /\ handler \in [Handlers -> [at : {"idle", "send", "append", "broadcast", "accepted",
                                   "refused"}, to : Agents]]
  /\ observer \in [Observers -> [at : {"none", "attached", "canceled", "deleted"},
                                 served : BOOLEAN, closed : BOOLEAN]]
  /\ panicked \in {"no", "events", "observer"}
  /\ calls \in Nat

(***************************************************************************)
(* A message that DirectMessage accepted is with its recipient, and it is  *)
(* not lost on its way to a client that stays: whatever ends the team.     *)
(***************************************************************************)
AcceptedArrives ==
  \A h \in Handlers : handler[h].at = "accepted" =>
    /\ h \in inbox[handler[h].to]
    /\ h \in Range(events) \cup received \/ gone

(***************************************************************************)
(* A client that stays until its stream ends was told the verdict that the *)
(* status shows, except of a run that was killed before its agents began,  *)
(* or that panicked.                                                       *)
(***************************************************************************)
StreamTellsVerdict ==
  closed /\ ~gone =>
    \/ status \in Range(events) \cup received
    \/ kind = "run" /\ canceled /\ status = "failed"
    \/ kind = "run" /\ main.at = "aborted"

(***************************************************************************)
(* The channel of a registered observer is open, so that no broadcast can  *)
(* meet a closed one.                                                      *)
(***************************************************************************)
ObserverIsOpen == panicked # "observer"

(***************************************************************************)
(* Every team ends and shows it, unless its client left: then a run may    *)
(* wait for room in its channel, and a mesh team may be given up, and both *)
(* are reported as running from then on; so is a run that panicked.        *)
(***************************************************************************)
TeamEnds ==
  kind # "none" ~>
    \/ status # "running" /\ closed
    \/ gone /\ Len(events) = Cap
    \/ gone /\ kind = "mesh" /\ main.at = "aborted"
    \/ kind = "run" /\ main.at = "aborted"
    \/ panicked # "no"

=============================================================================

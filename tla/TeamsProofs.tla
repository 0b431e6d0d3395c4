------------------------------ MODULE TeamsProofs ------------------------------
(***************************************************************************)
(* Theorems about one team, for any handlers and observers and any size of *)
(* its channels.                                                           *)
(***************************************************************************)
EXTENDS Teams, SequenceTheorems, TLAPS

-----------------------------------------------------------------------------
(***************************************************************************)
(* The inductive invariant: what each place of the run or the forwarder,   *)
(* of a handler and of an observer says of the team.                       *)
(***************************************************************************)
Told(event) == event \in Range(events) \cup received

PlaceInv ==
  /\ kind = "none" <=> main.at = "none"
  /\ main.at \in {"insert", "announce", "check", "find", "execute", "send", "broadcast",
                  "next", "judge"} => kind = "run"
  /\ main.at \in {"receive", "forward", "errors"} => kind = "mesh"
  /\ main.at \in {"errors", "complete", "mark", "close", "ended"} => main.verdict # "none"
  /\ status = IF main.at \in {"close", "ended"} THEN main.verdict ELSE "running"
  /\ closed <=> main.at \in {"ended", "aborted"}
  /\ main.at \in {"abort", "aborted"} => kind = "run" \/ gone

VerdictInv ==
  main.at \in {"mark", "close", "ended"} =>
    \/ Told(main.verdict) \/ gone
    \/ kind = "run" /\ canceled /\ main.verdict = "failed"

HandlerInv ==
  \A h \in Handlers :
    /\ handler[h].at \in {"append", "broadcast", "accepted"} => Told(h) \/ gone
    /\ handler[h].at \in {"broadcast", "accepted"} => h \in inbox[handler[h].to]

ObserverInv ==
  /\ \A o \in Observers : /\ observer[o].served => observer[o].at = "attached"
                          /\ observer[o].closed => observer[o].at = "deleted"
  /\ panicked # "observer"

IInv == TypeOK /\ PlaceInv /\ VerdictInv /\ HandlerInv /\ ObserverInv

-----------------------------------------------------------------------------
(***************************************************************************)
(* What a sequence holds after one element is added or taken.              *)
(***************************************************************************)
LEMMA AppendRange ==
  ASSUME NEW S, NEW s \in Seq(S), NEW e \in S
  PROVE  Range(Append(s, e)) = Range(s) \cup {e}
<1>1. /\ Append(s, e) \in Seq(S) /\ Len(Append(s, e)) = Len(s) + 1 /\ Len(s) \in Nat
      /\ \A i \in 1..Len(s) : Append(s, e)[i] = s[i]
      /\ Append(s, e)[Len(s) + 1] = e
  BY AppendProperties, LenProperties
<1>2. DOMAIN s = 1..Len(s) /\ DOMAIN Append(s, e) = 1..(Len(s) + 1)
  BY <1>1, LenProperties
<1>3. 1..(Len(s) + 1) = 1..Len(s) \cup {Len(s) + 1}
  BY <1>1
<1> QED BY <1>1, <1>2, <1>3 DEF Range

LEMMA TailRange ==
  ASSUME NEW S, NEW s \in Seq(S), s # <<>>
  PROVE  Range(s) = Range(Tail(s)) \cup {Head(s)}
<1>1. /\ Tail(s) \in Seq(S) /\ Len(Tail(s)) = Len(s) - 1 /\ Len(s) \in Nat \ {0}
      /\ \A i \in 1..Len(Tail(s)) : Tail(s)[i] = s[i + 1]
      /\ Head(s) = s[1]
  BY HeadTailProperties, LenProperties, EmptySeq
<1>2. DOMAIN s = 1..Len(s) /\ DOMAIN Tail(s) = 1..(Len(s) - 1)
  BY <1>1, LenProperties
<1>3. Range(Tail(s)) \subseteq Range(s) /\ Head(s) \in Range(s)
  <2>1. \A i \in 1..(Len(s) - 1) : i + 1 \in 1..Len(s)
    BY <1>1
  <2>2. 1 \in 1..Len(s)
    BY <1>1
  <2> QED BY <1>1, <1>2, <2>1, <2>2 DEF Range
<1>4. ASSUME NEW i \in 1..Len(s)
      PROVE  s[i] \in Range(Tail(s)) \cup {Head(s)}
  <2>1. CASE i = 1
    BY <1>1, <2>1
  <2>2. CASE i # 1
    <3>1. i - 1 \in 1..(Len(s) - 1) /\ (i - 1) + 1 = i
      BY <1>1, <2>2
    <3>2. Tail(s)[i - 1] = s[i]
      BY <1>1, <3>1
    <3> QED BY <1>2, <3>1, <3>2 DEF Range
  <2> QED BY <2>1, <2>2
<1> QED BY <1>2, <1>3, <1>4 DEF Range

(* What happens to the channel and what was read of it. *)
LEMMA PutTells ==
  ASSUME TypeOK, NEW event \in TeamEvent, events' = Append(events, event), received' = received,
         Len(events) < Cap
  PROVE  /\ events' \in Seq(TeamEvent) /\ Len(events') <= Cap
         /\ \A x : Told(x) => Told(x)'
         /\ Told(event)'
<1>1. events \in Seq(TeamEvent) /\ Len(events) \in Nat /\ Cap \in Nat
  BY TeamAssumption, LenProperties DEF TypeOK
<1>2. events' \in Seq(TeamEvent) /\ Len(events') = Len(events) + 1
  BY <1>1, AppendProperties
<1>3. Range(events') = Range(events) \cup {event}
  BY <1>1, AppendRange
<1> QED BY <1>1, <1>2, <1>3 DEF Told

LEMMA ReadTells ==
  ASSUME TypeOK, ClientReads
  PROVE  /\ events' \in Seq(TeamEvent) /\ Len(events') <= Cap /\ received' \subseteq TeamEvent
         /\ \A x : x # "update" /\ Told(x) => Told(x)'
<1>1. /\ events \in Seq(TeamEvent) /\ Len(events) \in Nat /\ Cap \in Nat /\ Len(events) <= Cap
      /\ events # <<>> /\ events' = Tail(events) /\ received \subseteq TeamEvent
      /\ received' = received \cup ({Head(events)} \ {"update"})
  BY TeamAssumption, LenProperties DEF TypeOK, ClientReads
<1>2. events' \in Seq(TeamEvent) /\ Len(events') = Len(events) - 1 /\ Head(events) \in TeamEvent
  BY <1>1, HeadTailProperties
<1>3. Range(events) = Range(events') \cup {Head(events)}
  BY <1>1, TailRange
<1> QED BY <1>1, <1>2, <1>3 DEF Told

LEMMA VerdictsAreEvents ==
  /\ Verdicts \subseteq TeamEvent /\ Handlers \subseteq TeamEvent /\ "update" \in TeamEvent
  /\ "update" \notin Verdicts /\ "update" \notin Handlers
BY TeamAssumption DEF Verdicts, TeamEvent

-----------------------------------------------------------------------------
(***************************************************************************)
(* The steps of the run and of the forwarder.                              *)
(***************************************************************************)
MainStep == StartTeam \/ StartMeshTeam \/ Run \/ Panic \/ ForwardMesh

(* What no such step touches. *)
LEMMA MainFrame ==
  ASSUME IInv, MainStep
  PROVE  /\ inbox' = inbox /\ canceled' = canceled /\ gone' = gone /\ received' = received
         /\ handler' = handler /\ observer' = observer /\ calls' = calls
         /\ listed' \in BOOLEAN /\ panicked' = panicked
<1>1. /\ inbox' = inbox /\ canceled' = canceled /\ gone' = gone /\ received' = received
      /\ handler' = handler /\ observer' = observer /\ calls' = calls
  BY DEF MainStep, StartTeam, StartMeshTeam, Run, Panic, ForwardMesh, Insert, Announce, CheckContext,
     Find, Execute, RouteSend, RouteBroadcast, NextAgent, Judge, Complete, MarkDone, Close, Receive,
     Forward, Result, Errors, GiveUp, team, client, others
<1>2. listed' \in BOOLEAN
  BY DEF MainStep, StartTeam, StartMeshTeam, Run, Panic, ForwardMesh, Insert, Announce, CheckContext,
     Find, Execute, RouteSend, RouteBroadcast, NextAgent, Judge, Complete, MarkDone, Close, Receive,
     Forward, Result, Errors, GiveUp, team, IInv, TypeOK
<1>3. CASE RouteBroadcast
  <2>1. ~\E o \in Observers : observer[o].at \in {"attached", "canceled"} /\ observer[o].closed
    BY DEF IInv, ObserverInv
  <2> QED BY <1>1, <1>2, <1>3, <2>1 DEF RouteBroadcast, Broadcast
<1>4. CASE ~RouteBroadcast
  <2>1. panicked' = panicked
    BY <1>4 DEF MainStep, StartTeam, StartMeshTeam, Run, Panic, ForwardMesh, Insert, Announce,
       CheckContext, Find, Execute, RouteSend, NextAgent, Judge, Complete, MarkDone, Close,
       Receive, Forward, Result, Errors, GiveUp, others
  <2> QED BY <1>1, <1>2, <2>1
<1> QED BY <1>3, <1>4

(* What it puts on the channel. *)
LEMMA MainTells ==
  ASSUME IInv, MainStep
  PROVE  /\ events' \in Seq(TeamEvent) /\ Len(events') <= Cap
         /\ \A x : Told(x) => Told(x)'
         /\ Complete => Told(main.verdict)' \/ gone
<1>1. received' = received /\ TypeOK
  BY MainFrame DEF IInv
<1>2. ASSUME NEW event \in TeamEvent, Put(event)
      PROVE  /\ events' \in Seq(TeamEvent) /\ Len(events') <= Cap
             /\ \A x : Told(x) => Told(x)'
             /\ Told(event)'
  BY <1>1, <1>2, PutTells DEF Put
<1>3. ASSUME events' = events
      PROVE  /\ events' \in Seq(TeamEvent) /\ Len(events') <= Cap
             /\ \A x : Told(x) => Told(x)'
  BY <1>1, <1>3 DEF TypeOK, Told
<1>4. CASE Announce \/ RouteSend \/ Forward
  <2>1. Put("update") /\ ~Complete
    BY <1>4 DEF Announce, RouteSend, Forward, Complete
  <2> QED BY <1>2, <2>1, VerdictsAreEvents
<1>5. CASE Errors
  <2>1. Put("update") \/ events' = events
    BY <1>5 DEF Errors, channel
  <2>2. ~Complete
    BY <1>5 DEF Errors, Complete
  <2> QED BY <1>2, <1>3, <2>1, <2>2, VerdictsAreEvents
<1>6. CASE Complete
  <2>1. main.verdict \in TeamEvent
    BY <1>6, VerdictsAreEvents DEF IInv, TypeOK, PlaceInv, Complete
  <2>2. main' = [main EXCEPT !.at = "mark"] /\ main'.verdict = main.verdict
    BY <1>6 DEF IInv, TypeOK, Complete, Goto
  <2>3. Put(main.verdict) \/ (gone /\ events' = events)
    BY <1>6 DEF Complete, channel
  <2>4. Told(main.verdict)' => Told(main.verdict)'
    OBVIOUS
  <2>5. CASE Put(main.verdict)
    <3>1. PICK v : v = main.verdict
      OBVIOUS
    <3>2. Told(v)'
      BY <1>2, <2>1, <2>5, <3>1
    <3>3. Told(main.verdict)'
      BY <2>2, <3>1, <3>2 DEF Told
    <3> QED BY <1>2, <2>1, <2>5, <3>3
  <2>6. CASE gone /\ events' = events
    BY <1>3, <2>6
  <2> QED BY <2>3, <2>5, <2>6
<1>7. CASE ~(Announce \/ RouteSend \/ Forward \/ Errors \/ Complete)
  <2>1. events' = events
    BY <1>7 DEF MainStep, StartTeam, StartMeshTeam, Run, Panic, ForwardMesh, Insert, CheckContext,
       Find, Execute, RouteBroadcast, NextAgent, Judge, MarkDone, Close, Receive, Result, GiveUp, channel
  <2> QED BY <1>3, <1>7, <2>1
<1> QED BY <1>4, <1>5, <1>6, <1>7

MainType ==
  [at : {"none", "insert", "announce", "check", "find", "execute", "send", "broadcast", "next",
         "judge", "complete", "mark", "close", "ended", "abort", "aborted", "receive", "forward",
         "errors"},
   agent : Agents, found : SUBSET Agents, verdict : Verdicts \cup {"none"}]

(* Where it goes. *)
LEMMA MainTypes ==
  ASSUME IInv, MainStep
  PROVE  main' \in MainType
<1>1. main \in MainType /\ Orchestrator \in Agents /\ Worker \in Agents
  BY DEF IInv, TypeOK, MainType, Agents
<1>2. CASE StartTeam \/ StartMeshTeam \/ Panic \/ GiveUp
  BY <1>1, <1>2 DEF StartTeam, StartMeshTeam, Panic, GiveUp, Goto, MainType
<1>3. CASE Insert \/ Announce \/ CheckContext \/ Find
  BY <1>1, <1>3 DEF Insert, Announce, CheckContext, Find, Goto, MainType, Verdicts
<1>4. CASE Execute \/ RouteSend \/ RouteBroadcast \/ NextAgent
  BY <1>1, <1>4 DEF Execute, RouteSend, RouteBroadcast, NextAgent, Goto, MainType
<1>5. CASE Judge \/ Complete \/ MarkDone \/ Close
  BY <1>1, <1>5 DEF Judge, Complete, MarkDone, Close, Goto, MainType, Verdicts
<1>6. CASE Receive \/ Forward
  BY <1>1, <1>6 DEF Receive, Forward, Goto, MainType
<1>7. CASE Result
  <2> DEFINE failed == {a \in Agents : node[a] = "failed"}
             verdict == IF failed = {} THEN "completed" ELSE "errors"
  <2>1. failed \in SUBSET Agents /\ verdict \in Verdicts
    BY DEF Verdicts
  <2>2. main' = [main EXCEPT !.at = "errors", !.found = failed, !.verdict = verdict]
    BY <1>7 DEF Result
  <2> HIDE DEF failed, verdict
  <2> QED BY <1>1, <2>1, <2>2 DEF MainType
<1>8. CASE Errors
  <2>1. CASE Goto("complete")
    BY <1>1, <2>1 DEF Goto, MainType
  <2>2. ASSUME NEW a \in Agents, main' = [main EXCEPT !.found = @ \ {a}]
        PROVE  main' \in MainType
    BY <1>1, <2>2 DEF MainType
  <2>3. main.found \subseteq Agents
    BY <1>1 DEF MainType
  <2> QED BY <1>8, <2>1, <2>2, <2>3 DEF Errors
<1> QED BY <1>2, <1>3, <1>4, <1>5, <1>6, <1>7, <1>8 DEF MainStep, Run, ForwardMesh

(* The agents, the mesh channel and the nodes. *)
LEMMA MainMesh ==
  ASSUME IInv, MainStep
  PROVE  /\ agents' \in [Agents -> {"none", "running", "completed", "failed"}]
         /\ mesh' \in Seq(MeshEvent) /\ Len(mesh') <= MeshCap
         /\ node' \in [Agents -> {"none", "running", "ending", "completed", "failed"}]
<1>1. /\ agents \in [Agents -> {"none", "running", "completed", "failed"}]
      /\ node \in [Agents -> {"none", "running", "ending", "completed", "failed"}]
      /\ mesh \in Seq(MeshEvent) /\ Len(mesh) <= MeshCap /\ Len(mesh) \in Nat
      /\ Orchestrator \in Agents /\ Worker \in Agents /\ MeshCap \in Nat \ {0, 1}
      /\ main \in MainType
  BY TeamAssumption, LenProperties DEF IInv, TypeOK, MainType, Agents
<1>2. CASE StartMeshTeam
  <2>1. Event("spawned", Orchestrator) \in MeshEvent /\ Event("spawned", Worker) \in MeshEvent
    BY <1>1 DEF Event, MeshEvent
  <2>2. mesh' \in Seq(MeshEvent) /\ Len(mesh') = 2
    <3> DEFINE x == Event("spawned", Orchestrator)
               y == Event("spawned", Worker)
    <3>1. mesh' = <<x, y>> /\ x \in MeshEvent /\ y \in MeshEvent
      BY <1>2, <2>1 DEF StartMeshTeam
    <3> HIDE DEF x, y
    <3> QED BY <3>1
  <2> QED BY <1>1, <1>2, <2>2 DEF StartMeshTeam
<1>3. CASE Receive
  <2>1. Head(mesh) \in MeshEvent /\ Tail(mesh) \in Seq(MeshEvent) /\ Len(Tail(mesh)) = Len(mesh) - 1
    BY <1>1, <1>3, HeadTailProperties DEF Receive
  <2>2. Head(mesh).agent \in Agents
    BY <2>1 DEF MeshEvent
  <2>3. agents' \in [Agents -> {"none", "running", "completed", "failed"}]
    BY <1>1, <1>3, <2>2 DEF Receive, Track
  <2> QED BY <1>1, <1>3, <2>1, <2>3 DEF Receive
<1>4. CASE Insert \/ Execute
  <2>1. agents' \in [Agents -> {"none", "running", "completed", "failed"}]
    BY <1>1, <1>4 DEF Insert, Execute, Ended, MainType
  <2> QED BY <1>1, <1>4, <2>1 DEF Insert, Execute
<1>5. CASE ~(StartMeshTeam \/ Receive \/ Insert \/ Execute)
  <2>1. agents' = agents /\ mesh' = mesh /\ node' = node
    BY <1>5 DEF MainStep, StartTeam, Run, Panic, ForwardMesh, Announce, CheckContext, Find, RouteSend,
       RouteBroadcast, NextAgent, Judge, Complete, MarkDone, Close, Forward, Result, Errors, GiveUp, team
  <2> QED BY <1>1, <2>1
<1> QED BY <1>2, <1>3, <1>4, <1>5

LEMMA MainPlaces ==
  ASSUME IInv, MainStep
  PROVE  PlaceInv'
<1>1. main \in MainType /\ main' \in MainType /\ gone' = gone
  BY MainTypes, MainFrame DEF IInv, TypeOK, MainType
<1>2. CASE StartTeam \/ StartMeshTeam
  BY <1>1, <1>2 DEF StartTeam, StartMeshTeam, Goto, IInv, PlaceInv, MainType, channel
<1>3. CASE Panic \/ GiveUp
  BY <1>1, <1>3 DEF Panic, GiveUp, Goto, IInv, PlaceInv, MainType, team, channel
<1>4. CASE Insert \/ Announce \/ CheckContext \/ Find \/ Execute \/ RouteSend \/ RouteBroadcast
           \/ NextAgent \/ Judge \/ Complete
  <2>1. kind' = kind /\ status' = status /\ closed' = closed
    BY <1>4 DEF Insert, Announce, Put, CheckContext, Find, Execute, RouteSend, RouteBroadcast, NextAgent,
       Judge, Complete, team, channel
  <2>2. CASE CheckContext
    BY <1>1, <2>1, <2>2 DEF CheckContext, IInv, PlaceInv, MainType
  <2>3. CASE Complete
    BY <1>1, <2>1, <2>3 DEF Complete, Goto, IInv, PlaceInv, MainType
  <2>4. CASE Judge
    BY <1>1, <2>1, <2>4 DEF Judge, IInv, PlaceInv, MainType
  <2>5. CASE ~(CheckContext \/ Complete \/ Judge)
    <3>1. main.at \in {"insert", "announce", "find", "execute", "send", "broadcast", "next"}
          /\ main'.at \in {"insert", "announce", "check", "execute", "send", "broadcast", "next", "judge"}
      BY <1>1, <1>4, <2>5 DEF Insert, Announce, Find, Execute, RouteSend, RouteBroadcast, NextAgent,
         Goto, MainType
    <3> QED BY <1>1, <2>1, <3>1 DEF IInv, PlaceInv
  <2> QED BY <2>2, <2>3, <2>4, <2>5
<1>5. CASE MarkDone \/ Close
  BY <1>1, <1>5 DEF MarkDone, Close, Goto, IInv, PlaceInv, MainType, team, channel
<1>6. CASE Receive \/ Forward
  BY <1>1, <1>6 DEF Receive, Forward, Put, Goto, IInv, PlaceInv, MainType, team, channel
<1>7. CASE Result
  BY <1>1, <1>7 DEF Result, IInv, PlaceInv, MainType, team, channel
<1>8. CASE Errors
  <2>1. kind' = kind /\ status' = status /\ closed' = closed /\ main.at = "errors"
    BY <1>8 DEF Errors, Put, team, channel
  <2>2. main'.at \in {"errors", "complete"} /\ main'.verdict = main.verdict
    BY <1>1, <1>8 DEF Errors, Goto, MainType
  <2>3. main.verdict # "none"
    BY <2>1 DEF IInv, PlaceInv
  <2> QED BY <1>1, <2>1, <2>2, <2>3 DEF IInv, PlaceInv
<1> QED BY <1>2, <1>3, <1>4, <1>5, <1>6, <1>7, <1>8 DEF MainStep, Run, ForwardMesh

LEMMA MainInv ==
  ASSUME IInv, MainStep
  PROVE  IInv'
<1>1. /\ inbox' = inbox /\ canceled' = canceled /\ gone' = gone /\ received' = received
      /\ handler' = handler /\ observer' = observer /\ calls' = calls
      /\ listed' \in BOOLEAN /\ panicked' = panicked
  BY MainFrame
<1>2. main \in MainType /\ main' \in MainType /\ PlaceInv'
  BY MainTypes, MainPlaces DEF IInv, TypeOK, MainType
<1>3. /\ events' \in Seq(TeamEvent) /\ Len(events') <= Cap
      /\ \A x : Told(x) => Told(x)'
      /\ Complete => Told(main.verdict)' \/ gone
  BY MainTells
<1>4. /\ agents' \in [Agents -> {"none", "running", "completed", "failed"}]
      /\ mesh' \in Seq(MeshEvent) /\ Len(mesh') <= MeshCap
      /\ node' \in [Agents -> {"none", "running", "ending", "completed", "failed"}]
  BY MainMesh
<1>5. kind' \in {"none", "run", "mesh"} /\ closed' \in BOOLEAN
  <2>1. kind' \in {kind, "run", "mesh"} /\ closed' \in {closed, TRUE}
    BY DEF MainStep, StartTeam, StartMeshTeam, Run, Panic, ForwardMesh, Insert, Announce, Put,
       CheckContext, Find, Execute, RouteSend, RouteBroadcast, NextAgent, Judge, Complete, MarkDone,
       Close, Receive, Forward, Result, Errors, GiveUp, team, channel
  <2> QED BY <2>1 DEF IInv, TypeOK
<1>6. status' \in Verdicts \cup {"running"}
  BY <1>2 DEF PlaceInv, MainType
<1>7. TypeOK'
  BY <1>1, <1>2, <1>3, <1>4, <1>5, <1>6 DEF IInv, TypeOK, MainType
<1>8. VerdictInv'
  <2>1. CASE CheckContext
    <3>1. main'.at = "mark" => main'.verdict = "failed" /\ (gone \/ canceled)
      BY <1>2, <2>1 DEF CheckContext, MainType
    <3>2. kind' = kind /\ kind = "run" /\ main'.at \in {"mark", "find"}
      BY <1>2, <2>1 DEF CheckContext, MainType, team, IInv, PlaceInv
    <3> QED BY <1>1, <3>1, <3>2 DEF VerdictInv
  <2>2. CASE Complete
    <3>1. main'.verdict = main.verdict
      BY <1>2, <2>2 DEF Complete, Goto, MainType
    <3> QED BY <1>1, <1>3, <2>2, <3>1 DEF VerdictInv, Told
  <2>3. CASE MarkDone \/ Close
    <3>1. main'.at \in {"mark", "close", "ended"} => main.at \in {"mark", "close", "ended"}
      BY <1>2, <2>3 DEF MarkDone, Close, Goto, MainType
    <3>2. main'.verdict = main.verdict /\ kind' = kind
      BY <1>2, <2>3 DEF MarkDone, Close, Goto, MainType, team
    <3>3. Told(main.verdict) => Told(main.verdict)'
      <4>1. PICK v : v = main.verdict
        OBVIOUS
      <4>2. Told(v) => Told(v)'
        BY <1>3
      <4> QED BY <3>2, <4>1, <4>2 DEF Told
    <3> QED BY <1>1, <3>1, <3>2, <3>3 DEF IInv, VerdictInv
  <2>4. CASE ~(CheckContext \/ Complete \/ MarkDone \/ Close)
    <3>1. main'.at \notin {"mark", "close", "ended"}
      BY <1>2, <2>4 DEF MainStep, StartTeam, StartMeshTeam, Run, Panic, ForwardMesh, Insert, Announce,
         Find, Execute, RouteSend, RouteBroadcast, NextAgent, Judge, Receive, Forward, Result, Errors,
         GiveUp, Goto, MainType
    <3> QED BY <3>1 DEF VerdictInv
  <2> QED BY <2>1, <2>2, <2>3, <2>4
<1>9. HandlerInv'
  <2>1. \A h \in Handlers : Told(h) => Told(h)'
    BY <1>3
  <2> QED BY <1>1, <2>1 DEF IInv, HandlerInv
<1>10. ObserverInv'
  BY <1>1 DEF IInv, ObserverInv
<1> QED BY <1>2, <1>7, <1>8, <1>9, <1>10 DEF IInv

-----------------------------------------------------------------------------
(***************************************************************************)
(* The steps of everyone else.                                             *)
(***************************************************************************)
(* Such a step leaves the run where it is, and takes nothing back.         *)
LEMMA Aside ==
  ASSUME IInv, main' = main, kind' = kind, status' = status, closed' = closed,
         canceled => canceled', gone => gone',
         \A x : x # "update" /\ Told(x) => Told(x)'
  PROVE  PlaceInv' /\ VerdictInv'
<1>1. PlaceInv'
  BY DEF IInv, PlaceInv
<1>2. main.at \in {"mark", "close", "ended"} => main.verdict \in Verdicts
  BY DEF IInv, TypeOK, PlaceInv
<1>3. main.at \in {"mark", "close", "ended"} /\ Told(main.verdict) => Told(main.verdict)'
  <2>1. PICK v : v = main.verdict
    OBVIOUS
  <2>2. v \in Verdicts /\ Told(v) => Told(v)'
    BY VerdictsAreEvents
  <2> QED BY <1>2, <2>1, <2>2 DEF Told
<1> QED BY <1>1, <1>3 DEF IInv, VerdictInv

LEMMA ClientInv ==
  ASSUME IInv,
         \/ ClientReads \/ ClientLeaves \/ KillTeam \/ Purge
         \/ \E a \in Agents : NodeMessage(a) \/ NodeEnds(a) \/ KillJob(a) \/ RemoveAgent(a)
  PROVE  IInv'
<1>1. /\ main' = main /\ kind' = kind /\ status' = status /\ closed' = closed /\ inbox' = inbox
      /\ handler' = handler /\ observer' = observer /\ panicked' = panicked
  BY DEF ClientReads, ClientLeaves, KillTeam, Purge, NodeMessage, NodeEnds, KillJob, RemoveAgent,
     team, channel, others
<1>2. /\ canceled' = canceled \/ canceled' = TRUE
      /\ gone' = gone \/ gone' = TRUE
      /\ listed' = listed \/ listed' = FALSE
      /\ calls' \in {calls, calls + 1}
  BY DEF ClientReads, ClientLeaves, KillTeam, Purge, NodeMessage, NodeEnds, KillJob, RemoveAgent, Call,
     team, client
<1>3. /\ events' \in Seq(TeamEvent) /\ Len(events') <= Cap /\ received' \subseteq TeamEvent
      /\ \A x : x # "update" /\ Told(x) => Told(x)'
  <2>1. CASE ClientReads
    BY <2>1, ReadTells DEF IInv
  <2>2. CASE ~ClientReads
    <3>1. events' = events /\ received' = received
      BY <2>2 DEF ClientLeaves, KillTeam, Purge, NodeMessage, NodeEnds, KillJob, RemoveAgent,
         channel, client
    <3> QED BY <3>1 DEF IInv, TypeOK, Told
  <2> QED BY <2>1, <2>2
<1>4. /\ agents' \in [Agents -> {"none", "running", "completed", "failed"}]
      /\ node' \in [Agents -> {"none", "running", "ending", "completed", "failed"}]
  BY DEF IInv, TypeOK, ClientReads, ClientLeaves, KillTeam, Purge, NodeMessage, NodeEnds, KillJob,
     RemoveAgent, team
<1>5. mesh' \in Seq(MeshEvent) /\ Len(mesh') <= MeshCap
  <2>1. /\ mesh \in Seq(MeshEvent) /\ Len(mesh) <= MeshCap /\ Len(mesh) \in Nat /\ MeshCap \in Nat
    BY TeamAssumption, LenProperties DEF IInv, TypeOK
  <2>2. ASSUME NEW event \in MeshEvent, Emit(event)
        PROVE  mesh' \in Seq(MeshEvent) /\ Len(mesh') <= MeshCap
    BY <2>1, <2>2, AppendProperties DEF Emit
  <2>3. \A a \in Agents : /\ Event("message", a) \in MeshEvent /\ Event("complete", a) \in MeshEvent
                          /\ Event("error", a) \in MeshEvent
    BY DEF Event, MeshEvent
  <2>4. ASSUME NEW a \in Agents, NodeMessage(a) \/ NodeEnds(a)
        PROVE  mesh' \in Seq(MeshEvent) /\ Len(mesh') <= MeshCap
    BY <2>2, <2>3, <2>4 DEF NodeMessage, NodeEnds
  <2>5. ASSUME \/ ClientReads \/ ClientLeaves \/ KillTeam \/ Purge
               \/ \E a \in Agents : KillJob(a) \/ RemoveAgent(a)
        PROVE  mesh' = mesh
    BY <2>5 DEF ClientReads, ClientLeaves, KillTeam, Purge, KillJob, RemoveAgent
  <2> QED BY <2>1, <2>4, <2>5
<1>6. TypeOK'
  <2>1. calls' \in Nat
    BY <1>2 DEF IInv, TypeOK
  <2>2. canceled' \in BOOLEAN /\ gone' \in BOOLEAN /\ listed' \in BOOLEAN
    <3>1. canceled \in BOOLEAN /\ gone \in BOOLEAN /\ listed \in BOOLEAN
      BY DEF IInv, TypeOK
    <3>2. canceled' \in BOOLEAN
      BY <1>2, <3>1
    <3>3. gone' \in BOOLEAN
      BY <1>2, <3>1
    <3>4. listed' \in BOOLEAN
      BY <1>2, <3>1
    <3> QED BY <3>2, <3>3, <3>4
  <2> QED BY <1>1, <1>3, <1>4, <1>5, <2>1, <2>2 DEF IInv, TypeOK
<1>7. (canceled => canceled') /\ (gone => gone')
  <2>1. canceled => canceled'
    BY <1>2
  <2>2. gone => gone'
    BY <1>2
  <2> QED BY <2>1, <2>2
<1>8. PlaceInv' /\ VerdictInv'
  BY <1>1, <1>3, <1>7, Aside
<1>9. HandlerInv'
  <2>1. \A h \in Handlers : Told(h) => Told(h)'
    BY <1>3, VerdictsAreEvents
  <2> QED BY <1>1, <1>7, <2>1 DEF IInv, HandlerInv
<1>10. ObserverInv'
  BY <1>1 DEF IInv, ObserverInv
<1> QED BY <1>6, <1>8, <1>9, <1>10 DEF IInv

LEMMA MessageInv ==
  ASSUME IInv, NEW h \in Handlers, Message(h) \/ \E a \in Agents : DirectMessage(h, a)
  PROVE  IInv'
<1>1. /\ main' = main /\ kind' = kind /\ status' = status /\ closed' = closed /\ agents' = agents
      /\ canceled' = canceled /\ gone' = gone /\ listed' = listed /\ received' = received
      /\ mesh' = mesh /\ node' = node /\ observer' = observer
      /\ calls' \in {calls, calls + 1}
  BY DEF Message, MessageSend, MessageAppend, MessageBroadcast, DirectMessage, Call,
     team, channel, client
<1>2. /\ handler \in [Handlers -> [at : {"idle", "send", "append", "broadcast", "accepted", "refused"},
                                   to : Agents]]
      /\ handler' \in [Handlers -> [at : {"idle", "send", "append", "broadcast", "accepted", "refused"},
                                    to : Agents]]
      /\ \A g \in Handlers : g # h => handler'[g] = handler[g]
  <2> DEFINE HandlerType == [at : {"idle", "send", "append", "broadcast", "accepted", "refused"},
                             to : Agents]
  <2>1. handler \in [Handlers -> HandlerType]
    BY DEF IInv, TypeOK
  <2>2. ASSUME NEW at \in {"append", "broadcast", "accepted", "refused"}, HandlerAt(h, at)
        PROVE  /\ handler' \in [Handlers -> HandlerType]
               /\ \A g \in Handlers : g # h => handler'[g] = handler[g]
    BY <2>1, <2>2 DEF HandlerAt
  <2>3. ASSUME NEW a \in Agents, DirectMessage(h, a)
        PROVE  /\ handler' \in [Handlers -> HandlerType]
               /\ \A g \in Handlers : g # h => handler'[g] = handler[g]
    <3> DEFINE at == IF listed /\ status = "running" /\ agents[a] # "none" THEN "send" ELSE "refused"
    <3>1. handler' = [handler EXCEPT ![h] = [at |-> at, to |-> a]] /\ at \in {"send", "refused"}
      BY <2>3 DEF DirectMessage
    <3> HIDE DEF at
    <3> QED BY <2>1, <3>1
  <2>4. Message(h) => \/ handler' = handler
                      \/ \E at \in {"append", "broadcast", "accepted", "refused"} : HandlerAt(h, at)
    BY DEF Message, MessageSend, MessageAppend, MessageBroadcast
  <2> QED BY <2>1, <2>2, <2>3, <2>4
<1>3. /\ events' \in Seq(TeamEvent) /\ Len(events') <= Cap
      /\ \A x : Told(x) => Told(x)'
      /\ MessageSend(h) /\ handler'[h].at = "append" => Told(h)'
  <2>1. CASE MessageSend(h) /\ ~closed /\ Len(events) < Cap
    <3>1. events' = Append(events, h) /\ h \in TeamEvent
      BY <2>1, VerdictsAreEvents, LenProperties, TeamAssumption DEF MessageSend, IInv, TypeOK
    <3> QED BY <1>1, <2>1, <3>1, PutTells DEF IInv
  <2>2. CASE ~(MessageSend(h) /\ ~closed /\ Len(events) < Cap)
    <3>1. events' = events
      BY <2>2 DEF Message, MessageSend, MessageAppend, MessageBroadcast, DirectMessage, channel
    <3>2. MessageSend(h) => handler'[h].at # "append"
      BY <1>2, <2>2 DEF MessageSend, HandlerAt
    <3> QED BY <1>1, <3>1, <3>2 DEF IInv, TypeOK, Told
  <2> QED BY <2>1, <2>2
<1>4. /\ inbox' \in [Agents -> SUBSET Handlers]
      /\ \A a \in Agents : inbox[a] \subseteq inbox'[a]
      /\ MessageAppend(h) => h \in inbox'[handler[h].to]
  <2>1. inbox \in [Agents -> SUBSET Handlers] /\ handler[h].to \in Agents
    BY <1>2 DEF IInv, TypeOK
  <2>2. CASE MessageAppend(h)
    BY <2>1, <2>2 DEF MessageAppend
  <2>3. CASE ~MessageAppend(h)
    <3>1. inbox' = inbox
      BY <2>3 DEF Message, MessageSend, MessageBroadcast, DirectMessage, team
    <3> QED BY <2>1, <2>3, <3>1
  <2> QED BY <2>2, <2>3
<1>5. panicked' \in {"no", "events", "observer"} /\ panicked' # "observer"
  <2>1. ~\E o \in Observers : observer[o].at \in {"attached", "canceled"} /\ observer[o].closed
    BY DEF IInv, ObserverInv
  <2>2. panicked \in {"no", "events", "observer"} /\ panicked # "observer"
    BY DEF IInv, TypeOK, ObserverInv
  <2> QED BY <2>1, <2>2 DEF Message, MessageSend, MessageAppend, MessageBroadcast, Broadcast, DirectMessage
<1>6. TypeOK'
  <2>1. calls' \in Nat
    BY <1>1 DEF IInv, TypeOK
  <2> QED BY <1>1, <1>2, <1>3, <1>4, <1>5, <2>1 DEF IInv, TypeOK
<1>7. PlaceInv' /\ VerdictInv'
  BY <1>1, <1>3, Aside
<1>8. HandlerInv'
  <2> SUFFICES ASSUME NEW g \in Handlers
               PROVE  /\ handler'[g].at \in {"append", "broadcast", "accepted"} => Told(g)' \/ gone'
                      /\ handler'[g].at \in {"broadcast", "accepted"} => g \in inbox'[handler'[g].to]
    BY DEF HandlerInv
  <2>1. CASE g # h
    <3>1. handler'[g] = handler[g] /\ handler[g].to \in Agents
      BY <1>2, <2>1
    <3> QED BY <1>1, <1>3, <1>4, <3>1 DEF IInv, HandlerInv
  <2>2. CASE g = h /\ MessageSend(h)
    <3>1. handler'[h].at \in {"append", "refused"} \/ handler' = handler
      BY <1>2, <2>2 DEF MessageSend, HandlerAt
    <3>2. handler[h].at = "send"
      BY <2>2 DEF MessageSend
    <3> QED BY <1>3, <2>2, <3>1, <3>2
  <2>3. CASE g = h /\ MessageAppend(h)
    <3>1. handler[h].at = "append" /\ handler'[h].to = handler[h].to
      BY <1>2, <2>3 DEF MessageAppend, HandlerAt
    <3> QED BY <1>1, <1>3, <1>4, <2>3, <3>1 DEF IInv, HandlerInv
  <2>4. CASE g = h /\ MessageBroadcast(h)
    <3>1. handler[h].at = "broadcast" /\ handler'[h].to = handler[h].to /\ handler[h].to \in Agents
      BY <1>2, <2>4 DEF MessageBroadcast, HandlerAt
    <3> QED BY <1>1, <1>3, <1>4, <2>4, <3>1 DEF IInv, HandlerInv
  <2>5. CASE g = h /\ \E a \in Agents : DirectMessage(h, a)
    <3>1. handler'[h].at \in {"send", "refused"}
      BY <1>2, <2>5 DEF DirectMessage
    <3> QED BY <2>5, <3>1
  <2> QED BY <2>1, <2>2, <2>3, <2>4, <2>5 DEF Message
<1>9. ObserverInv'
  BY <1>1, <1>5 DEF IInv, ObserverInv
<1> QED BY <1>6, <1>7, <1>8, <1>9 DEF IInv

LEMMA ObserveInv ==
  ASSUME IInv, NEW o \in Observers, AttachTeam(o) \/ DetachTeam(o) \/ ObserverEnds(o)
  PROVE  IInv'
<1>1. /\ main' = main /\ kind' = kind /\ status' = status /\ events' = events /\ closed' = closed
      /\ agents' = agents /\ inbox' = inbox /\ canceled' = canceled /\ gone' = gone
      /\ listed' = listed /\ received' = received /\ mesh' = mesh /\ node' = node
      /\ handler' = handler /\ panicked' = panicked /\ calls' \in {calls, calls + 1}
  BY DEF AttachTeam, DetachTeam, ObserverEnds, Call, team, channel, client
<1>2. /\ observer' \in [Observers -> [at : {"none", "attached", "canceled", "deleted"},
                                      served : BOOLEAN, closed : BOOLEAN]]
      /\ \A p \in Observers : p # o => observer'[p] = observer[p]
      /\ observer'[o].served => observer'[o].at = "attached"
      /\ observer'[o].closed => observer'[o].at = "deleted"
  <2> DEFINE ObserverType == [at : {"none", "attached", "canceled", "deleted"},
                              served : BOOLEAN, closed : BOOLEAN]
  <2>1. /\ observer \in [Observers -> ObserverType]
        /\ observer[o].served => observer[o].at = "attached"
        /\ observer[o].closed => observer[o].at = "deleted"
    BY DEF IInv, TypeOK, ObserverInv
  <2>2. CASE AttachTeam(o)
    <3>1. observer' = [observer EXCEPT ![o].at = "attached", ![o].served = TRUE] /\ observer[o].at = "none"
      BY <2>2 DEF AttachTeam
    <3> QED BY <2>1, <3>1
  <2>3. CASE DetachTeam(o)
    <3> DEFINE at == IF listed THEN "canceled" ELSE observer[o].at
    <3>1. observer' = [observer EXCEPT ![o].served = FALSE, ![o].at = at] /\ observer[o].served
      BY <2>1, <2>3 DEF DetachTeam
    <3>2. at \in {"canceled", "attached"} /\ ~observer[o].closed
      BY <2>1, <3>1
    <3> HIDE DEF at
    <3> QED BY <2>1, <3>1, <3>2
  <2>4. CASE ObserverEnds(o)
    <3>1. CASE observer[o].at = "canceled" /\ observer' = [observer EXCEPT ![o].at = "deleted"]
      BY <2>1, <3>1
    <3>2. CASE observer[o].at = "deleted" /\ observer' = [observer EXCEPT ![o].closed = TRUE]
      BY <2>1, <3>2
    <3> QED BY <2>4, <3>1, <3>2 DEF ObserverEnds
  <2> QED BY <2>2, <2>3, <2>4
<1>3. TypeOK'
  <2>1. calls' \in Nat
    BY <1>1 DEF IInv, TypeOK
  <2> QED BY <1>1, <1>2, <2>1 DEF IInv, TypeOK
<1>4. \A x : Told(x)' <=> Told(x)
  BY <1>1 DEF Told
<1>5. PlaceInv' /\ VerdictInv'
  BY <1>1, <1>4, Aside
<1>6. HandlerInv'
  BY <1>1, <1>4 DEF IInv, HandlerInv
<1>7. ObserverInv'
  BY <1>1, <1>2 DEF IInv, ObserverInv
<1> QED BY <1>3, <1>5, <1>6, <1>7 DEF IInv

-----------------------------------------------------------------------------
LEMMA InitInv == Init => IInv
<1> SUFFICES ASSUME Init PROVE IInv
  OBVIOUS
<1>1. /\ <<>> \in Seq(TeamEvent) /\ <<>> \in Seq(MeshEvent) /\ Len(<<>>) = 0 /\ 0 <= Cap /\ 0 <= MeshCap
      /\ Orchestrator \in Agents /\ Worker \in Agents
  BY TeamAssumption DEF Agents
<1>2. TypeOK
  BY <1>1 DEF Init, TypeOK
<1>3. PlaceInv /\ VerdictInv /\ HandlerInv /\ ObserverInv
  BY DEF Init, PlaceInv, VerdictInv, HandlerInv, ObserverInv
<1> QED BY <1>2, <1>3 DEF IInv

LEMMA Inductive == IInv /\ [Next]_vars => IInv'
<1> SUFFICES ASSUME IInv, [Next]_vars PROVE IInv'
  OBVIOUS
<1>1. CASE Next
  BY <1>1, MainInv, ClientInv, MessageInv, ObserveInv DEF Next, MainStep
<1>2. CASE UNCHANGED vars
  <2>1. TypeOK' /\ PlaceInv' /\ ObserverInv'
    BY <1>2 DEF IInv, TypeOK, PlaceInv, ObserverInv, vars, team, channel, client, others
  <2>2. VerdictInv' /\ HandlerInv'
    BY <1>2 DEF IInv, VerdictInv, HandlerInv, Told, vars, team, channel, client, others
  <2> QED BY <2>1, <2>2 DEF IInv
<1> QED BY <1>1, <1>2

LEMMA Invariance == Spec => []IInv
<1> QED BY InitInv, Inductive, PTL DEF Spec

(* The types, and that neither channel holds more than its capacity: the   *)
(* mesh drops what does not fit.                                           *)
THEOREM TypeCorrect == Spec => []TypeOK
<1>1. IInv => TypeOK
  BY DEF IInv
<1> QED BY <1>1, Invariance, PTL

(* DirectMessage: an accepted message is with its recipient and on its way *)
(* to the client.                                                          *)
THEOREM AcceptedMessagesArrive == Spec => []AcceptedArrives
<1>1. IInv => AcceptedArrives
  BY DEF IInv, HandlerInv, AcceptedArrives, Told
<1> QED BY <1>1, Invariance, PTL

(* tm.run and the forwarder of a mesh team: the stream does not end before *)
(* it told the verdict, but for the exceptions the property names.         *)
THEOREM StreamsTellVerdicts == Spec => []StreamTellsVerdict
<1>1. IInv => StreamTellsVerdict
  BY DEF IInv, PlaceInv, VerdictInv, StreamTellsVerdict, Told
<1> QED BY <1>1, Invariance, PTL

(* broadcastToObservers and the goroutine that takes an observer out: no   *)
(* broadcast meets a closed channel.                                       *)
THEOREM ObserversStayOpen == Spec => []ObserverIsOpen
<1>1. IInv => ObserverIsOpen
  BY DEF IInv, ObserverInv, ObserverIsOpen
<1> QED BY <1>1, Invariance, PTL

=============================================================================

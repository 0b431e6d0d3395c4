-------------------------- MODULE SessionQueueProofs --------------------------
(***************************************************************************)
(* Proofs about SessionQueue: the inductive invariant, one lemma for each  *)
(* of its parts, and the properties that follow from it.                   *)
(***************************************************************************)
EXTENDS SessionQueueInvariant, SequenceTheorems, TLAPS

(***************************************************************************)
(* What the transactions do to the queue: every prompt keeps its place.    *)
(***************************************************************************)
QueueType == queue \in Seq(PromptStatus) /\ Len(queue) <= MaxPrompts

(* Rewriting the statuses keeps the queue a queue of the same length.      *)
LEMMA BecomeQueue ==
  ASSUME QueueType, NEW from, NEW to \in PromptStatus, Become(from, to)
  PROVE  /\ QueueType'
         /\ DOMAIN queue' = DOMAIN queue
         /\ \A i \in DOMAIN queue :
              queue'[i] = IF queue[i] \in from THEN to ELSE queue[i]
<1>1. DOMAIN queue = 1..Len(queue) /\ \A i \in DOMAIN queue : queue[i] \in PromptStatus
  BY LenProperties DEF QueueType
<1>2. queue' \in [1..Len(queue) -> PromptStatus]
  BY <1>1 DEF Become
<1>3. queue' \in Seq(PromptStatus)
  BY <1>2, LenProperties DEF QueueType
<1>4. Len(queue') = Len(queue)
  BY <1>2, <1>3, LenProperties DEF QueueType
<1> QED BY <1>1, <1>3, <1>4 DEF QueueType, Become

(* So does a new status of one prompt.                                     *)
LEMMA ExceptQueue ==
  ASSUME QueueType, NEW i, NEW s \in PromptStatus, queue' = [queue EXCEPT ![i] = s]
  PROVE  /\ QueueType'
         /\ DOMAIN queue' = DOMAIN queue
         /\ \A j \in DOMAIN queue : queue'[j] = IF j = i THEN s ELSE queue[j]
<1>1. DOMAIN queue = 1..Len(queue) /\ \A j \in DOMAIN queue : queue[j] \in PromptStatus
  BY LenProperties DEF QueueType
<1>2. queue' \in [1..Len(queue) -> PromptStatus]
  BY <1>1 DEF QueueType
<1>3. queue' \in Seq(PromptStatus)
  BY <1>2, LenProperties DEF QueueType
<1>4. Len(queue') = Len(queue)
  BY <1>2, <1>3, LenProperties DEF QueueType
<1> QED BY <1>1, <1>3, <1>4 DEF QueueType

(* A new prompt comes after the others.                                    *)
LEMMA AppendQueue ==
  ASSUME QueueType, NEW s \in PromptStatus, Len(queue) < MaxPrompts,
         queue' = Append(queue, s)
  PROVE  /\ QueueType'
         /\ DOMAIN queue \subseteq DOMAIN queue'
         /\ \A j \in DOMAIN queue : queue'[j] = queue[j]
         /\ \A j \in DOMAIN queue' \ DOMAIN queue : queue'[j] = s
  BY AppendProperties, LenProperties, PromptsAssumption DEF QueueType

(* The queue is as long as its bound.                                      *)
LEMMA QueueDomain ==
  ASSUME QueueType
  PROVE  /\ DOMAIN queue \subseteq Prompts
         /\ 0 \notin DOMAIN queue
         /\ \A i \in DOMAIN queue : queue[i] \in PromptStatus
  BY LenProperties, PromptsAssumption DEF QueueType, Prompts

-----------------------------------------------------------------------------
(***************************************************************************)
(* Types.                                                                  *)
(***************************************************************************)
(* The sets of places are places; an idle process is a process.            *)
LEMMA PlacesKnown ==
  /\ Working \subseteq Owning /\ Owning \subseteq Places /\ Canceling \subseteq Places
  /\ {"idle", "acquire", "stale", "stale_recover"} \subseteq Places
  /\ Idle \in Process
  BY DEF Working, Owning, Canceling, Places, Idle, Process, Kinds

(* A move of one process keeps the type of all.                            *)
LEMMA MoveTypes ==
  ASSUME TypeOK, NEW p \in Processes
  PROVE  /\ \A at \in Places : Goto(p, at) => proc' \in [Processes -> Process]
         /\ Return(p) => proc' \in [Processes -> Process]
         /\ Abandon(p) => proc' \in [Processes -> Process]
<1>1. \A at \in Places : [proc[p] EXCEPT !.at = at] \in Process
  BY DEF TypeOK, Process
<1>2. [proc[p] EXCEPT !.at = "leave", !.agent = FALSE] \in Process
  BY PlacesKnown DEF TypeOK, Process, Owning
<1>3. Idle \in Process
  BY PlacesKnown
<1> QED BY <1>1, <1>2, <1>3 DEF TypeOK, Goto, Return, Abandon

(* Every step keeps the types.                                             *)
LEMMA TypeStep == ASSUME TypeOK, PromptsExist, [Next]_vars PROVE TypeOK'
<1>0. QueueType
  BY DEF TypeOK, QueueType
<1>q. ASSUME QueueType' PROVE queue' \in Seq(PromptStatus) /\ Len(queue') <= MaxPrompts
  BY <1>q DEF QueueType
<1>1. CASE UNCHANGED vars
  BY <1>1 DEF TypeOK, vars, files, locks
<1>2. CASE Enqueue
  <2>1. QueueType'
    BY <1>0, <1>2, AppendQueue DEF Enqueue, PromptStatus
  <2> QED BY <1>2, <1>q, <2>1 DEF TypeOK, Enqueue, locks, SessionStatus
<1>3. ASSUME NEW p \in Processes, Call(p) PROVE TypeOK'
  <2>1. CASE \E kind \in Kinds : Begin(p, kind)
    <3> PICK kind \in Kinds : Begin(p, kind)
      BY <2>1
    <3>1. [Idle EXCEPT !.at = "acquire", !.kind = kind] \in Process
      BY PlacesKnown DEF Process
    <3>2. proc' \in [Processes -> Process]
      BY <3>1 DEF Begin, TypeOK
    <3>3. sidecar' \in BOOLEAN
      <4>1. CASE kind \in {"drain", "watch"}
        BY <4>1 DEF Begin, Latched
      <4>2. CASE kind \notin {"drain", "watch"}
        BY <4>2 DEF Begin, TypeOK
      <4> QED BY <4>1, <4>2
    <3> QED BY <3>2, <3>3 DEF Begin, locks, TypeOK
  <2>2. CASE BeginCancel(p)
    <3>1. proc' \in [Processes -> Process]
      BY <2>2, MoveTypes, PlacesKnown DEF BeginCancel, Canceling
    <3> QED BY <2>2, <3>1 DEF BeginCancel, files, TypeOK
  <2>3. CASE BeginStale(p)
    <3>1. proc' \in [Processes -> Process]
      BY <2>3, MoveTypes, PlacesKnown DEF BeginStale
    <3> QED BY <2>3, <3>1 DEF BeginStale, files, locks, TypeOK
  <2> QED BY <1>3, <2>1, <2>2, <2>3 DEF Call
<1>4. ASSUME NEW p \in Processes, Fail(p) \/ CancelFails(p) \/ Crash(p) PROVE TypeOK'
  <2>1. proc' \in [Processes -> Process]
    BY <1>4, MoveTypes, PlacesKnown DEF Fail, CancelFails, Crash, Places, Owning
  <2> QED BY <1>4, <2>1 DEF Fail, CancelFails, Crash, Freed, files, locks, TypeOK
<1>5. ASSUME NEW p \in Processes, Step(p) PROVE TypeOK'
  <2>1. CASE \/ WatchCycle(p) \/ WatchWork(p) \/ Check(p) \/ Prompt(p) \/ PromptEnds(p)
             \/ Read(p) \/ CancelUnowned(p) \/ StaleOwner(p)
    <3>1. proc' \in [Processes -> Process]
      BY <2>1, MoveTypes
      DEF WatchCycle, WatchWork, Check, Prompt, PromptEnds, Read, CancelUnowned,
          StaleOwner, Places, Owning, Working, Canceling
    <3> QED BY <2>1, <3>1
        DEF WatchCycle, WatchWork, Check, Prompt, PromptEnds, Read, CancelUnowned,
            StaleOwner, files, locks, TypeOK
  <2>2. CASE NextPrompt(p) \/ Done(p)
    <3>1. \A i \in Prompts : [proc[p] EXCEPT !.at = "recheck", !.prompt = i] \in Process
      <4>1. "recheck" \in Places
        BY DEF Places, Owning
      <4> QED BY <4>1 DEF TypeOK, Process
    <3>2. \A at \in {"cycle", "finalize"} :
            [proc[p] EXCEPT !.at = at, !.agent = FALSE] \in Process
      BY DEF TypeOK, Process, Places, Owning
    <3>3. proc' \in [Processes -> Process]
      <4>1. CASE NextPrompt(p)
        <5>1. "done" \in Places /\ DOMAIN queue \subseteq Prompts
          BY <1>0, QueueDomain DEF Places, Owning
        <5>2. CASE Goto(p, "done")
          BY <5>1, <5>2, MoveTypes
        <5>3. ASSUME NEW i \in DOMAIN queue,
                     proc' = [proc EXCEPT ![p].at = "recheck", ![p].prompt = i]
              PROVE  proc' \in [Processes -> Process]
          <6>1. i \in Prompts
            BY <5>1
          <6>2. [proc[p] EXCEPT !.at = "recheck", !.prompt = i] \in Process
            BY <6>1, <3>1
          <6> QED BY <5>3, <6>2 DEF TypeOK
        <5> QED BY <4>1, <5>2, <5>3 DEF NextPrompt
      <4>2. CASE Done(p)
        BY <4>2, <3>2, MoveTypes DEF Done, TypeOK
      <4> QED BY <2>2, <4>1, <4>2
    <3> QED BY <2>2, <3>3 DEF NextPrompt, Done, files, locks, TypeOK
  <2>3. CASE Acquire(p) \/ Release(p) \/ Admit(p)
    <3>1. proc[p].kind \in Kinds
      BY DEF TypeOK, Process
    <3>2. proc' \in [Processes -> Process]
      BY <2>3, <3>1, MoveTypes
      DEF Acquire, Release, Admit, Kinds, Places, Owning, Working
    <3> QED BY <2>3, <3>2 DEF Acquire, Release, Admit, files, TypeOK
  <2>4. CASE Launch(p)
    <3>1. [proc[p] EXCEPT !.at = "prompt", !.agent = TRUE] \in Process
      <4>1. "prompt" \in Places
        BY DEF Places, Owning, Working
      <4> QED BY <4>1 DEF TypeOK, Process
    <3>2. proc' \in [Processes -> Process]
      <4>1. "recover_stop" \in Places
        BY DEF Places, Owning
      <4>2. CASE proc' = [proc EXCEPT ![p].at = "prompt", ![p].agent = TRUE]
        BY <3>1, <4>2 DEF TypeOK
      <4> QED BY <2>4, <4>1, <4>2, MoveTypes DEF Launch
    <3> QED BY <2>4, <3>2 DEF Launch, files, TypeOK
  <2>5. CASE CancelLatch(p) \/ CancelSidecar(p)
    <3>1. proc' \in [Processes -> Process]
      BY <2>5, MoveTypes DEF CancelLatch, CancelSidecar, Places, Canceling
    <3> QED BY <2>5, <3>1 DEF CancelLatch, CancelSidecar, SessionStatus, TypeOK
  <2>6. CASE Finalize(p) \/ Recover(p) \/ StaleRecover(p)
    <3>1. proc' \in [Processes -> Process]
      BY <2>6, MoveTypes DEF Finalize, Recover, StaleRecover, Places, Owning
    <3>2. QueueType' /\ status' \in SessionStatus
      BY <2>6, <1>0, BecomeQueue
      DEF Finalize, Recover, StaleRecover, RecoverItems, QueueType, PromptStatus,
          SessionStatus, TypeOK
    <3> QED BY <2>6, <3>1, <3>2, <1>q DEF Finalize, Recover, StaleRecover, locks, TypeOK
  <2>7. CASE CancelPending(p) \/ CancelQueue(p)
    <3>1. proc' \in [Processes -> Process]
      BY <2>7, MoveTypes DEF CancelPending, CancelQueue, Places, Owning
    <3>2. QueueType' /\ status' \in SessionStatus
      BY <2>7, <1>0, BecomeQueue
      DEF CancelPending, CancelQueue, CancelItems, PromptStatus, SessionStatus, TypeOK
    <3> QED BY <2>7, <3>1, <3>2, <1>q DEF CancelPending, CancelQueue, locks, TypeOK
  <2>8. CASE Claim(p) \/ MarkFailed(p) \/ Save(p)
    <3>1. proc' \in [Processes -> Process]
      BY <2>8, MoveTypes DEF Claim, MarkFailed, Save, Places, Owning, Working
    <3>2. QueueType' /\ status' \in SessionStatus
      <4>1. CASE Claim(p)
        BY <4>1, <1>0, ExceptQueue DEF Claim, QueueType, PromptStatus, SessionStatus, TypeOK
      <4>2. ASSUME NEW i, NEW s \in {"completed", "failed"}, Settle(i, s)
            PROVE  QueueType' /\ status' \in SessionStatus
        BY <4>2, <1>0, ExceptQueue DEF Settle, PromptStatus, SessionStatus
      <4>3. CASE MarkFailed(p)
        BY <4>2, <4>3, <1>0 DEF MarkFailed, QueueType, TypeOK
      <4>4. CASE Save(p) /\ proc[p].prompt = 0
        BY <4>4, <1>0 DEF Save, Preserved, QueueType, SessionStatus, TypeOK
      <4>5. CASE Save(p) /\ proc[p].prompt # 0
        BY <4>2, <4>5 DEF Save
      <4> QED BY <2>8, <4>1, <4>3, <4>4, <4>5
    <3> QED BY <2>8, <3>1, <3>2, <1>q DEF Claim, MarkFailed, Save, locks, TypeOK
  <2>9. CASE WriteEvents(p) \/ SaveFails(p)
    <3>1. \A b \in BOOLEAN : [proc[p] EXCEPT !.at = "save", !.logged = b] \in Process
      <4>1. "save" \in Places
        BY DEF Places, Owning, Working
      <4> QED BY <4>1 DEF TypeOK, Process
    <3>2. proc' \in [Processes -> Process]
      <4>1. CASE WriteEvents(p)
        <5> DEFINE b == proc[p].prompt \in log
        <5>1. b \in BOOLEAN
          OBVIOUS
        <5>2. [proc[p] EXCEPT !.at = "save", !.logged = b] \in Process
          BY <5>1, <3>1
        <5>3. proc' = [proc EXCEPT ![p].at = "save", ![p].logged = b]
          BY <4>1 DEF WriteEvents
        <5> HIDE DEF b
        <5> QED BY <5>2, <5>3 DEF TypeOK
      <4>2. CASE SaveFails(p)
        BY <4>2, MoveTypes DEF SaveFails
      <4> QED BY <2>9, <4>1, <4>2
    <3>3. log' \subseteq Prompts
      BY <2>9 DEF WriteEvents, SaveFails, TypeOK, Process
    <3> QED BY <2>9, <3>2, <3>3 DEF WriteEvents, SaveFails, TypeOK
  <2>10. CASE Start(p)
    <3>1. [proc[p] EXCEPT !.at = "prompt", !.agent = TRUE] \in Process
      <4>1. "prompt" \in Places
        BY DEF Places, Owning, Working
      <4> QED BY <4>1 DEF TypeOK, Process
    <3>2. proc' \in [Processes -> Process]
      <4>1. CASE proc' = [proc EXCEPT ![p].at = "prompt", ![p].agent = TRUE]
        BY <3>1, <4>1 DEF TypeOK
      <4> QED BY <2>10, <4>1, MoveTypes DEF Start
    <3> QED BY <2>10, <3>2 DEF Start, locks, SessionStatus, TypeOK
  <2>11. CASE CancelPrompt(p)
    <3>1. proc' \in [Processes -> Process]
      BY <2>11, MoveTypes DEF CancelPrompt
    <3>2. QueueType'
      BY <2>11, <1>0, ExceptQueue DEF CancelPrompt, QueueType, PromptStatus
    <3> QED BY <2>11, <3>1, <3>2, <1>q DEF CancelPrompt, locks, SessionStatus, TypeOK
  <2> QED
    BY <1>5, <2>1, <2>2, <2>3, <2>4, <2>5, <2>6, <2>7, <2>8, <2>9, <2>10, <2>11 DEF Step
<1> QED BY <1>1, <1>2, <1>3, <1>4, <1>5 DEF Next

-----------------------------------------------------------------------------
(***************************************************************************)
(* Locks.                                                                  *)
(***************************************************************************)

(* What a process may do.                                                  *)
Acts(p) == Call(p) \/ Step(p) \/ Fail(p) \/ CancelFails(p) \/ Crash(p)

(* Only the process that acts moves.                                       *)
LEMMA OthersStay ==
  ASSUME TypeOK, NEW p \in Processes,
         Acts(p),
         NEW q \in Processes, q # p
  PROVE  proc'[q] = proc[q]
<1> USE DEF Acts
<1>1. CASE Call(p)
  BY <1>1 DEF Call, Begin, BeginCancel, BeginStale, Goto, TypeOK
<1>2. CASE Fail(p) \/ CancelFails(p) \/ Crash(p)
  BY <1>2 DEF Fail, CancelFails, Crash, Goto, Return, Abandon, TypeOK
<1>3. CASE \/ Acquire(p) \/ Release(p) \/ WatchCycle(p) \/ WatchWork(p) \/ Finalize(p)
           \/ Recover(p) \/ Check(p) \/ CancelPending(p) \/ NextPrompt(p) \/ Claim(p)
  BY <1>3
  DEF Acquire, Release, WatchCycle, WatchWork, Finalize, Recover, Check, CancelPending,
      NextPrompt, Claim, Goto, Return, Abandon, TypeOK
<1>4. CASE \/ Admit(p) \/ Launch(p) \/ Prompt(p) \/ PromptEnds(p) \/ MarkFailed(p)
           \/ WriteEvents(p) \/ Save(p) \/ SaveFails(p) \/ Done(p) \/ Start(p) \/ Read(p)
  BY <1>4
  DEF Admit, Launch, Prompt, PromptEnds, MarkFailed, WriteEvents, Save, SaveFails, Done,
      Start, Read, Goto, Abandon, TypeOK
<1>5. CASE \/ CancelLatch(p) \/ CancelSidecar(p) \/ CancelUnowned(p) \/ CancelQueue(p)
           \/ CancelPrompt(p) \/ StaleOwner(p) \/ StaleRecover(p)
  BY <1>5
  DEF CancelLatch, CancelSidecar, CancelUnowned, CancelQueue, CancelPrompt, StaleOwner,
      StaleRecover, Goto, Return, TypeOK
<1> QED BY <1>1, <1>2, <1>3, <1>4, <1>5 DEF Step

(* The process works for the same command on the same prompt.              *)
SameTask(p) == proc'[p].kind = proc[p].kind /\ proc'[p].prompt = proc[p].prompt

(* Where each kind of move leads, and what it keeps.                       *)
LEMMA MovesTo ==
  ASSUME TypeOK, NEW p \in Processes
  PROVE  /\ \A at : Goto(p, at) =>
              proc'[p].at = at /\ proc'[p].agent = proc[p].agent /\ SameTask(p)
         /\ Return(p) => proc'[p] = Idle
         /\ Abandon(p) => proc'[p].at = "leave" /\ ~proc'[p].agent /\ SameTask(p)
<1>1. proc \in [Processes -> Process]
  BY DEF TypeOK
<1>2. \A at : Goto(p, at) =>
        proc'[p].at = at /\ proc'[p].agent = proc[p].agent /\ SameTask(p)
  BY <1>1 DEF Goto, SameTask, Process
<1>3. /\ Return(p) => proc'[p] = Idle
      /\ Abandon(p) => proc'[p].at = "leave" /\ ~proc'[p].agent /\ SameTask(p)
  BY <1>1 DEF Return, Abandon, SameTask, Process
<1> QED BY <1>2, <1>3

(* A move that starts or closes the agent.                                 *)
LEMMA AgentMoves ==
  ASSUME TypeOK, NEW p \in Processes, NEW at, NEW b,
         proc' = [proc EXCEPT ![p].at = at, ![p].agent = b]
  PROVE  proc'[p].at = at /\ proc'[p].agent = b /\ SameTask(p)
  BY DEF SameTask, Process, TypeOK

(* The move to the save of a session.                                      *)
LEMMA LogMoves ==
  ASSUME TypeOK, NEW p \in Processes, WriteEvents(p)
  PROVE  proc'[p].at = "save" /\ proc'[p].agent = proc[p].agent /\ SameTask(p)
  BY DEF WriteEvents, SameTask, Process, TypeOK

(* The move of a drain that picks a prompt.                                *)
LEMMA PickMoves ==
  ASSUME TypeOK, NEW p \in Processes, NEW i,
         proc' = [proc EXCEPT ![p].at = "recheck", ![p].prompt = i]
  PROVE  /\ proc'[p].at = "recheck" /\ proc'[p].agent = proc[p].agent
         /\ proc'[p].prompt = i /\ proc'[p].kind = proc[p].kind
  BY DEF Process, TypeOK

(* The move of a process that begins a command.                            *)
LEMMA BeginMoves ==
  ASSUME TypeOK, NEW p \in Processes, NEW kind \in Kinds, Begin(p, kind)
  PROVE  /\ proc[p].at = "idle" /\ proc'[p].at = "acquire" /\ ~proc'[p].agent
         /\ proc'[p].prompt = 0 /\ proc'[p].kind = kind
  BY DEF Begin, Reads, Idle, TypeOK

(* Where the steps of a process lead.                                      *)
LEMMA Flow ==
  ASSUME TypeOK, NEW p \in Processes
  PROVE  /\ WatchCycle(p) =>
            proc[p].at = "cycle" /\ proc'[p].at \in {"leave", "recover_stop", "work"}
         /\ WatchWork(p) =>
            proc[p].at = "work" /\ proc'[p].at \in {"recover", "cycle", "finalize"}
         /\ Finalize(p) => proc[p].at = "finalize" /\ proc'[p].at \in {"leave"}
         /\ Recover(p) =>
            /\ proc[p].at \in {"recover", "recover_cancel", "recover_stop"}
            /\ proc'[p].at \in {"leave", "check", "done"}
         /\ Check(p) =>
            /\ proc[p].at \in {"check", "recheck"}
            /\ proc'[p].at \in {"cancel_pending", "next", "claim"}
         /\ CancelPending(p) => proc[p].at = "cancel_pending" /\ proc'[p].at \in {"done"}
         /\ NextPrompt(p) => proc[p].at = "next" /\ proc'[p].at \in {"done", "recheck"}
         /\ Claim(p) => proc[p].at = "claim" /\ proc'[p].at \in {"leave", "prompt", "admit"}
         /\ Prompt(p) => proc[p].at = "prompt" /\ proc'[p].at \in {"failed", "sent"}
         /\ PromptEnds(p) => proc[p].at = "sent" /\ proc'[p].at \in {"failed", "answered"}
         /\ MarkFailed(p) => proc[p].at = "failed" /\ proc'[p].at \in {"leave"}
         /\ Done(p) => proc[p].at = "done" /\ proc'[p].at \in {"leave", "cycle", "finalize"}
         /\ Start(p) => proc[p].at = "start" /\ proc'[p].at \in {"leave", "prompt"}
         /\ Read(p) => proc[p].at = "read" /\ proc'[p].at \in {"leave"}
         /\ CancelUnowned(p) =>
            /\ proc[p].at = "unowned"
            /\ proc'[p].at \in {"cancel_prompt", "cancel_queue", "idle"}
         /\ CancelQueue(p) => proc[p].at = "cancel_queue" /\ proc'[p].at \in {"idle"}
         /\ CancelPrompt(p) => proc[p].at = "cancel_prompt" /\ proc'[p].at \in {"idle"}
         /\ StaleOwner(p) =>
            proc[p].at = "stale" /\ proc'[p].at \in {"stale_recover", "idle"}
         /\ StaleRecover(p) => proc[p].at = "stale_recover" /\ proc'[p].at \in {"idle"}
         /\ WriteEvents(p) => proc[p].at = "answered" /\ proc'[p].at \in {"save"}
         /\ Save(p) => proc[p].at = "save" /\ proc'[p].at \in {"leave", "check", "done"}
         /\ SaveFails(p) => proc[p].at = "save" /\ proc'[p].at \in {"leave"}
         /\ Release(p) => proc[p].at = "leave" /\ proc'[p].at \in {"idle"}
         /\ Admit(p) => proc[p].at = "admit" /\ proc'[p].at \in {"recover_cancel", "launch"}
         /\ Launch(p) => proc[p].at = "launch" /\ proc'[p].at \in {"prompt", "recover_stop"}
         /\ CancelLatch(p) =>
            proc[p].at = "cancel_latch" /\ proc'[p].at \in {"cancel_sidecar"}
         /\ CancelSidecar(p) => proc[p].at = "cancel_sidecar" /\ proc'[p].at \in {"idle"}
<1>1. WatchCycle(p) =>
      proc[p].at = "cycle" /\ proc'[p].at \in {"leave", "recover_stop", "work"}
  BY MovesTo DEF WatchCycle, Reads
<1>2. WatchWork(p) =>
      proc[p].at = "work" /\ proc'[p].at \in {"recover", "cycle", "finalize"}
  BY MovesTo DEF WatchWork, Reads
<1>3. Finalize(p) => proc[p].at = "finalize" /\ proc'[p].at \in {"leave"}
  BY MovesTo DEF Finalize, Reads
<1>4. Recover(p) =>
      /\ proc[p].at \in {"recover", "recover_cancel", "recover_stop"}
      /\ proc'[p].at \in {"leave", "check", "done"}
  BY MovesTo DEF Recover, Reads
<1>5. Check(p) =>
      /\ proc[p].at \in {"check", "recheck"}
      /\ proc'[p].at \in {"cancel_pending", "next", "claim"}
  BY MovesTo DEF Check, Reads
<1>6. CancelPending(p) => proc[p].at = "cancel_pending" /\ proc'[p].at \in {"done"}
  BY MovesTo DEF CancelPending, Reads
<1>7. NextPrompt(p) => proc[p].at = "next" /\ proc'[p].at \in {"done", "recheck"}
  BY MovesTo, PickMoves DEF NextPrompt, Reads
<1>8. Claim(p) => proc[p].at = "claim" /\ proc'[p].at \in {"leave", "prompt", "admit"}
  BY MovesTo DEF Claim, Reads
<1>9. Prompt(p) => proc[p].at = "prompt" /\ proc'[p].at \in {"failed", "sent"}
  BY MovesTo DEF Prompt, Reads
<1>10. PromptEnds(p) => proc[p].at = "sent" /\ proc'[p].at \in {"failed", "answered"}
  BY MovesTo DEF PromptEnds
<1>11. MarkFailed(p) => proc[p].at = "failed" /\ proc'[p].at \in {"leave"}
  BY MovesTo DEF MarkFailed, Reads
<1>12. Done(p) => proc[p].at = "done" /\ proc'[p].at \in {"leave", "cycle", "finalize"}
  BY MovesTo, AgentMoves DEF Done
<1>13. Start(p) => proc[p].at = "start" /\ proc'[p].at \in {"leave", "prompt"}
  <2>1. CASE Abandon(p)
    BY <2>1, MovesTo DEF Start, Reads
  <2>2. CASE proc' = [proc EXCEPT ![p].at = "prompt", ![p].agent = TRUE]
    <3>1. proc'[p].at = "prompt"
      BY <2>2, AgentMoves
    <3> QED BY <3>1 DEF Start, Reads
  <2> QED BY <2>1, <2>2 DEF Start
<1>14. Read(p) => proc[p].at = "read" /\ proc'[p].at \in {"leave"}
  BY MovesTo DEF Read, Reads
<1>15. CancelUnowned(p) =>
      proc[p].at = "unowned" /\ proc'[p].at \in {"cancel_prompt", "cancel_queue", "idle"}
  BY MovesTo DEF CancelUnowned, Reads, Idle
<1>16. CancelQueue(p) => proc[p].at = "cancel_queue" /\ proc'[p].at \in {"idle"}
  BY MovesTo DEF CancelQueue, Reads, Idle
<1>17. CancelPrompt(p) => proc[p].at = "cancel_prompt" /\ proc'[p].at \in {"idle"}
  BY MovesTo DEF CancelPrompt, Reads, Idle
<1>18. StaleOwner(p) => proc[p].at = "stale" /\ proc'[p].at \in {"stale_recover", "idle"}
  BY MovesTo DEF StaleOwner, Idle
<1>19. StaleRecover(p) => proc[p].at = "stale_recover" /\ proc'[p].at \in {"idle"}
  BY MovesTo DEF StaleRecover, Reads, Idle
<1>20. WriteEvents(p) => proc[p].at = "answered" /\ proc'[p].at \in {"save"}
  BY MovesTo, LogMoves DEF WriteEvents, Reads
<1>21. Save(p) => proc[p].at = "save" /\ proc'[p].at \in {"leave", "check", "done"}
  BY MovesTo DEF Save
<1>22. SaveFails(p) => proc[p].at = "save" /\ proc'[p].at \in {"leave"}
  BY MovesTo DEF SaveFails
<1>23. Release(p) => proc[p].at = "leave" /\ proc'[p].at \in {"idle"}
  BY MovesTo DEF Release, Idle
<1>24. Admit(p) => proc[p].at = "admit" /\ proc'[p].at \in {"recover_cancel", "launch"}
  BY MovesTo DEF Admit, Reads
<1>25. Launch(p) => proc[p].at = "launch" /\ proc'[p].at \in {"prompt", "recover_stop"}
  BY MovesTo, AgentMoves DEF Launch
<1>26. CancelLatch(p) => proc[p].at = "cancel_latch" /\ proc'[p].at \in {"cancel_sidecar"}
  BY MovesTo DEF CancelLatch, Reads
<1>27. CancelSidecar(p) => proc[p].at = "cancel_sidecar" /\ proc'[p].at \in {"idle"}
  BY MovesTo DEF CancelSidecar, Idle
<1> QED
  BY <1>1, <1>2, <1>3, <1>4, <1>5, <1>6, <1>7, <1>8, <1>9, <1>10, <1>11, <1>12,
     <1>13, <1>14, <1>15, <1>16, <1>17, <1>18, <1>19, <1>20, <1>21, <1>22, <1>23,
     <1>24, <1>25, <1>26, <1>27

(* A process moves among the places at which it holds a lock, among those  *)
(* at which it does not, or takes or gives back the lock.                  *)
LockMoves(p) ==
  /\ \/ lease' = lease /\ (proc'[p].at \in Owning <=> proc[p].at \in Owning)
     \/ lease = None /\ lease' = p /\ proc'[p].at \in Owning
     \/ lease = p /\ lease' = None /\ proc'[p].at \notin Owning
  /\ LET at == {"cancel_latch", "cancel_sidecar"} IN
     \/ claim' = claim /\ (proc'[p].at \in at <=> proc[p].at \in at)
     \/ claim = None /\ claim' = p /\ proc'[p].at \in at
     \/ claim = p /\ claim' = None /\ proc'[p].at \notin at
  /\ LET at == {"launch", "cancel_sidecar"} IN
     \/ admission' = admission /\ (proc'[p].at \in at <=> proc[p].at \in at)
     \/ admission = None /\ admission' = p /\ proc'[p].at \in at
     \/ admission = p /\ admission' = None /\ proc'[p].at \notin at
  /\ LET at == {"save", "cancel_sidecar"} IN
     \/ storeLock' = storeLock /\ (proc'[p].at \in at <=> proc[p].at \in at)
     \/ storeLock = None /\ storeLock' = p /\ proc'[p].at \in at
     \/ storeLock = p /\ storeLock' = None /\ proc'[p].at \notin at

(* Every step moves the locks in line with the places.                     *)
LEMMA ProcessesMoveLocks ==
  ASSUME TypeOK, Locks, NEW p \in Processes,
         Acts(p)
  PROVE  LockMoves(p)
<1> USE DEF Acts
<1>0. p # None
  BY ProcessesAssumption
<1> DEFINE Stays(at) == proc'[p].at \in at <=> proc[p].at \in at
<1>1. ASSUME UNCHANGED locks, Stays(Owning), Stays({"cancel_latch", "cancel_sidecar"}),
             Stays({"launch", "cancel_sidecar"}), Stays({"save", "cancel_sidecar"})
      PROVE  LockMoves(p)
  BY <1>1 DEF LockMoves, locks
<1>2. CASE \/ WatchCycle(p) \/ WatchWork(p) \/ Finalize(p) \/ Recover(p) \/ Check(p)
           \/ CancelPending(p) \/ NextPrompt(p) \/ Claim(p) \/ Prompt(p) \/ PromptEnds(p)
           \/ MarkFailed(p) \/ Done(p) \/ Start(p) \/ Read(p)
  <2>1. UNCHANGED locks
    BY <1>2
    DEF WatchCycle, WatchWork, Finalize, Recover, Check, CancelPending, NextPrompt, Claim,
        Prompt, PromptEnds, MarkFailed, Done, Start, Read, locks
  <2> DEFINE plain == Owning \ {"launch", "save"}
  <2>2. proc[p].at \in plain /\ proc'[p].at \in plain
    BY <1>2, Flow DEF Owning, Working
  <2> QED BY <2>1, <2>2, <1>1 DEF Owning, Working
<1>3. CASE \/ CancelUnowned(p) \/ CancelQueue(p) \/ CancelPrompt(p) \/ StaleOwner(p)
           \/ StaleRecover(p)
  <2>1. UNCHANGED locks
    BY <1>3 DEF CancelUnowned, CancelQueue, CancelPrompt, StaleOwner, StaleRecover, locks
  <2> DEFINE plain == {"unowned", "cancel_queue", "cancel_prompt", "stale", "stale_recover",
                       "idle"}
  <2>2. proc[p].at \in plain /\ proc'[p].at \in plain
    BY <1>3, Flow
  <2> QED BY <2>1, <2>2, <1>1 DEF Owning, Working
<1>4. CASE Call(p)
  <2>1. CASE \E kind \in Kinds : Begin(p, kind)
    <3>1. UNCHANGED locks
      BY <2>1 DEF Begin, locks
    <3>2. proc[p].at = "idle" /\ proc'[p].at = "acquire"
      BY <2>1, BeginMoves
    <3> QED BY <3>1, <3>2, <1>1 DEF Owning, Working
  <2>2. CASE BeginStale(p)
    <3>1. UNCHANGED locks
      BY <2>2 DEF BeginStale, locks
    <3>2. proc[p].at = "idle" /\ proc'[p].at = "stale"
      BY <2>2, MovesTo DEF BeginStale, Reads
    <3> QED BY <3>1, <3>2, <1>1 DEF Owning, Working
  <2>3. CASE BeginCancel(p)
    <3>1. /\ proc[p].at = "idle" /\ claim = None
          /\ \/ proc'[p].at = "unowned" /\ UNCHANGED claim
             \/ proc'[p].at = "cancel_latch" /\ claim' = p
          /\ UNCHANGED <<lease, admission, storeLock>>
      BY <2>3, MovesTo DEF BeginCancel
    <3> QED BY <3>1, <1>0 DEF LockMoves, Owning, Working
  <2> QED BY <1>4, <2>1, <2>2, <2>3 DEF Call
<1>5. CASE Fail(p)
  <2>1. UNCHANGED locks
    BY <1>5 DEF Fail, locks
  <2>2. /\ proc[p].at \in Owning \ {"launch", "save"}
        /\ proc'[p].at \in {"leave", "recover_stop"}
    BY <1>5, MovesTo DEF Fail
  <2> QED BY <2>1, <2>2, <1>1 DEF Owning, Working
<1>6. CASE CancelFails(p)
  <2>1. proc[p].at \in Canceling \ {"cancel_sidecar"} /\ proc'[p].at = "idle"
    BY <1>6, MovesTo DEF CancelFails, Idle
  <2>2. /\ claim' = (IF claim = p THEN None ELSE claim)
        /\ UNCHANGED <<lease, admission, storeLock>>
    BY <1>6 DEF CancelFails, Freed
  <2>3. claim = p <=> proc[p].at = "cancel_latch"
    BY <2>1 DEF Locks, ClaimHolder
  <2> QED BY <2>1, <2>2, <2>3, <1>0 DEF LockMoves, Canceling, Owning, Working
<1>7. CASE Crash(p)
  <2>1. proc'[p].at = "idle"
    BY <1>7, MovesTo DEF Crash, Idle
  <2>2. /\ lease' = (IF lease = p THEN None ELSE lease)
        /\ claim' = (IF claim = p THEN None ELSE claim)
        /\ admission' = (IF admission = p THEN None ELSE admission)
        /\ storeLock' = (IF storeLock = p THEN None ELSE storeLock)
    BY <1>7 DEF Crash, Freed
  <2>3. "idle" \notin Owning
    BY DEF Owning, Working
  <2> QED
    BY <2>1, <2>2, <2>3, <1>0
    DEF LockMoves, Locks, LeaseHolder, ClaimHolder, AdmissionHolder, StoreHolder
<1>8. CASE Acquire(p)
  <2>1. proc[p].kind \in Kinds
    BY DEF Process, TypeOK
  <2>2. /\ proc[p].at = "acquire"
        /\ \/ /\ lease = None /\ lease' = p
              /\ proc'[p].at \in {"recover", "cycle", "start", "read"}
           \/ lease' = lease /\ proc'[p].at = "idle"
        /\ UNCHANGED <<claim, admission, storeLock>>
    BY <1>8, <2>1, MovesTo DEF Acquire, Kinds, Idle
  <2> QED BY <2>2, <1>0 DEF LockMoves, Owning, Working
<1>9. CASE Release(p)
  <2>1. proc[p].at = "leave" /\ proc'[p].at = "idle"
    BY <1>9, Flow
  <2>2. lease' = None /\ UNCHANGED <<claim, admission, storeLock>>
    BY <1>9 DEF Release
  <2>3. lease = p
    BY <2>1 DEF Locks, LeaseHolder, Owning
  <2> QED BY <2>1, <2>2, <2>3 DEF LockMoves, Owning, Working
<1>10. CASE Admit(p)
  <2>1. proc[p].at = "admit" /\ admission = None
    BY <1>10 DEF Admit, Reads
  <2>2. \/ proc'[p].at = "recover_cancel" /\ UNCHANGED admission
        \/ proc'[p].at = "launch" /\ admission' = p
    BY <1>10, MovesTo DEF Admit
  <2>3. UNCHANGED <<lease, claim, storeLock>>
    BY <1>10 DEF Admit
  <2> QED BY <2>1, <2>2, <2>3 DEF LockMoves, Owning, Working
<1>11. CASE Launch(p)
  <2>1. proc[p].at = "launch" /\ proc'[p].at \in {"prompt", "recover_stop"}
    BY <1>11, Flow
  <2>2. admission' = None /\ UNCHANGED <<lease, claim, storeLock>>
    BY <1>11 DEF Launch
  <2>3. admission = p
    BY <2>1 DEF Locks, AdmissionHolder
  <2> QED BY <2>1, <2>2, <2>3 DEF LockMoves, Owning, Working
<1>12. CASE WriteEvents(p)
  <2>1. proc[p].at = "answered" /\ proc'[p].at = "save"
    BY <1>12, Flow
  <2>2. storeLock = None /\ storeLock' = p /\ UNCHANGED <<lease, claim, admission>>
    BY <1>12 DEF WriteEvents, Reads
  <2> QED BY <2>1, <2>2 DEF LockMoves, Owning, Working
<1>13. CASE Save(p) \/ SaveFails(p)
  <2>1. proc[p].at = "save" /\ proc'[p].at \in {"leave", "check", "done"}
    BY <1>13, Flow
  <2>2. storeLock' = None /\ UNCHANGED <<lease, claim, admission>>
    BY <1>13 DEF Save, SaveFails
  <2>3. storeLock = p
    BY <2>1 DEF Locks, StoreHolder
  <2> QED BY <2>1, <2>2, <2>3 DEF LockMoves, Owning, Working
<1>14. CASE CancelLatch(p)
  <2>1. proc[p].at = "cancel_latch" /\ proc'[p].at = "cancel_sidecar"
    BY <1>14, Flow
  <2>2. /\ admission = None /\ admission' = p /\ storeLock = None /\ storeLock' = p
        /\ UNCHANGED <<lease, claim>>
    BY <1>14 DEF CancelLatch, Reads
  <2> QED BY <2>1, <2>2 DEF LockMoves, Owning, Working
<1>15. CASE CancelSidecar(p)
  <2>1. proc[p].at = "cancel_sidecar" /\ proc'[p].at = "idle"
    BY <1>15, Flow
  <2>2. claim' = None /\ admission' = None /\ storeLock' = None /\ UNCHANGED lease
    BY <1>15 DEF CancelSidecar
  <2>3. claim = p /\ admission = p /\ storeLock = p
    BY <2>1 DEF Locks, ClaimHolder, AdmissionHolder, StoreHolder
  <2> QED BY <2>1, <2>2, <2>3 DEF LockMoves, Owning, Working
<1> QED
  BY <1>2, <1>3, <1>4, <1>5, <1>6, <1>7, <1>8, <1>9, <1>10, <1>11, <1>12, <1>13, <1>14,
     <1>15
  DEF Step

(* Locks is inductive: each lock file has the holder that its place says.  *)
LEMMA LocksStep == ASSUME TypeOK, Locks, [Next]_vars PROVE Locks'
<1> USE DEF Acts
<1>1. CASE UNCHANGED vars \/ Enqueue
  BY <1>1
  DEF Enqueue, vars, files, locks, Locks, LeaseHolder, ClaimHolder, AdmissionHolder,
      StoreHolder
<1>2. ASSUME NEW p \in Processes,
             Acts(p)
      PROVE  Locks'
  <2>1. LockMoves(p) /\ p # None
    BY <1>2, ProcessesMoveLocks, ProcessesAssumption
  <2>2. \A q \in Processes \ {p} : proc'[q] = proc[q] /\ q # None
    BY <1>2, OthersStay, ProcessesAssumption
  <2>3. LeaseHolder'
    BY <2>1, <2>2 DEF LockMoves, Locks, LeaseHolder
  <2>4. ClaimHolder'
    BY <2>1, <2>2 DEF LockMoves, Locks, ClaimHolder
  <2>5. AdmissionHolder'
    BY <2>1, <2>2 DEF LockMoves, Locks, AdmissionHolder
  <2>6. StoreHolder'
    BY <2>1, <2>2 DEF LockMoves, Locks, StoreHolder
  <2> QED BY <2>3, <2>4, <2>5, <2>6 DEF Locks
<1> QED BY <1>1, <1>2 DEF Next

-----------------------------------------------------------------------------
(***************************************************************************)
(* The session.                                                            *)
(***************************************************************************)

(* A recovery of the queue. *)
LEMMA Recovery ==
  ASSUME QueueType, RecoverItems
  PROVE  /\ DOMAIN queue' = DOMAIN queue
         /\ Latched =>
              /\ status' = "canceled"
              /\ \A i \in DOMAIN queue : queue'[i] =
                   IF queue[i] \in {"pending", "running"} THEN "canceled" ELSE queue[i]
         /\ ~Latched =>
              /\ status' \in {status, "queued"}
              /\ \A i \in DOMAIN queue : queue'[i] =
                   IF queue[i] = "running" THEN "pending" ELSE queue[i]
<1>1. "canceled" \in PromptStatus /\ "pending" \in PromptStatus
  BY DEF PromptStatus
<1>2. CASE Latched
  BY <1>1, <1>2, BecomeQueue DEF RecoverItems
<1>3. CASE ~Latched
  <2>1. Become({"running"}, "pending") /\ status' \in {status, "queued"}
    BY <1>3 DEF RecoverItems
  <2> QED BY <1>1, <1>3, <2>1, BecomeQueue
<1> QED BY <1>2, <1>3

(* A cancellation of what waits. *)
LEMMA Cancellation ==
  ASSUME QueueType, CancelItems
  PROVE  /\ DOMAIN queue' = DOMAIN queue
         /\ \A i \in DOMAIN queue :
              queue'[i] = IF queue[i] = "pending" THEN "canceled" ELSE queue[i]
         /\ status' \in {status, "canceled"}
         /\ status' # status => \A i \in DOMAIN queue : queue[i] # "running"
<1>1. Become({"pending"}, "canceled") /\ "canceled" \in PromptStatus
  BY DEF CancelItems, PromptStatus
<1>2. /\ DOMAIN queue' = DOMAIN queue
      /\ \A i \in DOMAIN queue :
           queue'[i] = IF queue[i] = "pending" THEN "canceled" ELSE queue[i]
  BY <1>1, BecomeQueue
<1> QED BY <1>2 DEF CancelItems, HasPrompt

(* The outcome of one prompt. *)
LEMMA Settlement ==
  ASSUME QueueType, NEW i, NEW outcome \in PromptStatus, Settle(i, outcome)
  PROVE  /\ DOMAIN queue' = DOMAIN queue
         /\ \A j \in DOMAIN queue \ {i} : queue'[j] = queue[j]
         /\ i \in DOMAIN queue =>
              queue'[i] = IF Latched THEN "canceled" ELSE outcome
         /\ status' = IF Latched THEN "canceled" ELSE "completed"
<1> DEFINE s == IF Latched THEN "canceled" ELSE outcome
<1>1. s \in PromptStatus
  BY DEF PromptStatus
<1>2. queue' = [queue EXCEPT ![i] = s]
  BY DEF Settle
<1>3. /\ DOMAIN queue' = DOMAIN queue
      /\ \A j \in DOMAIN queue : queue'[j] = IF j = i THEN s ELSE queue[j]
  <2> HIDE DEF s
  <2> QED BY <1>1, <1>2, ExceptQueue
<1> QED BY <1>3 DEF Settle

(* The status of a session once it is latched. *)
LEMMA LatchStep ==
  ASSUME TypeOK, [Next]_vars
  PROVE  /\ Latched => Latched'
         /\ status = "canceled" => status' = "canceled"
<1>0. QueueType
  BY DEF TypeOK, QueueType
<1> DEFINE Kept == /\ Latched => Latched'
                   /\ status = "canceled" => status' = "canceled"
<1>1. CASE UNCHANGED status
  BY <1>1 DEF Latched
<1>2. CASE ~Latched
  BY <1>2 DEF Latched
<1>3. ASSUME NEW p \in Processes, Step(p), Latched, status' # status PROVE Kept
  <2>1. CASE Finalize(p) \/ Recover(p) \/ StaleRecover(p)
    <3>1. RecoverItems \/ UNCHANGED status
      BY <2>1 DEF Finalize, Recover, StaleRecover
    <3> QED BY <3>1, <1>0, <1>3, Recovery DEF Latched
  <2>2. CASE CancelPending(p) \/ CancelQueue(p)
    <3>1. CancelItems
      BY <2>2 DEF CancelPending, CancelQueue
    <3> QED BY <3>1, <1>0, <1>3, Cancellation DEF Latched
  <2>3. CASE MarkFailed(p) \/ Save(p)
    BY <2>3, <1>3 DEF MarkFailed, Save, Settle, Preserved, Latched
  <2>4. CASE CancelLatch(p) \/ CancelPrompt(p)
    BY <2>4, <1>3 DEF CancelLatch, CancelPrompt, Latched
  <2>5. CASE Claim(p) \/ Start(p)
    BY <2>5, <1>3 DEF Claim, Start
  <2>6. UNCHANGED status \/ Finalize(p) \/ Recover(p) \/ StaleRecover(p) \/ CancelPending(p)
        \/ CancelQueue(p) \/ MarkFailed(p) \/ Save(p) \/ CancelLatch(p) \/ CancelPrompt(p)
        \/ Claim(p) \/ Start(p)
    BY <1>3
    DEF Step, Acquire, Release, WatchCycle, WatchWork, Check, NextPrompt, Admit, Launch,
        Prompt, PromptEnds, WriteEvents, SaveFails, Done, Read, CancelSidecar,
        CancelUnowned, StaleOwner, files
  <2> QED BY <1>3, <2>1, <2>2, <2>3, <2>4, <2>5, <2>6
<1>4. ASSUME NEW p \in Processes, Call(p) \/ Fail(p) \/ CancelFails(p) \/ Crash(p)
      PROVE  UNCHANGED status
  BY <1>4 DEF Call, Begin, BeginCancel, BeginStale, Fail, CancelFails, Crash, files
<1>5. Enqueue => ~Latched
  BY DEF Enqueue
<1>6. UNCHANGED vars => UNCHANGED status
  BY DEF vars, files
<1> QED BY <1>1, <1>2, <1>3, <1>4, <1>5, <1>6 DEF Next

-----------------------------------------------------------------------------
(***************************************************************************)
(* The prompts.                                                            *)
(***************************************************************************)

(* What a step of a process may do to a prompt of the queue. *)
ItemMoves(p, i) ==
  \/ queue'[i] = queue[i]
  \/ queue[i] = "pending" /\ queue'[i] = "canceled"
  \/ /\ queue[i] = "pending" /\ queue'[i] = "running"
     /\ proc[p].at = "claim" /\ proc[p].prompt = i
  \/ queue[i] = "running" /\ queue'[i] = "canceled" /\ Latched'
  \/ /\ queue[i] = "running" /\ queue'[i] = "pending"
     /\ proc[p].at \in {"recover", "recover_cancel", "recover_stop"}
  \/ /\ queue[i] = "running" /\ queue'[i] \in {"completed", "failed"}
     /\ proc[p].prompt = i
     /\ \/ proc[p].at = "failed" /\ queue'[i] = "failed"
        \/ proc[p].at = "save" /\ queue'[i] = "completed"
  \/ /\ i = 1 /\ pending = "pending" /\ pending' = "canceled"
     /\ queue'[i] = "canceled" /\ Latched'

(* Every step of a process moves each prompt in one of these ways.         *)
LEMMA ItemStep ==
  ASSUME Inv, NEW p \in Processes,
         Acts(p)
  PROVE  /\ DOMAIN queue' = DOMAIN queue
         /\ \A i \in DOMAIN queue : ItemMoves(p, i)
<1> USE DEF Acts
<1>0. QueueType /\ TypeOK
  BY DEF Inv, TypeOK, QueueType
<1>1. CASE UNCHANGED queue
  BY <1>1 DEF ItemMoves
<1>2. CASE Finalize(p) \/ Recover(p) \/ StaleRecover(p)
  <2>1. CASE UNCHANGED queue
    BY <2>1 DEF ItemMoves
  <2>2. CASE RecoverItems /\ Latched
    BY <1>0, <2>2, Recovery DEF ItemMoves, Latched
  <2>3. CASE Recover(p) /\ ~Latched
    <3>1. proc[p].at \in {"recover", "recover_cancel", "recover_stop"} /\ RecoverItems
      BY <1>0, <2>3, Flow DEF Recover
    <3> QED BY <1>0, <2>3, <3>1, Recovery DEF ItemMoves
  <2>4. StaleRecover(p) => Latched /\ RecoverItems
    BY <1>0, Flow DEF StaleRecover, Inv, ActorsSawLatch
  <2>5. Finalize(p) => UNCHANGED queue \/ (RecoverItems /\ Latched)
    BY DEF Finalize
  <2>6. Recover(p) => RecoverItems
    BY DEF Recover
  <2> QED BY <1>2, <2>1, <2>2, <2>3, <2>4, <2>5, <2>6
<1>3. CASE CancelPending(p) \/ CancelQueue(p)
  <2>1. CancelItems
    BY <1>3 DEF CancelPending, CancelQueue
  <2> QED BY <1>0, <2>1, Cancellation DEF ItemMoves
<1>4. CASE Claim(p)
  <2>1. CASE UNCHANGED queue
    BY <2>1 DEF ItemMoves
  <2>2. CASE /\ queue[proc[p].prompt] = "pending"
             /\ queue' = [queue EXCEPT ![proc[p].prompt] = "running"]
    <3>1. "running" \in PromptStatus /\ proc[p].at = "claim"
      BY <1>0, <1>4, Flow DEF PromptStatus
    <3> QED BY <1>0, <2>2, <3>1, ExceptQueue DEF ItemMoves
  <2> QED BY <1>4, <2>1, <2>2 DEF Claim
<1>5. CASE (MarkFailed(p) \/ Save(p)) /\ queue' # queue
  <2> DEFINE i == proc[p].prompt
  <2>1. \/ proc[p].at = "failed" /\ Settle(i, "failed")
        \/ proc[p].at = "save" /\ Settle(i, "completed")
    BY <1>0, <1>5, Flow DEF MarkFailed, Save
  <2>2. i # 0
    BY <1>5 DEF MarkFailed, Save
  <2>3. \/ queue[i] = "running"
        \/ queue[i] = "canceled" /\ Latched
    BY <2>1, <2>2 DEF Inv, WorkIsMarked, Working
  <2>4. /\ DOMAIN queue' = DOMAIN queue
        /\ \A j \in DOMAIN queue \ {i} : queue'[j] = queue[j]
        /\ Latched /\ i \in DOMAIN queue => queue'[i] = "canceled" /\ status' = "canceled"
        /\ ~Latched /\ i \in DOMAIN queue =>
             \/ proc[p].at = "failed" /\ queue'[i] = "failed"
             \/ proc[p].at = "save" /\ queue'[i] = "completed"
    BY <1>0, <2>1, Settlement DEF PromptStatus
  <2>5. ASSUME NEW j \in DOMAIN queue PROVE ItemMoves(p, j)
    <3>1. CASE j # i
      BY <2>4, <3>1 DEF ItemMoves
    <3>2. CASE j = i /\ queue[i] = "canceled" /\ Latched
      BY <2>4, <2>5, <3>2 DEF ItemMoves
    <3>3. CASE j = i /\ queue[i] = "running" /\ Latched
      BY <2>4, <2>5, <3>3 DEF ItemMoves, Latched
    <3>4. CASE j = i /\ queue[i] = "running" /\ ~Latched
      BY <2>4, <2>5, <3>4 DEF ItemMoves
    <3> QED BY <2>3, <2>5, <3>1, <3>2, <3>3, <3>4
  <2> QED BY <2>4, <2>5
<1>6. CASE CancelPrompt(p) /\ queue' # queue
  <2>1. /\ queue' = [queue EXCEPT ![1] = "canceled"] /\ status' = "canceled"
        /\ pending = "pending" /\ pending' = "canceled"
    BY <1>6 DEF CancelPrompt
  <2>2. "canceled" \in PromptStatus
    BY DEF PromptStatus
  <2> QED BY <1>0, <2>1, <2>2, ExceptQueue DEF ItemMoves, Latched
<1>7. Call(p) \/ Fail(p) \/ CancelFails(p) \/ Crash(p) => UNCHANGED queue
  BY DEF Call, Begin, BeginCancel, BeginStale, Fail, CancelFails, Crash, files
<1>8. Step(p) =>
        \/ UNCHANGED queue \/ Finalize(p) \/ Recover(p) \/ StaleRecover(p)
        \/ CancelPending(p)
        \/ CancelQueue(p) \/ MarkFailed(p) \/ Save(p) \/ CancelPrompt(p) \/ Claim(p)
  BY DEF Step, Acquire, Release, WatchCycle, WatchWork, Check, NextPrompt, Admit, Launch,
      Prompt, PromptEnds, WriteEvents, SaveFails, Done, Start, Read, CancelLatch,
      CancelSidecar, CancelUnowned, StaleOwner, files
<1> QED BY <1>1, <1>2, <1>3, <1>4, <1>5, <1>6, <1>7, <1>8

(* How the other steps move a process.                                     *)
LEMMA MoreFlow ==
  ASSUME TypeOK, NEW p \in Processes
  PROVE  /\ Acquire(p) => /\ proc[p].at = "acquire"
                          /\ proc'[p].at \in {"recover", "cycle", "start", "read", "idle"}
         /\ BeginCancel(p) =>
              proc[p].at = "idle" /\ proc'[p].at \in {"unowned", "cancel_latch"}
         /\ BeginStale(p) => proc[p].at = "idle" /\ proc'[p].at = "stale"
         /\ Fail(p) => /\ proc[p].at \in Owning \ {"launch", "save", "leave"}
                       /\ proc'[p].at \in {"leave", "recover_stop"}
         /\ CancelFails(p) => proc[p].at \in Canceling /\ proc'[p].at = "idle"
         /\ Crash(p) => proc'[p].at = "idle"
<1>1. proc[p].kind \in Kinds
  BY DEF Process, TypeOK
<1>2. Acquire(p) => /\ proc[p].at = "acquire"
                    /\ proc'[p].at \in {"recover", "cycle", "start", "read", "idle"}
  BY <1>1, MovesTo DEF Acquire, Kinds, Idle
<1>3. /\ BeginCancel(p) =>
           proc[p].at = "idle" /\ proc'[p].at \in {"unowned", "cancel_latch"}
      /\ BeginStale(p) => proc[p].at = "idle" /\ proc'[p].at = "stale"
  BY MovesTo DEF BeginCancel, BeginStale, Reads
<1>4. /\ Fail(p) => /\ proc[p].at \in Owning \ {"launch", "save", "leave"}
                    /\ proc'[p].at \in {"leave", "recover_stop"}
      /\ CancelFails(p) => proc[p].at \in Canceling /\ proc'[p].at = "idle"
      /\ Crash(p) => proc'[p].at = "idle"
  BY MovesTo DEF Fail, CancelFails, Crash, Idle
<1> QED BY <1>2, <1>3, <1>4

(* How a process comes to the places that the invariant speaks of.         *)
LEMMA Sources ==
  ASSUME TypeOK, NEW p \in Processes, Acts(p)
  PROVE  /\ proc'[p].at = "acquire" => \E kind \in Kinds : Begin(p, kind)
         /\ proc'[p].at = "start" => Acquire(p)
         /\ proc'[p].at = "recheck" => NextPrompt(p)
         /\ proc'[p].at = "claim" => Check(p) /\ proc[p].at = "recheck"
         /\ proc'[p].at = "admit" => Claim(p)
         /\ proc'[p].at = "launch" => Admit(p)
         /\ proc'[p].at = "save" => WriteEvents(p)
         /\ proc'[p].at = "stale" => BeginStale(p)
         /\ proc'[p].at = "stale_recover" => StaleOwner(p)
         /\ proc'[p].at = "cancel_sidecar" => CancelLatch(p)
         /\ proc'[p].at = "prompt" => Claim(p) \/ Launch(p) \/ Start(p)
         /\ proc'[p].at \in {"sent", "failed", "answered"} => Prompt(p) \/ PromptEnds(p)
<1>1. CASE Call(p)
  BY <1>1, BeginMoves, MoreFlow DEF Call
<1>2. CASE Fail(p) \/ CancelFails(p) \/ Crash(p)
  BY <1>2, MoreFlow
<1>3. CASE \/ Acquire(p) \/ Release(p) \/ WatchCycle(p) \/ WatchWork(p) \/ Finalize(p)
           \/ Recover(p) \/ CancelPending(p) \/ NextPrompt(p)
  BY <1>3, Flow, MoreFlow
<1>4. CASE Check(p)
  <2>1. proc[p].at = "check" => proc'[p].at \in {"cancel_pending", "next"}
    BY <1>4, MovesTo DEF Check, Reads
  <2> QED BY <1>4, <2>1, Flow
<1>5. CASE Claim(p) \/ Admit(p) \/ Launch(p) \/ Prompt(p) \/ PromptEnds(p) \/ MarkFailed(p)
  BY <1>5, Flow
<1>6. CASE WriteEvents(p) \/ Save(p) \/ SaveFails(p) \/ Done(p) \/ Start(p) \/ Read(p)
  BY <1>6, Flow
<1>7. CASE \/ CancelLatch(p) \/ CancelSidecar(p) \/ CancelUnowned(p) \/ CancelQueue(p)
           \/ CancelPrompt(p) \/ StaleOwner(p) \/ StaleRecover(p)
  BY <1>7, Flow
<1> QED BY <1>1, <1>2, <1>3, <1>4, <1>5, <1>6, <1>7 DEF Acts, Step

(* On its way to the lease and holding it, a process keeps its kind, and   *)
(* its prompt except where it picks one.                                   *)
LEMMA Tasks ==
  ASSUME TypeOK, NEW p \in Processes, Acts(p),
         proc'[p].at \in {"acquire"} \cup Owning, proc'[p].at # "acquire"
  PROVE  /\ proc[p].at \in {"acquire"} \cup Owning
         /\ proc'[p].kind = proc[p].kind
         /\ \/ SameTask(p)
            \/ proc'[p].at = "recheck" /\ proc'[p].prompt \in DOMAIN queue \ {0}
<1> DEFINE Free == Canceling \cup {"idle", "stale", "stale_recover"}
<1>0. Free \cap Owning = {} /\ "idle" \notin Owning
  BY DEF Owning, Working, Canceling
<1>1. CASE Call(p) \/ CancelFails(p) \/ Crash(p)
  <2>1. proc'[p].at \in Free \cup {"acquire"}
    BY <1>1, BeginMoves, MoreFlow DEF Call, Canceling
  <2> QED BY <2>1, <1>0
<1>2. CASE \/ CancelLatch(p) \/ CancelSidecar(p) \/ CancelUnowned(p) \/ CancelQueue(p)
           \/ CancelPrompt(p) \/ StaleOwner(p) \/ StaleRecover(p) \/ Release(p)
  <2>1. proc'[p].at \in Free
    BY <1>2, Flow DEF Canceling
  <2> QED BY <2>1, <1>0
<1>3. CASE Acquire(p)
  <2>1. proc[p].at = "acquire"
    BY <1>3, MoreFlow
  <2>2. SameTask(p) \/ proc'[p].at = "idle"
    BY <1>3, MovesTo DEF Acquire, Idle
  <2> QED BY <2>1, <2>2, <1>0 DEF SameTask
<1>4. CASE \/ WatchCycle(p) \/ WatchWork(p) \/ Finalize(p) \/ Recover(p) \/ Check(p)
           \/ CancelPending(p) \/ Claim(p) \/ Admit(p) \/ Launch(p) \/ Prompt(p)
  <2>1. proc[p].at \in Owning
    BY <1>4, Flow DEF Owning, Working
  <2>2. SameTask(p)
    BY <1>4, MovesTo, AgentMoves
    DEF WatchCycle, WatchWork, Finalize, Recover, Check, CancelPending, Claim, Admit,
        Launch, Prompt
  <2> QED BY <2>1, <2>2 DEF SameTask
<1>5. CASE \/ PromptEnds(p) \/ MarkFailed(p) \/ WriteEvents(p) \/ Save(p) \/ SaveFails(p)
           \/ Done(p) \/ Start(p) \/ Read(p) \/ Fail(p)
  <2>1. proc[p].at \in Owning
    BY <1>5, Flow, MoreFlow DEF Owning, Working
  <2>2. SameTask(p)
    <3>1. CASE PromptEnds(p) \/ MarkFailed(p) \/ Save(p) \/ SaveFails(p) \/ Read(p) \/ Fail(p)
      BY <3>1, MovesTo DEF PromptEnds, MarkFailed, Save, SaveFails, Read, Fail
    <3>2. CASE WriteEvents(p)
      BY <3>2, LogMoves
    <3>3. ASSUME NEW at, NEW b, proc' = [proc EXCEPT ![p].at = at, ![p].agent = b]
          PROVE  SameTask(p)
      BY <3>3, AgentMoves
    <3>4. Abandon(p) => SameTask(p)
      BY MovesTo
    <3>5. CASE Done(p)
      BY <3>3, <3>4, <3>5 DEF Done
    <3>6. CASE Start(p)
      BY <3>3, <3>4, <3>6 DEF Start
    <3> QED BY <1>5, <3>1, <3>2, <3>5, <3>6
  <2> QED BY <2>1, <2>2 DEF SameTask
<1>6. CASE NextPrompt(p)
  <2>1. proc[p].at \in Owning
    BY <1>6, Flow DEF Owning, Working
  <2>2. QueueType
    BY DEF TypeOK, QueueType
  <2>3. CASE Goto(p, "done")
    BY <2>1, <2>3, MovesTo DEF SameTask
  <2>4. ASSUME NEW i \in DOMAIN queue,
               proc' = [proc EXCEPT ![p].at = "recheck", ![p].prompt = i]
        PROVE  /\ proc'[p].at = "recheck" /\ proc'[p].prompt \in DOMAIN queue \ {0}
               /\ proc'[p].kind = proc[p].kind
    BY <2>2, <2>4, PickMoves, QueueDomain
  <2> QED BY <1>6, <2>1, <2>3, <2>4 DEF NextPrompt
<1> QED BY <1>1, <1>2, <1>3, <1>4, <1>5, <1>6 DEF Acts, Step

(* Queues only grow.                                                       *)
LEMMA QueueGrows ==
  ASSUME Inv, [Next]_vars
  PROVE  DOMAIN queue \subseteq DOMAIN queue'
<1>1. QueueType
  BY DEF Inv, TypeOK, QueueType
<1>2. Enqueue => DOMAIN queue \subseteq DOMAIN queue'
  BY <1>1, AppendQueue DEF Enqueue, PromptStatus
<1>3. UNCHANGED vars => UNCHANGED queue
  BY DEF vars, files
<1>4. \A p \in Processes : Acts(p) => DOMAIN queue' = DOMAIN queue
  BY ItemStep
<1> QED BY <1>2, <1>3, <1>4 DEF Next, Acts

(* Without a step of a process, nothing but the queue changes.             *)
LEMMA Idlers ==
  ASSUME TypeOK, Enqueue \/ UNCHANGED vars
  PROVE  UNCHANGED <<proc, log, sidecar, pending>>
  BY DEF Enqueue, vars, files

(* PromptsExist is inductive.                                              *)
LEMMA PromptsStep == ASSUME Inv, [Next]_vars PROVE PromptsExist'
<1>0. TypeOK /\ PromptsExist
  BY DEF Inv
<1>1. DOMAIN queue \subseteq DOMAIN queue'
  BY QueueGrows
<1> DEFINE Fits(q) ==
      /\ proc[q].at \in {"acquire", "start"} => proc[q].prompt = 0
      /\ proc[q].at \in {"recheck", "claim", "admit", "launch"} => proc[q].prompt # 0
      /\ proc[q].at \in {"recheck"} \cup Working =>
           proc[q].prompt \in DOMAIN queue \cup {0}
<1>2. ASSUME NEW q \in Processes, proc'[q] = proc[q] PROVE Fits(q)'
  BY <1>0, <1>1, <1>2 DEF PromptsExist
<1>3. ASSUME NEW p \in Processes, Acts(p) PROVE Fits(p)'
  <2>1. CASE proc'[p].at = "acquire"
    BY <1>0, <1>3, <2>1, Sources, BeginMoves DEF Working
  <2>2. CASE proc'[p].at # "acquire" /\ proc'[p].at \in Owning
    <3>1. \/ SameTask(p)
          \/ proc'[p].at = "recheck" /\ proc'[p].prompt \in DOMAIN queue \ {0}
      BY <1>0, <1>3, <2>2, Tasks
    <3>2. CASE proc'[p].at = "recheck" /\ proc'[p].prompt \in DOMAIN queue \ {0}
      BY <1>1, <3>2
    <3>3. CASE SameTask(p) /\ proc'[p].at # "recheck"
      <4>1. proc'[p].at = "start" => proc[p].at = "acquire"
        BY <1>0, <1>3, Sources, MoreFlow
      <4>2. /\ proc'[p].at = "claim" => proc[p].at = "recheck"
            /\ proc'[p].at = "admit" => proc[p].at = "claim"
            /\ proc'[p].at = "launch" => proc[p].at = "admit"
            /\ proc'[p].at = "prompt" => proc[p].at \in {"claim", "launch", "start"}
            /\ proc'[p].at \in {"sent", "failed", "answered"} =>
                 proc[p].at \in {"prompt", "sent"}
            /\ proc'[p].at = "save" => proc[p].at = "answered"
        BY <1>0, <1>3, Sources, Flow
      <4>3. proc'[p].prompt = proc[p].prompt
        BY <3>3 DEF SameTask
      <4> QED BY <1>0, <1>1, <2>2, <3>3, <4>1, <4>2, <4>3 DEF PromptsExist, Working
    <3>4. CASE SameTask(p) /\ proc'[p].at = "recheck"
      <4>1. NextPrompt(p)
        BY <1>0, <1>3, <3>4, Sources
      <4>2. QueueType
        BY <1>0 DEF TypeOK, QueueType
      <4>3. ~Goto(p, "done")
        BY <1>0, <3>4, MovesTo
      <4>4. PICK i \in DOMAIN queue :
              proc' = [proc EXCEPT ![p].at = "recheck", ![p].prompt = i]
        BY <4>1, <4>3 DEF NextPrompt
      <4>5. proc'[p].prompt \in DOMAIN queue \ {0}
        BY <1>0, <4>2, <4>4, PickMoves, QueueDomain
      <4> QED BY <1>1, <3>4, <4>5
    <3> QED BY <3>1, <3>2, <3>3, <3>4
  <2>3. CASE proc'[p].at # "acquire" /\ proc'[p].at \notin Owning
    BY <2>3 DEF Owning, Working
  <2> QED BY <2>1, <2>2, <2>3
<1>4. ASSUME NEW p \in Processes, Acts(p) PROVE PromptsExist'
  <2>1. \A q \in Processes : Fits(q)'
    BY <1>0, <1>2, <1>3, <1>4, OthersStay
  <2> QED BY <2>1 DEF PromptsExist
<1>5. CASE Enqueue \/ UNCHANGED vars
  <2>1. \A q \in Processes : Fits(q)'
    BY <1>0, <1>2, <1>5, Idlers
  <2> QED BY <2>1 DEF PromptsExist
<1> QED BY <1>4, <1>5 DEF Next, Acts

(* WorkIsMarked is inductive: the owner's own steps keep the mark, and     *)
(* what others do to a running prompt latches the session.                 *)
LEMMA WorkStep == ASSUME Inv, [Next]_vars PROVE WorkIsMarked'
<1>0. TypeOK /\ QueueType /\ Locks /\ Locks' /\ PromptsExist /\ WorkIsMarked
  BY LocksStep DEF Inv, TypeOK, QueueType
<1>1. Latched => Latched'
  BY <1>0, LatchStep
<1> DEFINE Marked(i) == queue[i] = "running" \/ (queue[i] = "canceled" /\ Latched)
           Works(q) == proc[q].at \in Working \ {"claim"} /\ proc[q].prompt # 0
           Fits(q) == Works(q) => lease = q /\ Marked(proc[q].prompt)
<1>2. \A q \in Processes : Fits(q)
  BY <1>0 DEF WorkIsMarked
<1>3. ASSUME NEW q \in Processes, Works(q)' PROVE lease' = q
  BY <1>0, <1>3 DEF Locks, LeaseHolder, Owning
<1>4. ASSUME NEW p \in Processes, Acts(p), NEW q \in Processes \ {p} PROVE Fits(q)'
  <2>1. proc'[q] = proc[q]
    BY <1>0, <1>4, OthersStay
  <2> DEFINE i == proc[q].prompt
  <2>2. CASE Works(q)
    <3>1. Marked(i) /\ lease = q /\ i \in DOMAIN queue
      BY <1>0, <1>2, <2>2 DEF PromptsExist
    <3>2. proc[p].at \notin Owning
      BY <3>1, <1>0, <1>4 DEF Locks, LeaseHolder
    <3>3. ItemMoves(p, i)
      BY <3>1, <1>4, ItemStep
    <3>4. Marked(i)'
      BY <1>1, <2>1, <3>1, <3>2, <3>3 DEF ItemMoves, Owning, Working
    <3>5. lease' = q
      BY <1>3, <2>1, <2>2
    <3> QED BY <2>1, <3>4, <3>5
  <2>3. CASE ~Works(q)
    BY <2>1, <2>3
  <2> QED BY <2>2, <2>3
<1>5. ASSUME NEW p \in Processes, Acts(p), Works(p)' PROVE Fits(p)'
  <2>1. SameTask(p)
    BY <1>0, <1>5, Tasks DEF Owning, Working
  <2>2. lease' = p
    BY <1>3, <1>5
  <2> DEFINE i == proc[p].prompt
  <2>3. proc'[p].prompt = i /\ i # 0
    BY <1>5, <2>1 DEF SameTask
  <2>4. CASE Claim(p)
    <3>1. proc[p].at = "claim" /\ proc'[p].at # "leave"
      BY <1>0, <1>5, <2>4, Flow DEF Working
    <3>2. queue' = [queue EXCEPT ![i] = "running"]
      BY <1>0, <2>4, <3>1, MovesTo DEF Claim
    <3>3. i \in DOMAIN queue /\ "running" \in PromptStatus
      BY <1>0, <2>3, <3>1 DEF PromptsExist, Working, PromptStatus
    <3>4. queue'[i] = "running"
      BY <1>0, <3>2, <3>3, ExceptQueue
    <3> QED BY <2>2, <2>3, <3>4
  <2>5. CASE Admit(p) \/ Launch(p) \/ Prompt(p) \/ PromptEnds(p) \/ WriteEvents(p)
    <3>1. proc[p].at \in Working \ {"claim"}
      BY <1>0, <2>5, Flow DEF Working
    <3>2. UNCHANGED <<queue, status>>
      BY <2>5 DEF Admit, Launch, Prompt, PromptEnds, WriteEvents, files
    <3>3. Marked(i)
      BY <1>2, <2>3, <3>1
    <3>4. Marked(i)'
      BY <2>3, <3>2, <3>3 DEF Latched
    <3> QED BY <2>2, <2>3, <3>4
  <2>6. ~Start(p)
    BY <1>0, <2>3, Flow DEF PromptsExist
  <2>7. \/ Claim(p) \/ Start(p)
        \/ Admit(p) \/ Launch(p) \/ Prompt(p) \/ PromptEnds(p) \/ WriteEvents(p)
    BY <1>0, <1>5, Sources DEF Working
  <2> QED BY <2>4, <2>5, <2>6, <2>7
<1>6. ASSUME NEW p \in Processes, Acts(p) PROVE WorkIsMarked'
  <2>1. \A q \in Processes : Fits(q)'
    BY <1>4, <1>5, <1>6
  <2> QED BY <2>1 DEF WorkIsMarked
<1>7. CASE UNCHANGED vars
  BY <1>0, <1>7 DEF WorkIsMarked, vars, files, locks, Latched
<1>8. CASE Enqueue
  <2>1. \A i \in DOMAIN queue : queue'[i] = queue[i]
    BY <1>0, <1>8, AppendQueue DEF Enqueue, PromptStatus
  <2>2. UNCHANGED proc /\ UNCHANGED lease
    BY <1>8 DEF Enqueue, locks
  <2>3. \A q \in Processes : Works(q) => proc[q].prompt \in DOMAIN queue
    BY <1>0 DEF PromptsExist
  <2>4. \A q \in Processes : Fits(q)'
    BY <1>1, <1>2, <2>1, <2>2, <2>3
  <2> QED BY <2>4 DEF WorkIsMarked
<1> QED BY <1>6, <1>7, <1>8 DEF Next, Acts

(* InOrder is inductive: while a process holds the lease, nobody else puts *)
(* a prompt back, and new prompts come last.                               *)
LEMMA OrderStep == ASSUME Inv, [Next]_vars PROVE InOrder'
<1>0. TypeOK /\ QueueType /\ Locks /\ PromptsExist /\ InOrder
  BY DEF Inv, TypeOK, QueueType
<1> DEFINE Picked(q) == proc[q].at \in {"recheck", "claim"}
           Fits(q) == Picked(q) =>
             \A j \in 1..(proc[q].prompt - 1) : queue[j] # "pending"
<1>1. ASSUME NEW q \in Processes, Picked(q), NEW j \in 1..(proc[q].prompt - 1)
      PROVE  j \in DOMAIN queue /\ queue[j] # "pending"
  <2>1. proc[q].prompt \in DOMAIN queue
    BY <1>0, <1>1 DEF PromptsExist, Working
  <2>2. DOMAIN queue = 1..Len(queue) /\ Len(queue) \in Nat
    BY <1>0, LenProperties DEF QueueType
  <2>3. proc[q].prompt \in Nat /\ j \in Nat /\ 1 <= j /\ j < proc[q].prompt
    BY <1>1, <2>1, <2>2
  <2>4. j \in DOMAIN queue
    BY <2>1, <2>2, <2>3
  <2> QED BY <1>0, <1>1, <2>4 DEF InOrder
<1>2. ASSUME NEW p \in Processes, Acts(p), NEW q \in Processes \ {p} PROVE Fits(q)'
  <2>1. proc'[q] = proc[q]
    BY <1>0, <1>2, OthersStay
  <2>2. ASSUME Picked(q), NEW j \in 1..(proc[q].prompt - 1) PROVE queue'[j] # "pending"
    <3>1. proc[p].at \notin Owning
      BY <1>0, <1>2, <2>2 DEF Locks, LeaseHolder, Owning, Working
    <3>2. ItemMoves(p, j)
      BY <1>1, <1>2, <2>2, ItemStep
    <3> QED BY <1>1, <2>2, <3>1, <3>2 DEF ItemMoves, Owning
  <2> QED BY <2>1, <2>2
<1>3. ASSUME NEW p \in Processes, Acts(p) PROVE Fits(p)'
  <2>1. CASE proc'[p].at = "recheck"
    <3>1. NextPrompt(p) /\ UNCHANGED queue
      BY <1>0, <1>3, <2>1, Sources DEF NextPrompt, files
    <3>2. ~Goto(p, "done")
      BY <1>0, <2>1, MovesTo
    <3>3. PICK i \in DOMAIN queue :
            /\ \A j \in 1..(i - 1) : queue[j] # "pending"
            /\ proc' = [proc EXCEPT ![p].at = "recheck", ![p].prompt = i]
      BY <3>1, <3>2 DEF NextPrompt
    <3>4. proc'[p].prompt = i
      BY <1>0, <3>3, PickMoves
    <3> QED BY <3>1, <3>3, <3>4
  <2>2. CASE proc'[p].at = "claim"
    <3>1. Check(p) /\ proc[p].at = "recheck" /\ UNCHANGED queue
      BY <1>0, <1>3, <2>2, Sources DEF Check, files
    <3>2. proc'[p].prompt = proc[p].prompt
      BY <1>0, <3>1, MovesTo DEF Check, SameTask
    <3> QED BY <1>1, <3>1, <3>2
  <2> QED BY <2>1, <2>2
<1>4. ASSUME NEW p \in Processes, Acts(p) PROVE InOrder'
  <2>1. \A q \in Processes : Fits(q)'
    BY <1>2, <1>3, <1>4
  <2> QED BY <2>1 DEF InOrder
<1>5. CASE Enqueue
  <2>1. \A i \in DOMAIN queue : queue'[i] = queue[i]
    BY <1>0, <1>5, AppendQueue DEF Enqueue, PromptStatus
  <2>2. UNCHANGED proc
    BY <1>5 DEF Enqueue
  <2>3. \A q \in Processes : Fits(q)'
    BY <1>1, <2>1, <2>2
  <2> QED BY <2>3 DEF InOrder
<1>6. CASE UNCHANGED vars
  BY <1>0, <1>6 DEF InOrder, vars, files
<1> QED BY <1>4, <1>5, <1>6 DEF Next, Acts

-----------------------------------------------------------------------------
(***************************************************************************)
(* Cancellation.                                                           *)
(***************************************************************************)

(* ActorsSawLatch is inductive.                                            *)
LEMMA ActorsStep == ASSUME Inv, [Next]_vars PROVE ActorsSawLatch'
<1>0. TypeOK /\ ActorsSawLatch
  BY DEF Inv
<1>1. Latched => Latched'
  BY <1>0, LatchStep
<1> DEFINE Fits(q) ==
      proc[q].at \in {"stale", "stale_recover", "cancel_sidecar"} => Latched
<1>2. ASSUME NEW q \in Processes, proc'[q] = proc[q] PROVE Fits(q)'
  BY <1>0, <1>1, <1>2 DEF ActorsSawLatch
<1>3. ASSUME NEW p \in Processes, Acts(p) PROVE Fits(p)'
  <2>1. proc'[p].at = "stale" => Latched
    BY <1>0, <1>3, Sources DEF BeginStale
  <2>2. proc'[p].at = "stale_recover" => Latched
    BY <1>0, <1>3, Sources, Flow DEF ActorsSawLatch
  <2>3. proc'[p].at = "cancel_sidecar" => Latched'
    BY <1>0, <1>3, Sources DEF CancelLatch, Latched
  <2> QED BY <1>1, <2>1, <2>2, <2>3
<1>4. ASSUME NEW p \in Processes, Acts(p) PROVE ActorsSawLatch'
  <2>1. \A q \in Processes : Fits(q)'
    BY <1>0, <1>2, <1>3, <1>4, OthersStay
  <2> QED BY <2>1 DEF ActorsSawLatch
<1>5. CASE Enqueue \/ UNCHANGED vars
  <2>1. \A q \in Processes : Fits(q)'
    BY <1>0, <1>2, <1>5, Idlers
  <2> QED BY <2>1 DEF ActorsSawLatch
<1> QED BY <1>4, <1>5 DEF Next, Acts

(* What can latch a session: the cancellation of its owner, under the      *)
(* admission lock, or that of a queue in which nothing runs.               *)
LEMMA Latching ==
  ASSUME Inv, pending' # "canceled", ~Latched, Latched', NEW p \in Processes, Acts(p)
  PROVE  \/ CancelLatch(p)
         \/ \A i \in DOMAIN queue : queue[i] # "running"
<1>0. TypeOK /\ QueueType
  BY DEF Inv, TypeOK, QueueType
<1>1. status' # status
  BY DEF Latched
<1>2. Step(p)
  BY <1>1
  DEF Acts, Call, Begin, BeginCancel, BeginStale, Fail, CancelFails, Crash, files
<1>3. ~(Finalize(p) \/ Recover(p) \/ StaleRecover(p))
  <2>1. RecoverItems => status' \in {status, "queued"}
    BY <1>0, Recovery
  <2> QED BY <2>1, <1>1 DEF Finalize, Recover, StaleRecover, Latched
<1>4. CASE CancelPending(p) \/ CancelQueue(p)
  <2>1. CancelItems
    BY <1>4 DEF CancelPending, CancelQueue
  <2> QED BY <1>0, <1>1, <2>1, Cancellation
<1>5. ~(MarkFailed(p) \/ Save(p) \/ Claim(p) \/ Start(p))
  BY <1>1 DEF MarkFailed, Save, Claim, Start, Settle, Preserved, Latched
<1>6. ~CancelPrompt(p)
  BY <1>1 DEF CancelPrompt
<1>7. \/ UNCHANGED status \/ Finalize(p) \/ Recover(p) \/ StaleRecover(p)
      \/ CancelPending(p) \/ CancelQueue(p) \/ MarkFailed(p) \/ Save(p) \/ CancelLatch(p)
      \/ CancelPrompt(p) \/ Claim(p) \/ Start(p)
  BY <1>2
  DEF Step, Acquire, Release, WatchCycle, WatchWork, Check, NextPrompt, Admit, Launch,
      Prompt, PromptEnds, WriteEvents, SaveFails, Done, Read, CancelSidecar,
      CancelUnowned, StaleOwner, files
<1> QED BY <1>1, <1>3, <1>4, <1>5, <1>6, <1>7

(* Nothing but its cancellation changes a prompt of the earlier format.    *)
LEMMA PendingStep == ASSUME [Next]_vars PROVE pending' \in {pending, "canceled"}
<1>1. ASSUME NEW p \in Processes, Call(p) \/ Fail(p) \/ CancelFails(p) \/ Crash(p)
      PROVE  UNCHANGED pending
  BY <1>1 DEF Call, Begin, BeginCancel, BeginStale, Fail, CancelFails, Crash, files
<1>2. ASSUME NEW p \in Processes, Step(p) PROVE UNCHANGED pending \/ CancelPrompt(p)
  BY <1>2
  DEF Step, Acquire, Release, WatchCycle, WatchWork, Finalize, Recover, Check,
      CancelPending, NextPrompt, Claim, Admit, Launch, Prompt, PromptEnds, MarkFailed,
      WriteEvents, Save, SaveFails, Done, Start, Read, CancelLatch, CancelSidecar,
      CancelUnowned, CancelQueue, StaleOwner, StaleRecover, files
<1>3. \A p \in Processes : CancelPrompt(p) => pending' \in {pending, "canceled"}
  BY DEF CancelPrompt
<1> QED BY <1>1, <1>2, <1>3 DEF Next, Enqueue, vars, files

(* AdmittedIsLive is inductive: the owner between admission and launch has *)
(* the admission lock, and a running prompt.                               *)
LEMMA AdmittedStep == ASSUME Inv, [Next]_vars PROVE AdmittedIsLive'
<1>0. TypeOK /\ Locks /\ PromptsExist /\ WorkIsMarked /\ AdmittedIsLive
  BY DEF Inv
<1> SUFFICES ASSUME pending' # "canceled"
             PROVE  \A q \in Processes : proc'[q].at = "launch" => ~Latched'
  BY DEF AdmittedIsLive
<1>5. pending # "canceled"
  BY PendingStep
<1>1. ASSUME NEW p \in Processes, Acts(p), proc'[p].at = "launch" PROVE ~Latched'
  <2>1. Admit(p) /\ proc'[p].at # "recover_cancel"
    BY <1>0, <1>1, Sources
  <2>2. ~Latched /\ UNCHANGED status
    BY <1>0, <2>1, MovesTo DEF Admit, files
  <2> QED BY <2>2 DEF Latched
<1>2. ASSUME NEW p \in Processes, Acts(p), NEW q \in Processes \ {p}, proc[q].at = "launch"
      PROVE  ~Latched'
  <2>1. ~Latched /\ admission = q /\ q # None
    BY <1>0, <1>2, <1>5, ProcessesAssumption DEF AdmittedIsLive, Locks, AdmissionHolder
  <2>2. proc[q].prompt \in DOMAIN queue /\ queue[proc[q].prompt] = "running"
    BY <1>0, <1>2, <2>1 DEF PromptsExist, WorkIsMarked, Working
  <2>3. ~CancelLatch(p)
    BY <2>1 DEF CancelLatch
  <2> QED BY <1>2, <2>1, <2>2, <2>3, Latching
<1>3. ASSUME NEW p \in Processes, Acts(p), NEW q \in Processes, proc'[q].at = "launch"
      PROVE  ~Latched'
  BY <1>0, <1>1, <1>2, <1>3, OthersStay
<1>4. ASSUME Enqueue \/ UNCHANGED vars, NEW q \in Processes, proc'[q].at = "launch"
      PROVE  ~Latched'
  <2>1. proc[q].at = "launch" /\ ~Latched
    BY <1>0, <1>4, <1>5, Idlers DEF AdmittedIsLive
  <2>2. status' \in {status, "queued"}
    BY <1>4 DEF Enqueue, vars, files
  <2> QED BY <2>1, <2>2 DEF Latched
<1> QED BY <1>3, <1>4 DEF Next, Acts

(* SidecarLatched is inductive.                                            *)
LEMMA SidecarStep == ASSUME Inv, [Next]_vars PROVE SidecarLatched'
<1>0. TypeOK /\ ActorsSawLatch /\ SidecarLatched
  BY DEF Inv
<1>1. Latched => Latched'
  BY <1>0, LatchStep
<1> DEFINE Owns(q) == /\ proc[q].at \in {"acquire"} \cup Owning
                      /\ proc[q].kind \in {"drain", "watch"}
<1>2. ASSUME NEW p \in Processes, Acts(p), NEW kind \in Kinds, Begin(p, kind)
      PROVE  \/ sidecar' => Latched'
             \/ kind \notin {"drain", "watch"} /\ UNCHANGED sidecar
  BY <1>2 DEF Begin, Latched
<1>3. ASSUME NEW p \in Processes, Acts(p), \A kind \in Kinds : ~Begin(p, kind)
      PROVE  UNCHANGED sidecar \/ Latched'
  <2>1. CASE CancelSidecar(p)
    BY <1>0, <1>1, <2>1, Flow DEF ActorsSawLatch
  <2>2. UNCHANGED sidecar \/ CancelSidecar(p)
    BY <1>3
    DEF Acts, Call, BeginCancel, BeginStale, Fail, CancelFails, Crash, Step, Acquire,
        Release, WatchCycle, WatchWork, Finalize, Recover, Check, CancelPending, NextPrompt,
        Claim, Admit, Launch, Prompt, PromptEnds, MarkFailed, WriteEvents, Save, SaveFails,
        Done, Start, Read, CancelLatch, CancelUnowned, CancelQueue, CancelPrompt,
        StaleOwner, StaleRecover, files
  <2> QED BY <2>1, <2>2
<1>4. ASSUME NEW p \in Processes, Acts(p), NEW q \in Processes, Owns(q)', sidecar'
      PROVE  Latched'
  <2>1. UNCHANGED sidecar \/ Latched'
    BY <1>2, <1>3, <1>4
  <2>2. CASE q # p
    BY <1>0, <1>1, <1>4, <2>1, <2>2, OthersStay DEF SidecarLatched
  <2>3. CASE q = p /\ proc'[p].at = "acquire"
    <3>1. PICK kind \in Kinds : Begin(p, kind)
      BY <1>0, <1>4, <2>3, Sources
    <3>2. kind \in {"drain", "watch"}
      BY <1>0, <1>4, <2>3, <3>1, BeginMoves
    <3> QED BY <1>2, <1>4, <3>1, <3>2
  <2>4. CASE q = p /\ proc'[p].at # "acquire"
    <3>1. Owns(p)
      BY <1>0, <1>4, <2>4, Tasks
    <3> QED BY <1>0, <1>1, <1>4, <2>1, <3>1 DEF SidecarLatched
  <2> QED BY <2>2, <2>3, <2>4
<1>5. ASSUME Enqueue \/ UNCHANGED vars, NEW q \in Processes, Owns(q)', sidecar'
      PROVE  Latched'
  BY <1>0, <1>1, <1>5, Idlers DEF SidecarLatched
<1> QED BY <1>4, <1>5 DEF Next, Acts, SidecarLatched

-----------------------------------------------------------------------------
(***************************************************************************)
(* The event log.                                                          *)
(***************************************************************************)

(* The log only loses the events of a prompt that is not saved.            *)
LEMMA LogStep ==
  ASSUME TypeOK, NEW p \in Processes, Acts(p)
  PROVE  \/ log \subseteq log'
         \/ /\ SaveFails(p)
            /\ log \ {proc[p].prompt} \subseteq log'
            /\ UNCHANGED queue
<1>1. CASE SaveFails(p)
  BY <1>1 DEF SaveFails
<1>2. UNCHANGED log \/ WriteEvents(p) \/ SaveFails(p)
  BY DEF Acts, Call, Begin, BeginCancel, BeginStale, Fail, CancelFails, Crash, Step,
     Acquire, Release, WatchCycle, WatchWork, Finalize, Recover, Check, CancelPending,
     NextPrompt, Claim, Admit, Launch, Prompt, PromptEnds, MarkFailed, Save, Done, Start,
     Read, CancelLatch, CancelSidecar, CancelUnowned, CancelQueue, CancelPrompt,
     StaleOwner, StaleRecover, files
<1>3. WriteEvents(p) => log \subseteq log'
  BY DEF WriteEvents
<1> QED BY <1>1, <1>2, <1>3

(* LoggedFirst is inductive: whoever saves has the lock of the store.      *)
LEMMA LoggedStep == ASSUME Inv, [Next]_vars PROVE LoggedFirst'
<1>0. TypeOK /\ Locks /\ LoggedFirst
  BY DEF Inv
<1> DEFINE Fits(q) == proc[q].at = "save" /\ proc[q].prompt # 0 => proc[q].prompt \in log
<1>1. ASSUME NEW p \in Processes, Acts(p) PROVE Fits(p)'
  <2> SUFFICES ASSUME proc'[p].at = "save", proc'[p].prompt # 0
               PROVE  proc'[p].prompt \in log'
    OBVIOUS
  <2>1. WriteEvents(p)
    BY <1>0, <1>1, Sources
  <2>2. proc'[p].prompt = proc[p].prompt
    BY <1>0, <2>1, LogMoves DEF SameTask
  <2> QED BY <2>1, <2>2 DEF WriteEvents
<1>2. ASSUME NEW p \in Processes, Acts(p), NEW q \in Processes \ {p} PROVE Fits(q)'
  <2>1. proc'[q] = proc[q]
    BY <1>0, <1>2, OthersStay
  <2>2. proc[q].at = "save" => ~SaveFails(p)
    BY <1>0, <1>2, Flow DEF Locks, StoreHolder
  <2>3. proc[q].at = "save" => log \subseteq log'
    BY <1>0, <1>2, <2>2, LogStep
  <2> QED BY <1>0, <2>1, <2>3 DEF LoggedFirst
<1>3. ASSUME NEW p \in Processes, Acts(p) PROVE LoggedFirst'
  <2>1. \A q \in Processes : Fits(q)'
    BY <1>1, <1>2, <1>3
  <2> QED BY <2>1 DEF LoggedFirst
<1>4. CASE Enqueue \/ UNCHANGED vars
  BY <1>0, <1>4, Idlers DEF LoggedFirst
<1> QED BY <1>3, <1>4 DEF Next, Acts

(* TurnsHaveEvents is inductive: who completes a prompt has logged it, and *)
(* who takes events out of the log works on a prompt that is not complete. *)
LEMMA TurnsStep == ASSUME Inv, [Next]_vars PROVE TurnsHaveEvents'
<1>0. /\ TypeOK /\ QueueType /\ PromptsExist /\ WorkIsMarked /\ LoggedFirst
      /\ TurnsHaveEvents
  BY DEF Inv, TypeOK, QueueType
<1>1. ASSUME NEW p \in Processes, Acts(p), NEW i \in DOMAIN queue', queue'[i] = "completed"
      PROVE  i \in log'
  <2>1. i \in DOMAIN queue /\ ItemMoves(p, i)
    BY <1>1, ItemStep
  <2>2. i # 0
    BY <1>0, <2>1, QueueDomain
  <2>3. CASE queue[i] = "completed"
    <3>1. i \in log
      BY <1>0, <2>1, <2>3 DEF TurnsHaveEvents
    <3>2. CASE SaveFails(p)
      <4>1. proc[p].at = "save"
        BY <1>0, <3>2, Flow
      <4>2. proc[p].prompt # i
        BY <1>0, <2>2, <2>3, <4>1 DEF WorkIsMarked, Working
      <4> QED BY <1>0, <1>1, <3>1, <4>2, LogStep
    <3>3. CASE ~SaveFails(p)
      BY <1>0, <1>1, <3>1, <3>3, LogStep
    <3> QED BY <3>2, <3>3
  <2>4. CASE queue[i] # "completed"
    <3>1. proc[p].prompt = i /\ proc[p].at = "save" /\ queue' # queue
      BY <1>1, <2>1, <2>4 DEF ItemMoves
    <3>2. i \in log
      BY <1>0, <2>2, <3>1 DEF LoggedFirst
    <3> QED BY <1>0, <1>1, <3>1, <3>2, LogStep
  <2> QED BY <2>3, <2>4
<1>2. CASE UNCHANGED vars
  BY <1>0, <1>2 DEF TurnsHaveEvents, vars, files
<1>3. CASE Enqueue
  <2>1. /\ \A j \in DOMAIN queue : queue'[j] = queue[j]
        /\ \A j \in DOMAIN queue' \ DOMAIN queue : queue'[j] = "pending"
    BY <1>0, <1>3, AppendQueue DEF Enqueue, PromptStatus
  <2> QED BY <1>0, <1>3, <2>1, Idlers DEF TurnsHaveEvents
<1> QED BY <1>1, <1>2, <1>3 DEF Next, Acts, TurnsHaveEvents

-----------------------------------------------------------------------------
(***************************************************************************)
(* Agents.                                                                 *)
(***************************************************************************)

(* An agent starts where an owner was admitted, or with an exec.           *)
LEMMA AgentStep ==
  ASSUME TypeOK, NEW p \in Processes, Acts(p), proc'[p].agent, ~proc[p].agent
  PROVE  Launch(p) \/ (Start(p) /\ ~Latched)
<1>1. ~(Call(p) \/ Fail(p) \/ CancelFails(p) \/ Crash(p))
  <2>1. BeginCancel(p) \/ BeginStale(p) => proc'[p].agent = proc[p].agent
    BY MovesTo DEF BeginCancel, BeginStale
  <2>2. Fail(p) => proc'[p].agent = proc[p].agent \/ ~proc'[p].agent
    BY MovesTo DEF Fail
  <2>3. CancelFails(p) \/ Crash(p) => ~proc'[p].agent
    BY MovesTo DEF CancelFails, Crash, Idle
  <2> QED BY <2>1, <2>2, <2>3, BeginMoves DEF Call
<1>2. ~(\/ Acquire(p) \/ Release(p) \/ WatchCycle(p) \/ WatchWork(p) \/ Finalize(p)
        \/ Recover(p) \/ Check(p) \/ CancelPending(p) \/ NextPrompt(p) \/ Claim(p)
        \/ Admit(p))
  BY MovesTo, PickMoves
  DEF Acquire, Release, WatchCycle, WatchWork, Finalize, Recover, Check, CancelPending,
      NextPrompt, Claim, Admit, Idle
<1>3. ~(\/ Prompt(p) \/ PromptEnds(p) \/ MarkFailed(p) \/ WriteEvents(p) \/ Save(p)
        \/ SaveFails(p) \/ Done(p) \/ Read(p))
  <2>1. Prompt(p) \/ PromptEnds(p) \/ Read(p) => proc'[p].agent = proc[p].agent
    BY MovesTo DEF Prompt, PromptEnds, Read
  <2>2. WriteEvents(p) => proc'[p].agent = proc[p].agent
    BY LogMoves
  <2>3. MarkFailed(p) \/ SaveFails(p) => ~proc'[p].agent
    BY MovesTo DEF MarkFailed, SaveFails
  <2>4. Save(p) => ~proc'[p].agent \/ proc'[p].agent = proc[p].agent
    BY MovesTo DEF Save
  <2>5. Done(p) => ~proc'[p].agent
    BY MovesTo, AgentMoves DEF Done
  <2> QED BY <2>1, <2>2, <2>3, <2>4, <2>5
<1>4. ~(\/ CancelLatch(p) \/ CancelSidecar(p) \/ CancelUnowned(p) \/ CancelQueue(p)
        \/ CancelPrompt(p) \/ StaleOwner(p) \/ StaleRecover(p))
  <2>1. CancelLatch(p) => proc'[p].agent = proc[p].agent
    BY MovesTo DEF CancelLatch
  <2>2. CancelSidecar(p) \/ CancelQueue(p) \/ CancelPrompt(p) \/ StaleRecover(p) =>
          ~proc'[p].agent
    <3>1. Return(p) => ~proc'[p].agent
      BY MovesTo DEF Idle
    <3> QED BY <3>1 DEF CancelSidecar, CancelQueue, CancelPrompt, StaleRecover
  <2>3. CancelUnowned(p) \/ StaleOwner(p) =>
          ~proc'[p].agent \/ proc'[p].agent = proc[p].agent
    BY MovesTo DEF CancelUnowned, StaleOwner, Idle
  <2> QED BY <2>1, <2>2, <2>3
<1>5. Start(p) => ~Latched
  BY MovesTo DEF Start
<1> QED BY <1>1, <1>2, <1>3, <1>4, <1>5 DEF Acts, Step

-----------------------------------------------------------------------------
(***************************************************************************)
(* The theorems.                                                           *)
(***************************************************************************)

(* A session starts without owners and without prompts that run.           *)
LEMMA InitInv == Init => Inv
<1> SUFFICES ASSUME Init PROVE Inv
  OBVIOUS
<1>1. \A p \in Processes : proc[p].at = "idle" /\ p # None
  BY ProcessesAssumption DEF Init, Idle
<1>2. <<"pending">> \in Seq(PromptStatus) /\ Len(<<"pending">>) = 1
  BY DEF PromptStatus
<1>3. <<>> \in Seq(PromptStatus) /\ Len(<<>>) = 0
  OBVIOUS
<1>4. queue \in Seq(PromptStatus) /\ Len(queue) <= MaxPrompts
  <2>1. queue = <<>> \/ queue = <<"pending">>
    BY DEF Init
  <2>2. MaxPrompts >= 1
    BY PromptsAssumption
  <2>3. CASE queue = <<>>
    BY <1>3, <2>2, <2>3, PromptsAssumption
  <2>4. CASE queue = <<"pending">>
    BY <1>2, <2>2, <2>4, PromptsAssumption
  <2> QED BY <2>1, <2>3, <2>4
<1>5. proc \in [Processes -> Process]
  BY PlacesKnown DEF Init
<1>6. TypeOK
  BY <1>4, <1>5 DEF Init, TypeOK, SessionStatus
<1>7. Locks
  BY <1>1
  DEF Init, Locks, LeaseHolder, ClaimHolder, AdmissionHolder, StoreHolder, Owning, Working
<1>8. PromptsExist /\ WorkIsMarked /\ ActorsSawLatch /\ AdmittedIsLive /\ LoggedFirst
      /\ SidecarLatched /\ InOrder
  BY <1>1
  DEF PromptsExist, WorkIsMarked, ActorsSawLatch, AdmittedIsLive, LoggedFirst,
      SidecarLatched, InOrder, Owning, Working
<1>9. TurnsHaveEvents
  BY DEF Init, TurnsHaveEvents
<1> QED BY <1>6, <1>7, <1>8, <1>9 DEF Inv

(* The invariant holds in every state, for any number of processes and     *)
(* prompts.                                                                *)
THEOREM Invariant == Spec => []Inv
<1>1. Inv /\ [Next]_vars => Inv'
  <2> SUFFICES ASSUME Inv, [Next]_vars PROVE Inv'
    OBVIOUS
  <2>1. TypeOK' /\ Locks'
    BY TypeStep, LocksStep DEF Inv
  <2> QED
    BY <2>1, PromptsStep, WorkStep, ActorsStep, AdmittedStep, LoggedStep,
       TurnsStep, SidecarStep, OrderStep
    DEF Inv
<1> QED BY <1>1, InitInv, PTL DEF Spec

(* Every state is well typed.                                              *)
THEOREM TypeCorrect == Spec => []TypeOK
<1>1. Inv => TypeOK
  BY DEF Inv
<1> QED BY <1>1, Invariant, PTL

(* The prompt an owner works on is marked running, or canceled with the    *)
(* session, whatever other commands do meanwhile.                          *)
THEOREM WorkStaysMarked == Spec => []WorkIsMarked
<1>1. Inv => WorkIsMarked
  BY DEF Inv
<1> QED BY <1>1, Invariant, PTL

(* Completed prompts have their events in the log, although the two files  *)
(* are written one after the other and either write may fail.              *)
THEOREM EventsAreLogged == Spec => []TurnsHaveEvents
<1>1. Inv => TurnsHaveEvents
  BY DEF Inv
<1> QED BY <1>1, Invariant, PTL

(* While a drain or watch owns the session, the cancel-request file        *)
(* announces no cancellation that the session does not have.               *)
THEOREM SidecarIsInLine == Spec => []SidecarFollows
<1>1. Inv => SidecarFollows
  BY DEF Inv, Locks, LeaseHolder, SidecarLatched, SidecarFollows
<1> QED BY <1>1, Invariant, PTL

(* An accepted cancellation is never lost, and its end is final.           *)
THEOREM CancellationIsKept == Spec => LatchIsPermanent
<1>1. TypeOK /\ [Next]_vars =>
        [/\ Latched => Latched'
         /\ status = "canceled" => status' = "canceled"]_vars
  BY LatchStep
<1> QED BY <1>1, TypeCorrect, PTL DEF Spec, LatchIsPermanent

(* No prompt that came to its end runs again, or has its end overwritten   *)
(* but by the cancellation of a prompt of the earlier format.              *)
THEOREM PromptsEndOnce == Spec => PromptLifecycle
<1> DEFINE Kept == \A i \in DOMAIN queue :
                     \/ queue'[i] = queue[i]
                     \/ queue[i] = "pending" /\ queue'[i] \in {"running", "canceled"}
                     \/ queue[i] = "running"
                     \/ i = 1 /\ pending = "pending" /\ pending' = "canceled"
<1>1. ASSUME Inv, NEW p \in Processes, Acts(p) PROVE Kept
  BY <1>1, ItemStep DEF ItemMoves
<1>2. ASSUME Inv, Enqueue PROVE Kept
  <2>1. QueueType
    BY <1>2 DEF Inv, TypeOK, QueueType
  <2>2. \A i \in DOMAIN queue : queue'[i] = queue[i]
    BY <1>2, <2>1, AppendQueue DEF Enqueue, PromptStatus
  <2> QED BY <2>2
<1>3. Inv /\ [Next]_vars => [Kept]_vars
  BY <1>1, <1>2 DEF Next, Acts
<1> QED BY <1>3, Invariant, PTL DEF Spec, PromptLifecycle

(* No agent starts on a canceled session, unless a prompt of the earlier   *)
(* format was canceled there.                                              *)
THEOREM LaunchesAreLive == Spec => NoLaunchAfterCancel
<1> DEFINE Kept == \A p \in Processes : proc'[p].agent /\ ~proc[p].agent =>
                     ~Latched \/ pending = "canceled"
<1>1. ASSUME Inv, NEW p \in Processes, Acts(p) PROVE Kept
  <2>1. TypeOK /\ AdmittedIsLive
    BY <1>1 DEF Inv
  <2>2. proc'[p].agent /\ ~proc[p].agent => ~Latched \/ pending = "canceled"
    BY <1>1, <2>1, AgentStep, Flow DEF AdmittedIsLive
  <2> QED BY <1>1, <2>1, <2>2, OthersStay
<1>2. ASSUME Inv, Enqueue PROVE Kept
  BY <1>2 DEF Enqueue
<1>3. Inv /\ [Next]_vars =>
        [\A p \in Processes : proc'[p].agent /\ ~proc[p].agent =>
           ~Latched \/ pending = "canceled"]_vars
  BY <1>1, <1>2 DEF Next, Acts
<1> HIDE DEF Kept
<1> QED BY <1>3, Invariant, PTL DEF Spec, NoLaunchAfterCancel

(* Both files beside the session agree with it: the log has the events of  *)
(* completed prompts, the request file no cancellation of its own.         *)
THEOREM FilesStayInStep == Spec => []FilesAgree
<1>1. TurnsHaveEvents /\ SidecarFollows => FilesAgree
  BY DEF FilesAgree
<1> QED BY <1>1, EventsAreLogged, SidecarIsInLine, PTL

(* An accepted cancellation is neither undone nor followed by a launch.    *)
THEOREM CancellationIsHeld == Spec => CancellationHolds
BY CancellationIsKept, LaunchesAreLive DEF CancellationHolds

-----------------------------------------------------------------------------
(***************************************************************************)
(* The abstract queue.                                                     *)
(***************************************************************************)
WorksOn(p) == IF proc[p].at \in Working \ {"claim"} THEN proc[p].prompt ELSE 0
Latch == IF Latched THEN status ELSE "open"

(* A step of a process changes nobody's work but its own.                  *)
LEMMA TaskMoves ==
  ASSUME TypeOK, NEW p \in Processes, Acts(p)
  PROVE  Task' = [Task EXCEPT ![p] = WorksOn(p)']
  BY OthersStay DEF Task, WorksOn

(* Only a claim gives a process work; otherwise it keeps or drops it.      *)
LEMMA WorkMoves ==
  ASSUME Inv, NEW p \in Processes, Acts(p)
  PROVE  Claim(p) \/ WorksOn(p)' \in {WorksOn(p), 0}
<1>0. TypeOK /\ PromptsExist
  BY DEF Inv
<1> SUFFICES ASSUME ~Claim(p), proc'[p].at \in Working \ {"claim"}
             PROVE  WorksOn(p)' \in {WorksOn(p), 0}
  BY DEF WorksOn
<1>1. SameTask(p)
  BY <1>0, Tasks DEF Owning, Working
<1>2. CASE Start(p)
  BY <1>0, <1>1, <1>2, Flow DEF PromptsExist, SameTask, WorksOn
<1>3. CASE Admit(p) \/ Launch(p) \/ Prompt(p) \/ PromptEnds(p) \/ WriteEvents(p)
  <2>1. proc[p].at \in Working \ {"claim"}
    BY <1>0, <1>3, Flow DEF Working
  <2> QED BY <1>1, <2>1 DEF SameTask, WorksOn
<1>4. \/ Start(p)
      \/ Admit(p) \/ Launch(p) \/ Prompt(p) \/ PromptEnds(p) \/ WriteEvents(p)
  BY <1>0, Sources DEF Working
<1> QED BY <1>2, <1>3, <1>4

(* Without a change of the session, a step drops work or is invisible.     *)
LEMMA DropsWork ==
  ASSUME Inv, NEW p \in Processes, Acts(p), ~Claim(p),
         UNCHANGED <<queue, pending>>, Latch' = Latch
  PROVE  Queue!Next \/ UNCHANGED Queue!vars
<1>1. Task' = [Task EXCEPT ![p] = WorksOn(p)']
  BY TaskMoves DEF Inv
<1>2. Task[p] = WorksOn(p) /\ Task = [Task EXCEPT ![p] = WorksOn(p)]
  BY DEF Task, WorksOn
<1>3. CASE WorksOn(p)' = 0
  <2>1. Queue!Drop(p)
    BY <1>1, <1>3 DEF Queue!Drop, Latch
  <2> QED BY <2>1 DEF Queue!Next
<1>4. CASE WorksOn(p)' = WorksOn(p)
  <2>1. Task' = Task
    BY <1>1, <1>2, <1>4
  <2> QED BY <2>1 DEF Queue!vars, Latch
<1> QED BY <1>3, <1>4, WorkMoves

(* A process without work that gets none leaves the work of all as it is.  *)
LEMMA RestKeepsWork ==
  ASSUME Inv, NEW p \in Processes, Acts(p), ~Claim(p), WorksOn(p) = 0
  PROVE  Task' = Task
<1>1. Task' = [Task EXCEPT ![p] = WorksOn(p)']
  BY TaskMoves DEF Inv
<1>2. Task = [Task EXCEPT ![p] = WorksOn(p)]
  BY DEF Task, WorksOn
<1> QED BY <1>1, <1>2, WorkMoves

(* While the owner of the session has no work, nobody has.                 *)
LEMMA OwnerAtRest ==
  ASSUME Inv, NEW p \in Processes, proc[p].at \in Owning, WorksOn(p) = 0
  PROVE  Queue!AtRest
<1>1. lease = p
  BY DEF Inv, Locks, LeaseHolder
<1>2. \A q \in Processes : proc[q].at \in Working => q = p
  BY <1>1 DEF Inv, Locks, LeaseHolder, Owning
<1>3. \A q \in Processes : WorksOn(q) = 0
  BY <1>2 DEF WorksOn
<1> QED BY <1>3 DEF Queue!AtRest, Task, WorksOn

(* An enqueued prompt is a submitted one.                                  *)
LEMMA EnqueueSubmits == ASSUME Enqueue PROVE Queue!Next
<1>1. ~Latched /\ ~Latched'
  BY DEF Enqueue, Latched
<1>2. Queue!Submit
  BY <1>1 DEF Enqueue, Queue!Submit, Queue!Open, Task
<1> QED BY <1>2 DEF Queue!Next

(* MarkQueueRunning takes the first prompt that waits, or is invisible.    *)
LEMMA ClaimTakes ==
  ASSUME Inv, NEW p \in Processes, Claim(p)
  PROVE  Queue!Next \/ UNCHANGED Queue!vars
<1> DEFINE i == proc[p].prompt
<1>0. TypeOK /\ QueueType /\ Acts(p) /\ proc[p].at = "claim" /\ WorksOn(p) = 0
  BY Flow DEF Inv, TypeOK, QueueType, Acts, Step, WorksOn
<1>1. Task' = [Task EXCEPT ![p] = WorksOn(p)'] /\ Task = [Task EXCEPT ![p] = 0]
  BY <1>0, TaskMoves DEF Task, WorksOn
<1>2. CASE Abandon(p) /\ UNCHANGED <<status, queue>>
  <2>1. WorksOn(p)' = 0
    BY <1>0, <1>2, MovesTo DEF WorksOn, Working
  <2>2. Task' = Task
    BY <1>1, <2>1
  <2> QED BY <1>2, <2>2 DEF Claim, Queue!vars, Latched
<1>3. CASE /\ ~Latched /\ queue[i] = "pending"
           /\ queue' = [queue EXCEPT ![i] = "running"]
           /\ status' = "running"
           /\ Goto(p, IF proc[p].agent THEN "prompt" ELSE "admit")
  <2>1. i \in DOMAIN queue
    BY <1>0 DEF Inv, PromptsExist, Working
  <2>2. \A j \in 1..(i - 1) : queue[j] # "pending"
    BY <1>0 DEF Inv, InOrder
  <2>3. Queue!AtRest
    BY <1>0, OwnerAtRest DEF Owning, Working
  <2>4. WorksOn(p)' = i
    BY <1>0, <1>3, MovesTo DEF WorksOn, Working, SameTask
  <2>5. ~Latched'
    BY <1>3 DEF Latched
  <2>6. Queue!Take(p, i)
    BY <1>1, <1>3, <2>2, <2>3, <2>4, <2>5 DEF Claim, Queue!Take, Queue!Open
  <2> QED BY <2>1, <2>6 DEF Queue!Next
<1> QED BY <1>2, <1>3 DEF Claim

(* An outcome finishes the work, unless a cancellation overrules it.       *)
LEMMA SettleFinishes ==
  ASSUME Inv, NEW p \in Processes, MarkFailed(p) \/ Save(p), proc[p].prompt # 0
  PROVE  Queue!Next
<1> DEFINE i == proc[p].prompt
<1>0. TypeOK /\ Acts(p) /\ UNCHANGED pending
  BY DEF Inv, Acts, Step, MarkFailed, Save
<1>1. /\ proc[p].at \in Working \ {"claim"}
      /\ proc'[p].at \in {"leave", "check", "done"}
  BY <1>0, Flow DEF Working
<1>2. PICK outcome \in {"completed", "failed"} : Settle(i, outcome)
  BY DEF MarkFailed, Save
<1>3. WorksOn(p) = i /\ Task[p] = i /\ WorksOn(p)' = 0
  BY <1>1 DEF WorksOn, Task, Working
<1>4. Task' = [Task EXCEPT ![p] = 0]
  BY <1>0, <1>3, TaskMoves
<1>5. queue[i] = "running" \/ (queue[i] = "canceled" /\ Latched)
  BY <1>1 DEF Inv, WorkIsMarked
<1>6. CASE Latched
  <2>1. queue' = [queue EXCEPT ![i] = "canceled"] /\ status' = "canceled" /\ Latched'
    BY <1>2, <1>6 DEF Settle, Latched
  <2>2. (IF Latched THEN status ELSE "open") # "open"
    BY <1>6 DEF Latched
  <2>3. Queue!Overrule(p)
    BY <1>0, <1>3, <1>4, <1>5, <2>1, <2>2 DEF Queue!Overrule, Queue!Open
  <2> QED BY <2>3 DEF Queue!Next
<1>7. CASE ~Latched
  <2>1. queue' = [queue EXCEPT ![i] = outcome] /\ ~Latched'
    BY <1>2, <1>7 DEF Settle, Latched
  <2>2. Queue!Finish(p, outcome)
    BY <1>0, <1>3, <1>4, <1>5, <1>7, <2>1 DEF Queue!Finish, Queue!Open
  <2> QED BY <2>2 DEF Queue!Next
<1> QED BY <1>6, <1>7

(* An exec has no prompt of the queue; its end concludes a cancellation.   *)
LEMMA ExecConcludes ==
  ASSUME Inv, NEW p \in Processes, MarkFailed(p) \/ Save(p) \/ Start(p),
         ~Start(p) => proc[p].prompt = 0
  PROVE  Queue!Next \/ UNCHANGED Queue!vars
<1>0. TypeOK /\ Acts(p) /\ ~Claim(p) /\ UNCHANGED <<queue, pending>>
  <2>1. TypeOK /\ Acts(p) /\ UNCHANGED <<queue, pending>>
    BY DEF Inv, Acts, Step, MarkFailed, Save, Start
  <2> QED BY <2>1, Flow
<1>1. WorksOn(p) = 0
  BY <1>0, Flow DEF WorksOn, Working
<1>2. Task' = Task
  BY <1>0, <1>1, RestKeepsWork
<1>3. CASE Latch' = Latch
  BY <1>0, <1>3, DropsWork
<1>4. CASE Latch' # Latch
  <2>1. Latched /\ status' = "canceled" /\ Latched'
    BY <1>4 DEF MarkFailed, Save, Start, Preserved, Latched, Latch
  <2>2. (IF Latched THEN status ELSE "open") # "open"
    BY <2>1 DEF Latched
  <2>3. Queue!Conclude
    BY <1>0, <1>2, <2>1, <2>2 DEF Queue!Conclude, Queue!Open
  <2> QED BY <2>3 DEF Queue!Next
<1> QED BY <1>3, <1>4

(* A recovery puts back what nobody works on, or cancels everything.       *)
LEMMA RecoveryPutsBack ==
  ASSUME Inv, NEW p \in Processes, Recover(p) \/ Finalize(p) \/ StaleRecover(p)
  PROVE  Queue!Next \/ UNCHANGED Queue!vars
<1>0. TypeOK /\ Acts(p) /\ ~Claim(p) /\ UNCHANGED pending
  <2>1. TypeOK /\ Acts(p) /\ UNCHANGED pending
    BY DEF Inv, Acts, Step, Recover, Finalize, StaleRecover
  <2> QED BY <2>1, Flow
<1>1. WorksOn(p) = 0
  BY <1>0, Flow DEF WorksOn, Working
<1>2. Task' = Task
  BY <1>0, <1>1, RestKeepsWork
<1>3. CASE UNCHANGED <<status, queue>>
  BY <1>0, <1>3, DropsWork DEF Latch, Latched
<1>4. CASE RecoverItems /\ Latched
  <2>1. Become({"pending", "running"}, "canceled") /\ status' = "canceled" /\ Latched'
    BY <1>4 DEF RecoverItems, Latched
  <2>2. (IF Latched THEN status ELSE "open") # "open"
    BY <1>4 DEF Latched
  <2>3. Queue!CancelAll
    BY <1>0, <1>2, <2>1, <2>2 DEF Queue!CancelAll, Queue!Open, Queue!Rewrite, Become
  <2> QED BY <2>3 DEF Queue!Next
<1>5. CASE RecoverItems /\ ~Latched /\ Recover(p)
  <2>1. Become({"running"}, "pending") /\ ~Latched'
    BY <1>5 DEF RecoverItems, Latched
  <2>2. proc[p].at \in Owning
    BY <1>0, <1>5, Flow DEF Owning
  <2>3. Queue!AtRest
    BY <1>1, <2>2, OwnerAtRest
  <2>4. Queue!PutBack
    BY <1>0, <1>2, <1>5, <2>1, <2>3 DEF Queue!PutBack, Queue!Open, Queue!Rewrite, Become
  <2> QED BY <2>4 DEF Queue!Next
<1>6. StaleRecover(p) => Latched /\ RecoverItems
  BY <1>0, Flow DEF StaleRecover, Inv, ActorsSawLatch
<1> QED BY <1>3, <1>4, <1>5, <1>6 DEF Recover, Finalize

(* The cancel commands are cancellations.                                  *)
LEMMA CancelsCancel ==
  ASSUME Inv, NEW p \in Processes,
         CancelPending(p) \/ CancelQueue(p) \/ CancelLatch(p) \/ CancelPrompt(p)
  PROVE  Queue!Next \/ UNCHANGED Queue!vars
<1>0. TypeOK /\ Acts(p) /\ ~Claim(p)
  <2>1. TypeOK /\ Acts(p)
    BY DEF Inv, Acts, Step
  <2> QED BY <2>1, Flow
<1>1. WorksOn(p) = 0
  BY <1>0, Flow DEF WorksOn, Working
<1>2. Task' = Task
  BY <1>0, <1>1, RestKeepsWork
<1>3. CASE CancelPending(p) \/ CancelQueue(p)
  <2>1. CancelItems /\ UNCHANGED pending
    BY <1>3 DEF CancelPending, CancelQueue
  <2>2. Queue!CancelWaiting
    BY <1>2, <2>1
    DEF Queue!CancelWaiting, Queue!Open, Queue!Some, Queue!Rewrite, CancelItems, Become,
        HasPrompt, Latched
  <2> QED BY <2>2 DEF Queue!Next
<1>4. CASE CancelLatch(p)
  <2>1. Queue!Request
    BY <1>2, <1>4 DEF CancelLatch, Queue!Request, Latched
  <2> QED BY <2>1 DEF Queue!Next
<1>5. CASE CancelPrompt(p) /\ pending = "pending"
  <2>1. Queue!CancelEarly
    BY <1>2, <1>5 DEF CancelPrompt, Queue!CancelEarly, Latched
  <2> QED BY <2>1 DEF Queue!Next
<1>6. CASE CancelPrompt(p) /\ pending # "pending"
  BY <1>0, <1>6, DropsWork DEF CancelPrompt, Latch, Latched
<1> QED BY <1>3, <1>4, <1>5, <1>6

(* Every step is a step of the abstract queue or invisible to it.          *)
LEMMA StepServesQueue ==
  ASSUME Inv, [Next]_vars PROVE [Queue!Next]_(Queue!vars)
<1>1. CASE UNCHANGED vars
  BY <1>1 DEF vars, files, Queue!vars, Task, Latched
<1>2. CASE Enqueue
  BY <1>2, EnqueueSubmits
<1>3. ASSUME NEW p \in Processes, Acts(p) PROVE Queue!Next \/ UNCHANGED Queue!vars
  <2>1. CASE Claim(p)
    BY <2>1, ClaimTakes
  <2>2. CASE MarkFailed(p) \/ Save(p) \/ Start(p)
    BY <2>2, SettleFinishes, ExecConcludes
  <2>3. CASE Recover(p) \/ Finalize(p) \/ StaleRecover(p)
    BY <2>3, RecoveryPutsBack
  <2>4. CASE CancelPending(p) \/ CancelQueue(p) \/ CancelLatch(p) \/ CancelPrompt(p)
    BY <2>4, CancelsCancel
  <2>5. CASE UNCHANGED <<status, queue, pending>> /\ ~Claim(p)
    BY <1>3, <2>5, DropsWork DEF Latch, Latched
  <2>6. Call(p) \/ Fail(p) \/ CancelFails(p) \/ Crash(p) =>
          UNCHANGED <<status, queue, pending>>
    BY DEF Call, Begin, BeginCancel, BeginStale, Fail, CancelFails, Crash, files
  <2>7. Step(p) =>
          \/ UNCHANGED <<status, queue, pending>>
          \/ Claim(p) \/ MarkFailed(p) \/ Save(p) \/ Start(p)
          \/ Recover(p) \/ Finalize(p) \/ StaleRecover(p)
          \/ CancelPending(p) \/ CancelQueue(p) \/ CancelLatch(p) \/ CancelPrompt(p)
    BY DEF Step, Acquire, Release, WatchCycle, WatchWork, Check, NextPrompt, Admit, Launch,
        Prompt, PromptEnds, WriteEvents, SaveFails, Done, Read, CancelSidecar,
        CancelUnowned, StaleOwner, files
  <2> QED BY <1>3, <2>1, <2>2, <2>3, <2>4, <2>5, <2>6, <2>7 DEF Acts
<1> QED BY <1>1, <1>2, <1>3 DEF Next, Acts

(***************************************************************************)
(* The files, locks and processes of a session implement the abstract      *)
(* queue, for any number of processes and prompts: prompts are taken in    *)
(* order and one at a time, end once, and are put back only at rest.       *)
(***************************************************************************)
THEOREM QueueIsImplemented == Spec => ImplementsQueue
<1>1. Init => Queue!Init
  BY DEF Init, Idle, Queue!Init, Task, Working, Latched
<1>2. Inv /\ [Next]_vars => [Queue!Next]_(Queue!vars)
  BY StepServesQueue
<1> QED BY <1>1, <1>2, Invariant, PTL DEF Spec, ImplementsQueue, Queue!Spec

=============================================================================

------------------------------ MODULE SessionQueue ------------------------------
(***************************************************************************)
(* The prompt queue of one ACP session: internal/acpclient/store.go,       *)
(* drain.go, watch.go and eventlog.go, as the commands of                  *)
(* cmd/ratchet/cmd_acp_client.go and the background manager use them.      *)
(*                                                                         *)
(* The session lives in files that several processes share. A transaction  *)
(* on them is one step, under the lock of the store, except where it       *)
(* writes two files; a process may die between any two steps, and the      *)
(* operating system then frees its locks.                                  *)
(***************************************************************************)
EXTENDS Naturals, Sequences

CONSTANTS
  Processes,    \* commands and background workers
  MaxPrompts,   \* bounds the queue
  Legacy,       \* the session may come with a prompt of an earlier format
  None

ASSUME ProcessesAssumption == None \notin Processes
ASSUME PromptsAssumption == MaxPrompts \in Nat \ {0} /\ Legacy \in BOOLEAN

VARIABLES
  \* files
  status,     \* SessionRecord.Status
  queue,      \* SessionRecord.PromptQueue: the status of each prompt, in order
  pending,    \* SessionRecord.PendingPrompt.Status
  log,        \* the prompts whose events are in the event log
  sidecar,    \* the cancel-request file exists
  \* lock files, by the process that holds them
  lease,      \* the owner lease
  claim,      \* the claim lock, around every change of the lease
  admission,  \* the launch admission lock
  storeLock,  \* the lock of the store, where a transaction has two steps
  \* memory
  proc        \* the processes

files == <<status, queue, pending, log, sidecar>>
locks == <<lease, claim, admission, storeLock>>
vars == <<files, locks, proc>>

-----------------------------------------------------------------------------
SessionStatus ==
  {"absent", "queued", "running", "completed", "cancel_requested", "canceled"}
PromptStatus == {"pending", "running", "completed", "failed", "canceled"}
Prompts == 1..MaxPrompts

Kinds == {"drain", "watch", "exec", "export"}

(* Where a process is: on its way to the lease, holding it, canceling, or  *)
(* recovering the queue of a session without an owner.                     *)
Working == {"claim", "admit", "launch", "prompt", "sent", "failed", "answered",
            "save"}
Owning == Working \cup
          {"cycle", "work", "recover", "check", "next", "recheck",
           "cancel_pending", "recover_cancel", "recover_stop", "done",
           "finalize", "start", "read", "leave"}
Canceling == {"cancel_latch", "cancel_sidecar", "unowned", "cancel_queue",
              "cancel_prompt"}
Places == Owning \cup Canceling \cup {"idle", "acquire", "stale", "stale_recover"}

(* prompt: the prompt the process works on, 0 for that of an exec. agent:  *)
(* its agent runs. logged: the log had events of the prompt before.        *)
Process == [at: Places, kind: Kinds, prompt: Prompts \cup {0}, agent: BOOLEAN,
            logged: BOOLEAN]
Idle == [at |-> "idle", kind |-> "drain", prompt |-> 0, agent |-> FALSE,
         logged |-> FALSE]

Latched == status \in {"cancel_requested", "canceled"}

HasPrompt(s) == \E i \in DOMAIN queue : queue[i] = s

(* A session of an earlier version, or imported from its archive, has one  *)
(* prompt of its own, which every load puts into the queue. A stale        *)
(* cancel-request file may be there.                                       *)
Init ==
  /\ \/ status = "absent" /\ queue = <<>> /\ pending = "none"
     \/ Legacy /\ status = "queued" /\ queue = <<"pending">> /\ pending = "pending"
  /\ log = {}
  /\ sidecar \in BOOLEAN
  /\ lease = None /\ claim = None /\ admission = None /\ storeLock = None
  /\ proc = [p \in Processes |-> Idle]

-----------------------------------------------------------------------------
(***************************************************************************)
(* What the transactions of the store write.                               *)
(***************************************************************************)
Become(from, to) ==
  queue' = [i \in DOMAIN queue |-> IF queue[i] \in from THEN to ELSE queue[i]]

(* preserveCancellationLatch *)
Preserved(new) ==
  IF status = "canceled" \/ (Latched /\ new = "completed") THEN "canceled"
  ELSE IF Latched THEN status ELSE new

(* recoverRunningQueueItems: put back what a dead owner was running, or    *)
(* cancel it all. Without a session it fails.                              *)
RecoverItems ==
  IF Latched
  THEN /\ Become({"pending", "running"}, "canceled")
       /\ status' = "canceled"
  ELSE /\ Become({"running"}, "pending")
       /\ status' = IF HasPrompt("running") THEN "queued" ELSE status

(* CancelPendingQueue *)
CancelItems ==
  /\ Become({"pending"}, "canceled")
  /\ status' = IF ~HasPrompt("running") /\ (Latched \/ HasPrompt("pending"))
               THEN "canceled" ELSE status

(* updateQueuedPromptWithEvents: a latched session overrules the outcome.  *)
Settle(i, outcome) ==
  /\ queue' = [queue EXCEPT ![i] = IF Latched THEN "canceled" ELSE outcome]
  /\ status' = IF Latched THEN "canceled" ELSE "completed"

(* AppendQueuedPrompt, by anybody *)
Enqueue ==
  /\ storeLock = None
  /\ ~Latched
  /\ Len(queue) < MaxPrompts
  /\ queue' = Append(queue, "pending")
  /\ status' = "queued"
  /\ UNCHANGED <<pending, log, sidecar, locks, proc>>

-----------------------------------------------------------------------------
(***************************************************************************)
(* The owner lease. A drain or watch first brings the cancel-request file  *)
(* in line with the session (ReconcileCancellationRequests).               *)
(***************************************************************************)
Goto(p, at) == proc' = [proc EXCEPT ![p].at = at]
Return(p) == proc' = [proc EXCEPT ![p] = Idle]
Abandon(p) == proc' = [proc EXCEPT ![p].at = "leave", ![p].agent = FALSE]

Reads(p, at) == proc[p].at = at /\ storeLock = None

BeginUnreconciled(p, kind) ==   \* mutant of Begin
  /\ proc[p].at = "idle"
  /\ proc' = [proc EXCEPT ![p] = [Idle EXCEPT !.at = "acquire", !.kind = kind]]
  /\ UNCHANGED <<files, locks>>

Begin(p, kind) ==
  /\ Reads(p, "idle")
  /\ sidecar' = IF kind \in {"drain", "watch"} THEN Latched ELSE sidecar
  /\ proc' = [proc EXCEPT ![p] = [Idle EXCEPT !.at = "acquire", !.kind = kind]]
  /\ UNCHANGED <<status, queue, pending, log, locks>>

AcquireHeld(p) ==   \* mutant of Acquire: the lease is taken over
  /\ proc[p].at = "acquire"
  /\ claim = None
  /\ lease' = p
  /\ Goto(p, CASE proc[p].kind = "drain" -> "recover"
               [] proc[p].kind = "watch" -> "cycle"
               [] proc[p].kind = "exec" -> "start"
               [] proc[p].kind = "export" -> "read")
  /\ UNCHANGED <<files, claim, admission, storeLock>>

Acquire(p) ==
  /\ proc[p].at = "acquire"
  /\ claim = None
  /\ \/ /\ lease = None
        /\ lease' = p
        /\ Goto(p, CASE proc[p].kind = "drain" -> "recover"
                     [] proc[p].kind = "watch" -> "cycle"
                     [] proc[p].kind = "exec" -> "start"
                     [] proc[p].kind = "export" -> "read")
     \/ lease # None /\ Return(p) /\ UNCHANGED lease
  /\ UNCHANGED <<files, claim, admission, storeLock>>

Release(p) ==
  /\ proc[p].at = "leave"
  /\ claim = None
  /\ lease' = None
  /\ Return(p)
  /\ UNCHANGED <<files, claim, admission, storeLock>>

(* A read or write fails, or the context is canceled: the owner closes its *)
(* agent and leaves the queue as it is, or recovers it before a launch.    *)
Fail(p) ==
  /\ proc[p].at \in Owning \ {"launch", "save", "leave"}
  /\ IF proc[p].at = "admit" THEN Goto(p, "recover_stop") ELSE Abandon(p)
  /\ UNCHANGED <<files, locks>>

(* The process dies. *)
Freed(lock, p) == IF lock = p THEN None ELSE lock

Crash(p) ==
  /\ proc[p].at # "idle"
  /\ Return(p)
  /\ lease' = Freed(lease, p)
  /\ claim' = Freed(claim, p)
  /\ admission' = Freed(admission, p)
  /\ storeLock' = Freed(storeLock, p)
  /\ UNCHANGED files

-----------------------------------------------------------------------------
(***************************************************************************)
(* DrainQueue and WatchQueue.                                              *)
(***************************************************************************)

(* A cycle of a watch ends with the cancellation, or looks for work; an    *)
(* empty queue makes it sleep or finish.                                   *)
WatchCycleUnchecked(p) ==   \* mutant of WatchCycle: no authority check
  /\ Reads(p, "cycle")
  /\ Goto(p, "work")
  /\ UNCHANGED <<files, locks>>

WatchCycle(p) ==
  /\ Reads(p, "cycle")
  /\ Goto(p, IF status = "absent" THEN "leave"
             ELSE IF Latched THEN "recover_stop" ELSE "work")
  /\ UNCHANGED <<files, locks>>

WatchWork(p) ==
  /\ Reads(p, "work")
  /\ IF HasPrompt("pending") \/ HasPrompt("running")
     THEN Goto(p, "recover")
     ELSE Goto(p, "cycle") \/ Goto(p, "finalize")
  /\ UNCHANGED <<files, locks>>

(* A watch that ends asks once more under the admission lock.              *)
Finalize(p) ==
  /\ Reads(p, "finalize")
  /\ admission = None
  /\ IF Latched THEN RecoverItems ELSE UNCHANGED <<status, queue>>
  /\ Goto(p, "leave")
  /\ UNCHANGED <<pending, log, sidecar, locks>>

Recover(p) ==
  /\ \/ Reads(p, "recover") /\ Goto(p, IF status = "absent" THEN "leave" ELSE "check")
     \/ Reads(p, "recover_cancel") /\ Goto(p, "done")
     \/ Reads(p, "recover_stop") /\ Abandon(p)
  /\ RecoverItems
  /\ UNCHANGED <<pending, log, sidecar, locks>>

(* Cancellation is asked for before and after a prompt is picked.          *)
Check(p) ==
  /\ \/ Reads(p, "check")
        /\ Goto(p, IF Latched THEN "cancel_pending" ELSE "next")
     \/ Reads(p, "recheck")
        /\ Goto(p, IF Latched THEN "cancel_pending" ELSE "claim")
  /\ UNCHANGED <<files, locks>>

CancelPending(p) ==
  /\ Reads(p, "cancel_pending")
  /\ CancelItems
  /\ Goto(p, "done")
  /\ UNCHANGED <<pending, log, sidecar, locks>>

NextPromptAny(p) ==   \* mutant of NextPrompt: not the first that waits
  /\ Reads(p, "next")
  /\ \/ ~HasPrompt("pending") /\ Goto(p, "done")
     \/ \E i \in DOMAIN queue :
          /\ queue[i] = "pending"
          /\ proc' = [proc EXCEPT ![p].at = "recheck", ![p].prompt = i]
  /\ UNCHANGED <<files, locks>>

NextPrompt(p) ==
  /\ Reads(p, "next")
  /\ \/ ~HasPrompt("pending") /\ Goto(p, "done")
     \/ \E i \in DOMAIN queue :
          /\ queue[i] = "pending"
          /\ \A j \in 1..(i - 1) : queue[j] # "pending"
          /\ proc' = [proc EXCEPT ![p].at = "recheck", ![p].prompt = i]
  /\ UNCHANGED <<files, locks>>

(* MarkQueueRunning *)
ClaimUnchecked(p) ==   \* mutant of Claim: whatever became of the prompt
  LET i == proc[p].prompt IN
  /\ Reads(p, "claim")
  /\ queue' = [queue EXCEPT ![i] = "running"]
  /\ status' = "running"
  /\ Goto(p, IF proc[p].agent THEN "prompt" ELSE "admit")
  /\ UNCHANGED <<pending, log, sidecar, locks>>

Claim(p) ==
  LET i == proc[p].prompt IN
  /\ Reads(p, "claim")
  /\ \/ /\ Latched \/ queue[i] # "pending"
        /\ Abandon(p)
        /\ UNCHANGED <<status, queue>>
     \/ /\ ~Latched
        /\ queue[i] = "pending"
        /\ queue' = [queue EXCEPT ![i] = "running"]
        /\ status' = "running"
        /\ Goto(p, IF proc[p].agent THEN "prompt" ELSE "admit")
  /\ UNCHANGED <<pending, log, sidecar, locks>>

(* The agent starts under the admission lock, after a look at the session. *)
AdmitUnlocked(p) ==   \* mutant of Admit: the lock is not kept
  /\ Reads(p, "admit")
  /\ admission = None
  /\ Goto(p, IF Latched THEN "recover_cancel" ELSE "launch")
  /\ UNCHANGED <<files, locks>>

Admit(p) ==
  /\ Reads(p, "admit")
  /\ admission = None
  /\ \/ Latched /\ Goto(p, "recover_cancel") /\ UNCHANGED admission
     \/ ~Latched /\ Goto(p, "launch") /\ admission' = p
  /\ UNCHANGED <<files, lease, claim, storeLock>>

LaunchKeepsLock(p) ==   \* mutant of Launch: a failed start keeps the lock
  /\ proc[p].at = "launch"
  /\ \/ proc' = [proc EXCEPT ![p].at = "prompt", ![p].agent = TRUE]
          /\ admission' = None
     \/ Goto(p, "recover_stop") /\ admission' = admission
  /\ UNCHANGED <<files, lease, claim, storeLock>>

Launch(p) ==
  /\ proc[p].at = "launch"
  /\ admission' = None
  /\ \/ proc' = [proc EXCEPT ![p].at = "prompt", ![p].agent = TRUE]
     \/ Goto(p, "recover_stop")
  /\ UNCHANGED <<files, lease, claim, storeLock>>

(* A prompt is sent and answered only while the session is not latched.    *)
Prompt(p) ==
  /\ Reads(p, "prompt")
  /\ Goto(p, IF Latched THEN "failed" ELSE "sent")
  /\ UNCHANGED <<files, locks>>

PromptEnds(p) ==
  /\ proc[p].at = "sent"
  /\ \/ Goto(p, "failed")
     \/ storeLock = None /\ ~Latched /\ Goto(p, "answered")
  /\ UNCHANGED <<files, locks>>

(* MarkQueueFailed ends the drain; an exec that failed records nothing.    *)
MarkFailed(p) ==
  /\ Reads(p, "failed")
  /\ IF proc[p].prompt = 0 THEN UNCHANGED <<status, queue>>
     ELSE Settle(proc[p].prompt, "failed")
  /\ Abandon(p)
  /\ UNCHANGED <<pending, log, sidecar, locks>>

(* MarkQueueCompletedWithEvents: first the event log, then the session, in *)
(* one transaction of the store.                                           *)
SessionFirst(p) ==   \* mutant of WriteEvents: the session is saved first
  /\ Reads(p, "answered")
  /\ storeLock' = p
  /\ IF proc[p].prompt = 0 THEN UNCHANGED <<status, queue>>
     ELSE Settle(proc[p].prompt, "completed")
  /\ Goto(p, "save")
  /\ UNCHANGED <<pending, log, sidecar, lease, claim, admission>>

WriteEvents(p) ==
  /\ Reads(p, "answered")
  /\ storeLock' = p
  /\ log' = log \cup ({proc[p].prompt} \ {0})
  /\ proc' = [proc EXCEPT ![p].at = "save",
                          ![p].logged = proc[p].prompt \in log]
  /\ UNCHANGED <<status, queue, pending, sidecar, lease, claim, admission>>

(* A drain goes on with the next prompt until it has done its share.       *)
Save(p) ==
  /\ proc[p].at = "save"
  /\ storeLock' = None
  /\ IF proc[p].prompt = 0
     THEN /\ status' = Preserved("completed")
          /\ queue' = queue
          /\ Abandon(p)
     ELSE /\ Settle(proc[p].prompt, "completed")
          /\ Goto(p, "check") \/ Goto(p, "done")
  /\ UNCHANGED <<pending, log, sidecar, lease, claim, admission>>

(* A session that cannot be saved gets its old event log back, if that     *)
(* can be written.                                                         *)
SaveFails(p) ==
  /\ proc[p].at = "save"
  /\ storeLock' = None
  /\ log' \in {log, IF proc[p].logged THEN log ELSE log \ {proc[p].prompt}}
  /\ Abandon(p)
  /\ UNCHANGED <<status, queue, pending, sidecar, lease, claim, admission>>

(* The agent is closed. A drain is over, a watch sleeps or finishes.       *)
Done(p) ==
  /\ proc[p].at = "done"
  /\ \/ proc[p].kind = "drain" /\ Abandon(p)
     \/ /\ proc[p].kind = "watch"
        /\ \E at \in {"cycle", "finalize"} :
             proc' = [proc EXCEPT ![p].at = at, ![p].agent = FALSE]
  /\ UNCHANGED <<files, locks>>

(* exec: MarkSessionStarted, then a prompt of its own. Its agent runs      *)
(* before it has a session. export: reads the session.                     *)
Start(p) ==
  /\ Reads(p, "start")
  /\ \/ Latched /\ Abandon(p) /\ UNCHANGED status
     \/ /\ ~Latched
        /\ status' = "running"
        /\ proc' = [proc EXCEPT ![p].at = "prompt", ![p].agent = TRUE]
  /\ UNCHANGED <<queue, pending, log, sidecar, locks>>

Read(p) ==
  /\ Reads(p, "read")
  /\ Goto(p, "leave")
  /\ UNCHANGED <<files, locks>>

-----------------------------------------------------------------------------
(***************************************************************************)
(* The cancel command: an owner is asked to stop, under the claim and      *)
(* admission locks; without an owner the queue itself is canceled. An      *)
(* export is not asked.                                                    *)
(***************************************************************************)
BeginCancel(p) ==
  /\ proc[p].at = "idle"
  /\ claim = None
  /\ \/ lease = None /\ Goto(p, "unowned") /\ UNCHANGED claim
     \/ /\ lease # None
        /\ proc[lease].kind # "export"
        /\ Goto(p, "cancel_latch")
        /\ claim' = p
  /\ UNCHANGED <<files, lease, admission, storeLock>>

(* Session first, cancel-request file second. *)
CancelSidecarFirst(p) ==   \* mutant of CancelLatch
  /\ Reads(p, "cancel_latch")
  /\ admission = None
  /\ sidecar' = TRUE
  /\ admission' = p /\ storeLock' = p
  /\ Goto(p, "cancel_sidecar")
  /\ UNCHANGED <<status, queue, pending, log, lease, claim>>

CancelLatch(p) ==
  /\ Reads(p, "cancel_latch")
  /\ admission = None
  /\ status' = IF status = "canceled" THEN status ELSE "cancel_requested"
  /\ admission' = p /\ storeLock' = p
  /\ Goto(p, "cancel_sidecar")
  /\ UNCHANGED <<queue, pending, log, sidecar, lease, claim>>

CancelSidecar(p) ==
  /\ proc[p].at = "cancel_sidecar"
  /\ sidecar' \in {sidecar, TRUE}
  /\ claim' = None /\ admission' = None /\ storeLock' = None
  /\ Return(p)
  /\ UNCHANGED <<status, queue, pending, log, lease>>

CancelUnowned(p) ==
  /\ Reads(p, "unowned")
  /\ \/ pending = "pending" /\ Goto(p, "cancel_prompt")
     \/ pending # "pending" /\ HasPrompt("pending") /\ Goto(p, "cancel_queue")
     \/ pending # "pending" /\ ~HasPrompt("pending") /\ Return(p)
  /\ UNCHANGED <<files, locks>>

CancelQueue(p) ==
  /\ Reads(p, "cancel_queue")
  /\ CancelItems
  /\ Return(p)
  /\ UNCHANGED <<pending, log, sidecar, locks>>

(* MarkPendingCanceled; the legacy prompt is the first of the queue. *)
CancelPrompt(p) ==
  /\ Reads(p, "cancel_prompt")
  /\ \/ pending # "pending" /\ UNCHANGED <<status, queue, pending>>
     \/ /\ pending = "pending"
        /\ pending' = "canceled"
        /\ queue' = [queue EXCEPT ![1] = "canceled"]
        /\ status' = "canceled"
  /\ Return(p)
  /\ UNCHANGED <<log, sidecar, locks>>

(* A step of the command fails. *)
CancelFails(p) ==
  /\ proc[p].at \in Canceling \ {"cancel_sidecar"}
  /\ claim' = Freed(claim, p)
  /\ Return(p)
  /\ UNCHANGED <<files, lease, admission, storeLock>>

(* The background manager recovers the queue of a canceled session that    *)
(* has no owner: the owner is asked for first, in a step of its own.       *)
BeginStaleAny(p) ==   \* mutant of BeginStale: of any session
  /\ Reads(p, "idle")
  /\ Goto(p, "stale")
  /\ UNCHANGED <<files, locks>>

BeginStale(p) ==
  /\ Reads(p, "idle")
  /\ Latched
  /\ Goto(p, "stale")
  /\ UNCHANGED <<files, locks>>

StaleOwner(p) ==
  /\ proc[p].at = "stale"
  /\ claim = None
  /\ IF lease = None THEN Goto(p, "stale_recover") ELSE Return(p)
  /\ UNCHANGED <<files, locks>>

StaleRecover(p) ==
  /\ Reads(p, "stale_recover")
  /\ RecoverItems
  /\ Return(p)
  /\ UNCHANGED <<pending, log, sidecar, locks>>

-----------------------------------------------------------------------------
Call(p) ==
  \/ \E kind \in Kinds : Begin(p, kind)
  \/ BeginCancel(p) \/ BeginStale(p)

Step(p) ==
  \/ Acquire(p) \/ Release(p) \/ WatchCycle(p) \/ WatchWork(p) \/ Finalize(p)
  \/ Recover(p) \/ Check(p) \/ CancelPending(p) \/ NextPrompt(p) \/ Claim(p)
  \/ Admit(p) \/ Launch(p) \/ Prompt(p) \/ PromptEnds(p) \/ MarkFailed(p)
  \/ WriteEvents(p) \/ Save(p) \/ SaveFails(p) \/ Done(p) \/ Start(p) \/ Read(p)
  \/ CancelLatch(p) \/ CancelSidecar(p) \/ CancelUnowned(p) \/ CancelQueue(p)
  \/ CancelPrompt(p) \/ StaleOwner(p) \/ StaleRecover(p)

Next ==
  \/ Enqueue
  \/ \E p \in Processes :
       Call(p) \/ Step(p) \/ Fail(p) \/ CancelFails(p) \/ Crash(p)

Spec == Init /\ [][Next]_vars

(***************************************************************************)
(* A process that is not dead goes on: file locks are queued for, agents   *)
(* answer or time out (RunOptions.Timeout). Nothing makes anybody enqueue, *)
(* drain or cancel, and nothing has to fail.                               *)
(***************************************************************************)
FairSpec == Spec /\ \A p \in Processes : SF_vars(Step(p))

-----------------------------------------------------------------------------
(***************************************************************************)
(* Type invariant.                                                         *)
(***************************************************************************)
TypeOK ==
  /\ status \in SessionStatus
  /\ queue \in Seq(PromptStatus) /\ Len(queue) <= MaxPrompts
  /\ pending \in {"none", "pending", "canceled"}
  /\ log \subseteq Prompts
  /\ sidecar \in BOOLEAN
  /\ {lease, claim, admission, storeLock} \subseteq Processes \cup {None}
  /\ proc \in [Processes -> Process]

(***************************************************************************)
(* A cancellation that was accepted is never lost to the late answers,     *)
(* recoveries and restarts of others, and its end is final.                *)
(***************************************************************************)
LatchIsPermanent ==
  [][/\ Latched => Latched'
     /\ status = "canceled" => status' = "canceled"]_vars

(***************************************************************************)
(* A prompt runs at most once to its end: nothing brings a completed,      *)
(* failed or canceled prompt back, although processes take over the queues *)
(* of others and outcomes are written without a look at the prompt. Only   *)
(* the cancellation of a prompt of the earlier format overwrites its end.  *)
(***************************************************************************)
PromptLifecycle ==
  [][\A i \in DOMAIN queue :
       \/ queue'[i] = queue[i]
       \/ queue[i] = "pending" /\ queue'[i] \in {"running", "canceled"}
       \/ queue[i] = "running"
       \/ i = 1 /\ pending = "pending" /\ pending' = "canceled"]_vars

(***************************************************************************)
(* No agent starts on a session whose cancellation was accepted; only that *)
(* of a prompt of the earlier format does not wait for a launch.           *)
(***************************************************************************)
NoLaunchAfterCancel ==
  [][\A p \in Processes : proc'[p].agent /\ ~proc[p].agent =>
       ~Latched \/ pending = "canceled"]_vars

(***************************************************************************)
(* An accepted cancellation holds: nothing undoes it, nothing starts.      *)
(***************************************************************************)
CancellationHolds == LatchIsPermanent /\ NoLaunchAfterCancel

(***************************************************************************)
(* The prompt an owner works on is marked running, or canceled with the    *)
(* whole session: no other process can take it, or put it back.            *)
(***************************************************************************)
WorkIsMarked ==
  \A p \in Processes :
    proc[p].at \in Working \ {"claim"} /\ proc[p].prompt # 0 =>
      /\ lease = p
      /\ \/ queue[proc[p].prompt] = "running"
         \/ queue[proc[p].prompt] = "canceled" /\ Latched

(***************************************************************************)
(* The events of every completed prompt are in the event log, whichever    *)
(* of the two writes fails or is interrupted.                              *)
(***************************************************************************)
TurnsHaveEvents ==
  \A i \in DOMAIN queue : queue[i] = "completed" => i \in log

(***************************************************************************)
(* While a drain or watch owns the session, the cancel-request file never  *)
(* announces a cancellation that the session does not have.                *)
(***************************************************************************)
SidecarFollows ==
  \A p \in Processes :
    lease = p /\ proc[p].kind \in {"drain", "watch"} /\ sidecar => Latched

(***************************************************************************)
(* The files written beside the session, before or after it, agree with    *)
(* what it says, although each write of a pair may fail or be the last.    *)
(***************************************************************************)
FilesAgree == TurnsHaveEvents /\ SidecarFollows

(***************************************************************************)
(* The cancel command returns: no launch, drain or recovery blocks it.     *)
(***************************************************************************)
CancelReturns ==
  \A p \in Processes : proc[p].at \in Canceling ~> proc[p].at \notin Canceling

(***************************************************************************)
(* Whoever owns a canceled session gives it up, an idle watch too.         *)
(***************************************************************************)
CancelEndsWork ==
  \A p \in Processes : Latched /\ lease = p ~> lease # p

(***************************************************************************)
(* A cancel command takes its effect: it returns, and the owner ends.      *)
(***************************************************************************)
CancelWorks == CancelReturns /\ CancelEndsWork

-----------------------------------------------------------------------------
(* What a client sees of it: who works on what, and whether the session is *)
(* canceled.                                                               *)
Task ==
  [p \in Processes |->
     IF proc[p].at \in Working \ {"claim"} THEN proc[p].prompt ELSE 0]

Queue ==
  INSTANCE PromptQueue
  WITH prompts <- queue,
       work <- Task,
       latch <- IF Latched THEN status ELSE "open",
       early <- pending = "pending"

(***************************************************************************)
(* The files and locks, with processes that die at any step, implement the *)
(* queue of PromptQueue: prompts are taken in order, by one process at a   *)
(* time, come to one end, and are put back only when nobody works on them. *)
(***************************************************************************)
ImplementsQueue == Queue!Spec

=============================================================================

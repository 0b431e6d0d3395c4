------------------------- MODULE SessionQueueInvariant -------------------------
(***************************************************************************)
(* The parts of the inductive invariant of SessionQueue, each with the     *)
(* reason it holds. MCSessionQueue extends this module for TLC,            *)
(* SessionQueueProofs for TLAPS.                                           *)
(***************************************************************************)
EXTENDS SessionQueue

(* Each lock file belongs to the process at the places where it is needed. *)
LeaseHolder == \A p \in Processes : lease = p <=> proc[p].at \in Owning
ClaimHolder ==
  \A p \in Processes :
    claim = p <=> proc[p].at \in {"cancel_latch", "cancel_sidecar"}
AdmissionHolder ==
  \A p \in Processes :
    admission = p <=> proc[p].at \in {"launch", "cancel_sidecar"}
StoreHolder ==
  \A p \in Processes :
    storeLock = p <=> proc[p].at \in {"save", "cancel_sidecar"}

Locks == LeaseHolder /\ ClaimHolder /\ AdmissionHolder /\ StoreHolder

(* Queues only grow, so the prompt that a process has picked stays there.  *)
(* Only an exec works on a prompt outside the queue, and it never claims.  *)
PromptsExist ==
  \A p \in Processes :
    /\ proc[p].at \in {"acquire", "start"} => proc[p].prompt = 0
    /\ proc[p].at \in {"recheck", "claim", "admit", "launch"} =>
         proc[p].prompt # 0
    /\ proc[p].at \in {"recheck"} \cup Working =>
         proc[p].prompt \in DOMAIN queue \cup {0}

(* A session is latched from the first step of those who act on that, as   *)
(* the latch is permanent.                                                 *)
ActorsSawLatch ==
  \A p \in Processes :
    proc[p].at \in {"stale", "stale_recover", "cancel_sidecar"} => Latched

(* Between the admission and the launch a session is not latched: accepted *)
(* cancellations take the admission lock, and the queue of a session that  *)
(* somebody works on has a running prompt, so that no command without an   *)
(* owner in sight cancels it. A prompt of the earlier format is canceled   *)
(* without a look at either.                                               *)
AdmittedIsLive ==
  pending # "canceled" =>
    \A p \in Processes : proc[p].at = "launch" => ~Latched

(* The prompt whose session is to be saved has its events in the log. Only *)
(* the process that wrote them takes events out again.                     *)
LoggedFirst ==
  \A p \in Processes :
    proc[p].at = "save" /\ proc[p].prompt # 0 => proc[p].prompt \in log

(* Who brought the cancel-request file in line finds it so until he leaves.*)
SidecarLatched ==
  \A p \in Processes :
    /\ proc[p].at \in {"acquire"} \cup Owning
    /\ proc[p].kind \in {"drain", "watch"}
    /\ sidecar
    => Latched

(* A prompt is picked when none before it waits, and nobody but its owner  *)
(* puts prompts of an open session back.                                   *)
InOrder ==
  \A p \in Processes :
    proc[p].at \in {"recheck", "claim"} =>
      \A j \in 1..(proc[p].prompt - 1) : queue[j] # "pending"

Inv ==
  /\ TypeOK
  /\ Locks
  /\ PromptsExist
  /\ WorkIsMarked
  /\ ActorsSawLatch
  /\ AdmittedIsLive
  /\ LoggedFirst
  /\ TurnsHaveEvents
  /\ SidecarLatched
  /\ InOrder

=============================================================================

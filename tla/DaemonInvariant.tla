---------------------------- MODULE DaemonInvariant ----------------------------
(***************************************************************************)
(* The inductive invariant behind the safety properties of DaemonLifecycle.*)
(***************************************************************************)
EXTENDS DaemonLifecycle

(* From taking the lock to giving it back. *)
Holding == {"check", "create", "write", "listen", "service", "serve",
            "drain", "close", "unlink", "unpid", "unlock"}

(* From writing the PID file to removing it. *)
Named == {"listen", "service", "serve", "drain", "close", "unlink", "unpid"}

Stage(d) == daemon[d].at

LockAgrees == \A d \in Daemons : Stage(d) \in Holding <=> lock = d

(* Who is between the two wrote the file; whom the file names is there, or *)
(* ended without removing it.                                              *)
PIDAgrees ==
  \A d \in Daemons :
    /\ Stage(d) \in Named => pidFile = d
    /\ pidFile = d => Stage(d) \in Named \cup {"zombie", "gone"}

(* GracefulStop is the first to take the socket from who serves. *)
Listens(d) ==
  \/ Stage(d) = "service"
  \/ Stage(d) = "serve" /\ daemon[d].watch \in {"wait", "barrier"}

SocketAgrees == \A d \in Daemons : Listens(d) => socket = d

(* Who passed the drain has the barrier down, or never served. *)
BarrierHolds ==
  \A d \in Daemons :
    /\ daemon[d].reload = "export" => Stage(d) \in {"serve", "drain"}
    /\ Stage(d) \notin {"serve", "drain"} /\ ~daemon[d].closing
         => daemon[d].reload = "wait" /\ daemon[d].context = "open"

(* A command keeps to its path, and leaves the waiting part of it only     *)
(* when the process it found has ended, for good.                          *)
OnPath(c) ==
  /\ command[c].kind \in {"stop", "restart"}
       => command[c].at \in Stopping \cup {"start", "ready"}
  /\ command[c].at \in Stopping
       => /\ command[c].kind \in {"stop", "restart"}
          /\ command[c].old = None <=> command[c].at = "capture"
  /\ command[c].kind \notin {"stop", "restart"} => command[c].old = None
  /\ command[c].old # None
       => /\ Stage(command[c].old) # "none"
          /\ command[c].at \in {"start", "ready", "reconcile"}
               => Stage(command[c].old) = "gone"

StopAgrees == \A c \in Commands : OnPath(c)

IInv ==
  /\ TypeOK
  /\ LockAgrees
  /\ PIDAgrees
  /\ SocketAgrees
  /\ BarrierHolds
  /\ StopAgrees

=============================================================================

--------------------------- MODULE ProviderInvariant ---------------------------
(***************************************************************************)
(* The inductive invariant of ProviderOperations: why a credential in use  *)
(* survives, although cleanup counts its references outside every lock.    *)
(***************************************************************************)
EXTENDS ProviderOperations

(* Before the manager serves there are no calls, flights or workers.       *)
Quiet ==
  daemon \in {"down", "starting", "recovered"} =>
    /\ \A o \in Operations : flight[o] = NoFlight
    /\ \A c \in Callers : caller[c] = IdleCaller
    /\ \A s \in SecretNames : cleaning[s] = "idle"
    /\ batch = {}
    /\ rowsMu = None

(* The journal agrees with the phase of a flight.                          *)
FlightAgrees ==
  \A o \in Operations :
    /\ flight[o].pc \in {"store", "apply", "fail"} => op[o].state = "pending"
    /\ flight[o].pc \in {"refresh", "commit"} => op[o].state = "applied"
    /\ flight[o].pc # "none" => op[o].state # "absent"
    /\ flight[o].pc = "store" => op[o].secret # None
    /\ flight[o].pc = "apply" => op[o].secret \in store \cup {None}

(* Only the holder of the row mutex finalizes, and what it finalizes stays *)
(* applied.                                                                *)
FinalizerHoldsRows ==
  /\ \A o \in Operations : flight[o].pc \in {"refresh", "commit"} => rowsMu = o
  /\ \A c \in Callers : caller[c].pc = "commit" =>
       rowsMu = c /\ op[caller[c].op].state = "applied"

(* Callers that read an operation again know its id.                       *)
CallersKnow ==
  \A c \in Callers :
    /\ caller[c].pc \in {"attached", "reread", "query", "secret", "lock", "commit"} =>
         caller[c].op \in Operations
    /\ caller[c].pc \in {"attached", "reread", "remove"} => caller[c].alias \in Aliases

(* An operation has its alias from its insertion, and its secret alone.    *)
Reservations ==
  /\ \A o \in Operations :
       /\ op[o].state = "absent" => op[o] = NoOperation
       /\ op[o].state # "absent" => op[o].alias \in Aliases
       /\ op[o].secret \in used \cup {None}
  /\ \A o, p \in Operations :
       o # p /\ op[o].secret = op[p].secret => op[o].secret = None

(* A name that was never reserved occurs nowhere.                          *)
FreshNamesUnused ==
  /\ \A a \in Aliases : row[a].secret \in used \cup Aliases \cup {None}
  /\ queue \cup batch \cup store \cup Cleaners \subseteq used \cup Aliases

(* No worker that will delete a name can see it come into use.             *)
DeletionsUnreferenced ==
  \A s \in SecretNames : cleaning[s] = "delete" => ~Referenced(s)

(* The secret of a save that is not applied is in no row.                  *)
UnappliedUnused ==
  \A o \in Operations :
    op[o].state \in {"pending", "failed"} /\ op[o].secret # None =>
      ~ReferencedByRow(op[o].secret)

IInv ==
  /\ TypeOK
  /\ Quiet
  /\ FlightAgrees
  /\ FinalizerHoldsRows
  /\ CallersKnow
  /\ Reservations
  /\ FreshNamesUnused
  /\ DeletionsUnreferenced
  /\ UnappliedUnused
  /\ CredentialAvailable

-----------------------------------------------------------------------------
(***************************************************************************)
(* On top of it: why saves, removals and default changes exclude each      *)
(* other and why the memory of the process follows its tables.             *)
(***************************************************************************)

(* Who is about to commit has told the redactor and the registry.          *)
ReadyToCommit(o) ==
  op[o].secret \in redacted \cup {None} /\ op[o].alias \notin stale

FinalizersAreReady ==
  /\ \A o \in Operations : flight[o].pc = "commit" => ReadyToCommit(o)
  /\ \A c \in Callers : caller[c].pc = "commit" => ReadyToCommit(caller[c].op)

(* A process that does not serve yet has no registry to be behind.         *)
NothingStale == daemon \in {"down", "starting", "recovered"} => stale = {}

SharingInv ==
  /\ SavesAreExclusive
  /\ MemoryFollowsTables
  /\ FinalizersAreReady
  /\ NothingStale

=============================================================================

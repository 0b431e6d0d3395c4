----------------------------- MODULE ProviderLocks -----------------------------
(***************************************************************************)
(* The locks of internal/daemon/provider_operations.go and of the provider *)
(* RPCs: the manager mutex m.mu, one gate per alias, ProviderRowsMu and    *)
(* the single SQLite connection (SetMaxOpenConns(1)). A save takes m.mu    *)
(* before the gate, its flight takes m.mu while it holds the gate; what    *)
(* is saved is the subject of ProviderOperations.                          *)
(***************************************************************************)
EXTENDS FiniteSets

CONSTANTS
  Aliases,   \* provider aliases; an alias also names its flight goroutine
  Callers,   \* RPC handlers
  Nobody

ASSUME ThreadsAssumption ==
  Aliases \cap Callers = {} /\ Nobody \notin Aliases \cup Callers

Threads == Aliases \cup Callers

VARIABLES
  mu,       \* holder of m.mu
  gate,     \* holder of the gate of each alias
  rowsMu,   \* holder of ProviderRowsMu
  conn,     \* holder of the database connection
  flights,  \* aliases in m.flights
  at,       \* where each thread is
  alias,    \* the alias a caller works on
  stop      \* phase of Stop

locksVars == <<mu, gate, rowsMu, conn, flights, at, alias, stop>>

(* What a thread at each of these points needs before it can go on.        *)
NeedMu == {"commit", "get", "land"}
NeedGate == {"gate", "remove"}
NeedRows == {"rows", "finalize", "fail"}
NeedConn == {"journal", "insert", "query", "reread", "confirm", "record", "begin"}

LocksInit ==
  /\ mu = Nobody /\ rowsMu = Nobody /\ conn = Nobody
  /\ gate = [a \in Aliases |-> Nobody]
  /\ flights = {}
  /\ at = [t \in Threads |-> "idle"]
  /\ alias = [c \in Callers |-> Nobody]
  /\ stop = "running"

Goto(t, point) == at' = [at EXCEPT ![t] = point]

-----------------------------------------------------------------------------
(***************************************************************************)
(* RPC handlers. Commit and Get are refused by a stopping manager;         *)
(* RemoveProvider, SetDefaultProvider and UpdateProviderModel are not.     *)
(***************************************************************************)
CallCommit(c, a) ==
  /\ at[c] = "idle" /\ stop = "running"
  /\ alias' = [alias EXCEPT ![c] = a]
  /\ Goto(c, "commit")
  /\ UNCHANGED <<mu, gate, rowsMu, conn, flights, stop>>

CallGet(c) ==
  /\ at[c] = "idle" /\ stop = "running"
  /\ alias' = [alias EXCEPT ![c] = Nobody]
  /\ Goto(c, "get")
  /\ UNCHANGED <<mu, gate, rowsMu, conn, flights, stop>>

CallRemove(c, a) ==
  /\ at[c] = "idle"
  /\ alias' = [alias EXCEPT ![c] = a]
  /\ Goto(c, "remove")
  /\ UNCHANGED <<mu, gate, rowsMu, conn, flights, stop>>

CallUpdate(c) ==
  /\ at[c] = "idle"
  /\ alias' = [alias EXCEPT ![c] = Nobody]
  /\ Goto(c, "rows")
  /\ UNCHANGED <<mu, gate, rowsMu, conn, flights, stop>>

(* Commit and Get are admitted under m.mu; Get lets go of it at once.      *)
LockMu(c) ==
  /\ at[c] = "commit" /\ mu = Nobody
  /\ IF stop = "running" THEN mu' = c /\ Goto(c, "journal")
                         ELSE mu' = mu /\ Goto(c, "idle")
  /\ UNCHANGED <<gate, rowsMu, conn, flights, alias, stop>>

AdmitGet(c) ==
  /\ at[c] = "get" /\ mu = Nobody
  /\ Goto(c, IF stop = "running" THEN "query" ELSE "idle")
  /\ UNCHANGED <<mu, gate, rowsMu, conn, flights, alias, stop>>

JournalUnchecked(c) ==   \* mutant of Journal: goes for the gate of a flight
  /\ at[c] = "journal" /\ conn = Nobody
  /\ \/ alias[c] \in flights /\ Goto(c, "wait") /\ mu' = Nobody
     \/ Goto(c, "get") /\ mu' = Nobody
     \/ Goto(c, "idle") /\ mu' = Nobody
     \/ Goto(c, "gate") /\ mu' = mu
  /\ UNCHANGED <<gate, rowsMu, conn, flights, alias, stop>>

(* Under m.mu: the journal is read. A known id attaches to its flight or   *)
(* goes on with Get; a busy alias refuses; a new id goes for the gate.     *)
Journal(c) ==
  /\ at[c] = "journal" /\ conn = Nobody
  /\ \/ alias[c] \in flights /\ Goto(c, "wait") /\ mu' = Nobody
     \/ Goto(c, "get") /\ mu' = Nobody
     \/ Goto(c, "idle") /\ mu' = Nobody
     \/ alias[c] \notin flights /\ Goto(c, "gate") /\ mu' = mu
  /\ UNCHANGED <<gate, rowsMu, conn, flights, alias, stop>>

(* acquireAlias, still under m.mu *)
LockGate(c) ==
  /\ at[c] = "gate" /\ gate[alias[c]] = Nobody
  /\ gate' = [gate EXCEPT ![alias[c]] = c]
  /\ Goto(c, "insert")
  /\ UNCHANGED <<mu, rowsMu, conn, flights, alias, stop>>

(* Mutant of Insert: a failing insert keeps the gate.                      *)
InsertLeaksGate(c) ==
  /\ at[c] = "insert" /\ conn = Nobody
  /\ mu' = Nobody
  /\ Goto(c, "reread")
  /\ UNCHANGED <<gate, rowsMu, conn, flights, alias, stop>>

(* The inserted operation gets a flight that inherits the gate.            *)
Insert(c) ==
  LET a == alias[c] IN
  /\ at[c] = "insert" /\ conn = Nobody
  /\ mu' = Nobody
  /\ \/ /\ gate' = [gate EXCEPT ![a] = a]
        /\ flights' = flights \cup {a}
        /\ at' = [at EXCEPT ![c] = "wait", ![a] = "store"]
     \/ /\ gate' = [gate EXCEPT ![a] = Nobody]
        /\ Goto(c, "reread")
        /\ UNCHANGED flights
  /\ UNCHANGED <<rowsMu, conn, alias, stop>>

(* waitForFlight; the caller may also give up. *)
Wait(c) ==
  /\ at[c] = "wait"
  /\ \/ alias[c] \notin flights /\ Goto(c, "query")
     \/ Goto(c, "idle")
  /\ UNCHANGED <<mu, gate, rowsMu, conn, flights, alias, stop>>

(* An applied operation is finalized by whoever queries it, then it is     *)
(* read again.                                                             *)
Query(c) ==
  /\ at[c] = "query" /\ conn = Nobody
  /\ Goto(c, "idle") \/ Goto(c, "finalize")
  /\ UNCHANGED <<mu, gate, rowsMu, conn, flights, alias, stop>>

Reread(c) ==
  /\ at[c] = "reread" /\ conn = Nobody
  /\ Goto(c, "idle")
  /\ UNCHANGED <<mu, gate, rowsMu, conn, flights, alias, stop>>

LockGateToRemove(c) ==
  /\ at[c] = "remove" /\ gate[alias[c]] = Nobody
  /\ gate' = [gate EXCEPT ![alias[c]] = c]
  /\ Goto(c, "rows")
  /\ UNCHANGED <<mu, rowsMu, conn, flights, alias, stop>>

-----------------------------------------------------------------------------
(***************************************************************************)
(* The flight: secret store first, with the gate only; then the rows, a    *)
(* transaction, the finalization; last m.mu, to leave m.flights.           *)
(***************************************************************************)
Store(a) ==
  /\ at[a] = "store"
  /\ Goto(a, "rows") \/ Goto(a, "fail")
  /\ UNCHANGED <<mu, gate, rowsMu, conn, flights, alias, stop>>

Land(a) ==
  /\ at[a] = "land" /\ mu = Nobody
  /\ flights' = flights \ {a}
  /\ Goto(a, "release")
  /\ UNCHANGED <<mu, gate, rowsMu, conn, alias, stop>>

Release(a) ==
  /\ at[a] = "release"
  /\ gate' = [gate EXCEPT ![a] = Nobody]
  /\ Goto(a, "idle")
  /\ UNCHANGED <<mu, rowsMu, conn, flights, alias, stop>>

-----------------------------------------------------------------------------
(***************************************************************************)
(* Row mutex and transaction, of flights and handlers alike.               *)
(***************************************************************************)
LockRows(t) ==
  /\ at[t] \in NeedRows /\ rowsMu = Nobody
  /\ rowsMu' = t
  /\ Goto(t, CASE at[t] = "rows" -> "begin"
               [] at[t] = "finalize" -> "confirm"
               [] at[t] = "fail" -> "record")
  /\ UNCHANGED <<mu, gate, conn, flights, alias, stop>>

Begin(t) ==
  /\ at[t] = "begin" /\ conn = Nobody
  /\ conn' = t
  /\ Goto(t, "tx")
  /\ UNCHANGED <<mu, gate, rowsMu, flights, alias, stop>>

(* Mutant of EndTransaction: a failed transaction keeps the row mutex.     *)
EndTransactionLocked(t) ==
  /\ at[t] = "tx"
  /\ conn' = Nobody
  /\ Goto(t, IF t \in Aliases THEN "fail" ELSE "idle")
  /\ UNCHANGED <<mu, gate, rowsMu, flights, alias, stop>>

(* A flight that applied finalizes inside the row mutex, one that did not  *)
(* comes back to record the failure; a handler lets go of everything.      *)
EndTransaction(t) ==
  /\ at[t] = "tx"
  /\ conn' = Nobody
  /\ IF t \in Aliases
     THEN /\ \/ Goto(t, "confirm") /\ rowsMu' = rowsMu
             \/ Goto(t, "fail") /\ rowsMu' = Nobody
          /\ UNCHANGED gate
     ELSE /\ Goto(t, "idle")
          /\ rowsMu' = Nobody
          /\ gate' = [a \in Aliases |-> IF gate[a] = t THEN Nobody ELSE gate[a]]
  /\ UNCHANGED <<mu, flights, alias, stop>>

(* The last statement under the row mutex: committed, or failed.           *)
Settle(t) ==
  /\ at[t] \in {"confirm", "record"} /\ conn = Nobody
  /\ rowsMu' = Nobody
  /\ Goto(t, IF t \in Aliases THEN "land" ELSE "reread")
  /\ UNCHANGED <<mu, gate, conn, flights, alias, stop>>

-----------------------------------------------------------------------------
(***************************************************************************)
(* Stop marks the manager under m.mu, then waits for what was admitted.    *)
(***************************************************************************)
Admitted(c) ==
  \/ at[c] \in {"journal", "gate", "insert", "wait", "query", "reread", "finalize",
               "confirm"}
  \/ at[c] = "get" /\ alias[c] # Nobody

BeginStop ==
  /\ stop = "running" /\ mu = Nobody
  /\ stop' = "waiting"
  /\ UNCHANGED <<mu, gate, rowsMu, conn, flights, at, alias>>

EndStop ==
  /\ stop = "waiting"
  /\ \A a \in Aliases : at[a] = "idle"
  /\ \A c \in Callers : ~Admitted(c)
  /\ stop' = "stopped"
  /\ UNCHANGED <<mu, gate, rowsMu, conn, flights, at, alias>>

CallRPC(c) ==
  \/ CallGet(c) \/ CallUpdate(c)
  \/ \E a \in Aliases : CallCommit(c, a) \/ CallRemove(c, a)

Advance(t) ==
  \/ t \in Callers /\ \/ LockMu(t) \/ AdmitGet(t) \/ Journal(t) \/ LockGate(t)
                      \/ Insert(t) \/ Wait(t) \/ Query(t) \/ Reread(t)
                      \/ LockGateToRemove(t)
  \/ t \in Aliases /\ (Store(t) \/ Land(t) \/ Release(t))
  \/ LockRows(t) \/ Begin(t) \/ EndTransaction(t) \/ Settle(t)

LocksNext ==
  \/ \E c \in Callers : CallRPC(c)
  \/ \E t \in Threads : Advance(t)
  \/ BeginStop \/ EndStop

LocksSpec == LocksInit /\ [][LocksNext]_locksVars

(* Go's mutexes and the connection pool starve nobody; a finalization that *)
(* does not take is retried only by another call.                          *)
Fairness ==
  /\ \A t \in Threads : SF_locksVars(Advance(t))
  /\ WF_locksVars(EndStop)

LocksFairSpec == LocksSpec /\ Fairness

-----------------------------------------------------------------------------
(* Whom a thread waits for: the holder of what it needs, or the flight it  *)
(* has attached to.                                                        *)
WaitsFor(t) ==
  {u \in Threads : \/ at[t] \in NeedMu /\ mu = u
                   \/ at[t] \in NeedGate /\ gate[alias[t]] = u
                   \/ at[t] \in NeedRows /\ rowsMu = u
                   \/ at[t] \in NeedConn /\ conn = u
                   \/ at[t] = "wait" /\ u = alias[t] /\ u \in flights}

(***************************************************************************)
(* Nobody waits in a circle, nor for a thread that is gone: of the threads *)
(* that a call or a flight waits for, directly or through others, one can  *)
(* always go on. A save waits for the gate under m.mu, and the flight that *)
(* holds a gate needs m.mu to land: only the check of m.flights in Commit  *)
(* keeps them apart.                                                       *)
(***************************************************************************)
NoDeadlock ==
  \A T \in SUBSET Threads :
    (\E t \in T : at[t] # "idle") /\ (\A t \in T : WaitsFor(t) \subseteq T) =>
      \E t \in T : at[t] # "idle" /\ WaitsFor(t) = {}

(***************************************************************************)
(* Every handler returns, however calls, flights, removals and a stop      *)
(* interleave.                                                             *)
(***************************************************************************)
CallsReturn == \A c \in Callers : at[c] # "idle" ~> at[c] = "idle"

(***************************************************************************)
(* A stop that has begun ends: nothing admitted hangs on it.               *)
(***************************************************************************)
StopReturns == stop = "waiting" ~> stop = "stopped"

(***************************************************************************)
(* The manager mutex, the alias gates, the row mutex and the one database  *)
(* connection let every handler return and a stop end, under the fairness  *)
(* of mutexes and pool.                                                    *)
(***************************************************************************)
AllReturn == CallsReturn /\ StopReturns

=============================================================================

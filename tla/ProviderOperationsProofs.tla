----------------------- MODULE ProviderOperationsProofs -----------------------
(***************************************************************************)
(* Proofs about ProviderOperations: the inductive invariant, one lemma for *)
(* each of its parts, and the properties that follow from it.              *)
(***************************************************************************)
EXTENDS ProviderInvariant, TLAPS

(***************************************************************************)
(* Constant facts.                                                         *)
(***************************************************************************)
LEMMA ConstantTypes ==
  /\ NoOperation \in OperationRow
  /\ NoRow \in ProviderRow
  /\ NoFlight \in Flight
  /\ IdleCaller \in Caller
  /\ None \notin SecretNames /\ None \notin Versions /\ None \notin Aliases
  /\ \A r \in Requests : r.alias \in Aliases /\ r.credential \in BOOLEAN
                           /\ r.default \in BOOLEAN /\ r.keyless \in BOOLEAN
<1>1. NoOperation \in OperationRow
  BY DEF NoOperation, OperationRow, OperationState
<1>2. NoRow \in ProviderRow
  BY DEF NoRow, ProviderRow
<1>3. NoFlight \in Flight
  BY DEF NoFlight, Flight, FlightPhase
<1>4. IdleCaller \in Caller
  BY DEF IdleCaller, Caller, CallerPhase
<1>5. None \notin SecretNames /\ None \notin Versions /\ None \notin Aliases
  BY NamesAssumption DEF SecretNames
<1>6. \A r \in Requests : r.alias \in Aliases /\ r.credential \in BOOLEAN
                           /\ r.default \in BOOLEAN /\ r.keyless \in BOOLEAN
  BY RequestsAssumption DEF RequestType
<1> QED BY <1>1, <1>2, <1>3, <1>4, <1>5, <1>6

(***************************************************************************)
(* A save and a removal touch an alias the daemon knows.                   *)
(***************************************************************************)
LEMMA TouchedAlias ==
  ASSUME IInv
  PROVE  /\ \A o \in Operations : flight[o].pc # "none" => op[o].alias \in Aliases
         /\ \A c \in Callers : caller[c].pc = "remove" => caller[c].alias \in Aliases
  BY DEF IInv, FlightAgrees, Reservations, CallersKnow

-----------------------------------------------------------------------------
(***************************************************************************)
(* Every variable keeps its type.                                          *)
(***************************************************************************)
LEMMA CallerTypes ==
  ASSUME TypeOK, NEW c \in Callers
  PROVE  /\ \A pc \in CallerPhase : Goto(c, pc) => caller' \in [Callers -> Caller]
         /\ \A pc \in CallerPhase, o \in Operations \cup {None}, a \in Aliases \cup {None} :
              Enter(c, pc, o, a) => caller' \in [Callers -> Caller]
         /\ Return(c) => caller' \in [Callers -> Caller]
  BY ConstantTypes DEF TypeOK, Goto, Enter, Return, Caller

(* A step of one flight keeps the type of all.                             *)
LEMMA FlightTypes ==
  ASSUME TypeOK, NEW o \in Operations, NEW pc \in FlightPhase, FlightGoto(o, pc)
  PROVE  flight' \in [Operations -> Flight]
  BY DEF TypeOK, FlightGoto, Flight

(* A new state keeps the type of the journal.                              *)
LEMMA StateTypes ==
  ASSUME TypeOK, NEW o, NEW state \in OperationState,
         op' = [op EXCEPT ![o].state = state]
  PROVE  op' \in [Operations -> OperationRow]
<1>1. \A p \in Operations : [op[p] EXCEPT !.state = state] \in OperationRow
  BY DEF TypeOK, OperationRow
<1> QED BY <1>1 DEF TypeOK

(* Every step keeps the types.                                             *)
LEMMA TypeStep == ASSUME IInv, [Next]_vars PROVE TypeOK'
<1> USE DEF IInv
<1>1. CASE UNCHANGED vars
  BY <1>1 DEF TypeOK, vars, durable, volatile
<1>2. CASE Crash \/ Exit
  <2>1. flight' \in [Operations -> Flight] /\ caller' \in [Callers -> Caller]
    BY <1>2, ConstantTypes DEF Crash, Exit, ProcessLost
  <2> QED BY <1>2, <2>1 DEF TypeOK, Crash, Exit, ProcessLost, durable, Phases
<1>3. CASE Boot
  BY <1>3 DEF TypeOK, Boot, Phases, ProviderRow
<1>4. CASE Recover
  BY <1>4 DEF TypeOK, Recover, Phases, OperationRow, OperationState, Terminal, Active
<1>5. CASE \E s \in Versions : Sweep(s)
  BY <1>5 DEF TypeOK, Sweep, volatile, SecretNames
<1>6. CASE Serve
  BY <1>6, ConstantTypes DEF TypeOK, Serve, volatile, Phases
<1>7. CASE Stop
  BY <1>7 DEF TypeOK, Stop, durable, volatile, Phases
<1>8. CASE \E c \in Callers, o \in Operations, r \in Requests : CommitNew(c, o, r)
  <2> SUFFICES ASSUME NEW c \in Callers, NEW o \in Operations, NEW r \in Requests,
                      CommitNew(c, o, r)
               PROVE  TypeOK'
    BY <1>8
  <2>1. r.alias \in Aliases /\ r.default \in BOOLEAN /\ r.keyless \in BOOLEAN
    BY ConstantTypes
  <2>2. op' \in [Operations -> OperationRow] /\ used' \subseteq Versions
    BY <2>1 DEF TypeOK, CommitNew, OperationRow, OperationState, Active, Names, SecretNames
  <2>3. flight' \in [Operations -> Flight]
    BY <2>1 DEF TypeOK, CommitNew, Flight, FlightPhase
  <2>4. caller' \in [Callers -> Caller]
    BY <2>1, CallerTypes DEF CommitNew, CallerPhase
  <2>5. flights' \in [Aliases -> Operations \cup {None}]
    BY <2>1 DEF TypeOK, CommitNew
  <2>6. gate' \in [Aliases -> Operations \cup Callers \cup {None}]
    BY <2>1 DEF TypeOK, CommitNew
  <2> QED BY <2>2, <2>3, <2>4, <2>5, <2>6 DEF TypeOK, CommitNew
<1>9. CASE \E c \in Callers, o \in Operations, r \in Requests :
             CommitKnown(c, o, r) \/ CommitBusy(c, o, r) \/ CommitRejected(c, o, r)
  <2> SUFFICES ASSUME NEW c \in Callers, NEW o \in Operations, NEW r \in Requests,
                      CommitKnown(c, o, r) \/ CommitBusy(c, o, r) \/ CommitRejected(c, o, r)
               PROVE  TypeOK'
    BY <1>9
  <2>1. r.alias \in Aliases
    BY ConstantTypes
  <2>2. caller' \in [Callers -> Caller]
    BY <2>1, CallerTypes DEF CommitKnown, CommitBusy, CommitRejected, CallerPhase, Replies
  <2> QED BY <2>2 DEF TypeOK, CommitKnown, CommitBusy, CommitRejected, durable
<1>10. CASE \E c \in Callers : \E o \in Operations : Get(c, o)
  <2> SUFFICES ASSUME NEW c \in Callers, NEW o \in Operations, Get(c, o) PROVE TypeOK'
    BY <1>10
  <2>1. caller' \in [Callers -> Caller]
    BY CallerTypes DEF Get, CallerPhase
  <2> QED BY <2>1 DEF TypeOK, Get, durable
<1>11. CASE \E c \in Callers : \E a \in Aliases : RemoveProvider(c, a)
  <2> SUFFICES ASSUME NEW c \in Callers, NEW a \in Aliases, RemoveProvider(c, a)
               PROVE  TypeOK'
    BY <1>11
  <2>1. caller' \in [Callers -> Caller]
    BY CallerTypes DEF RemoveProvider, CallerPhase
  <2> QED BY <2>1 DEF TypeOK, RemoveProvider, durable
<1>12. CASE \E c \in Callers :
              \/ Reread(c) \/ FlightDone(c) \/ CallReturns(c)
              \/ QueryState(c) \/ QuerySecret(c) \/ QueryAbandons(c)
  <2> SUFFICES ASSUME NEW c \in Callers,
                      \/ Reread(c) \/ FlightDone(c) \/ CallReturns(c)
                      \/ QueryState(c) \/ QuerySecret(c) \/ QueryAbandons(c)
               PROVE  TypeOK'
    BY <1>12
  <2>1. caller[c].op \in Operations \cup {None}
    BY DEF TypeOK, Caller
  <2>2. caller' \in [Callers -> Caller]
    BY <2>1, CallerTypes
    DEF Reread, FlightDone, CallReturns, QueryState, QuerySecret, QueryAbandons,
        CallerPhase, Replies
  <2> QED
    BY <2>2 DEF TypeOK, durable, Reread, FlightDone, CallReturns, QueryState,
                QuerySecret, QueryAbandons
<1>13. CASE \E c \in Callers : QueryRefresh(c)
  <2> SUFFICES ASSUME NEW c \in Callers, QueryRefresh(c) PROVE TypeOK'
    BY <1>13
  <2>1. caller[c].op \in Operations
    BY DEF CallersKnow, QueryRefresh
  <2>2. caller' \in [Callers -> Caller]
    BY CallerTypes DEF QueryRefresh, CallerPhase
  <2>3. redacted' \subseteq SecretNames
    BY <2>1 DEF TypeOK, QueryRefresh, Names, OperationRow
  <2> QED BY <2>2, <2>3 DEF TypeOK, QueryRefresh, durable
<1>14. CASE \E c \in Callers : QueryCommit(c)
  <2> SUFFICES ASSUME NEW c \in Callers, QueryCommit(c) PROVE TypeOK'
    BY <1>14
  <2>1. caller' \in [Callers -> Caller]
    BY CallerTypes DEF QueryCommit
  <2>2. op' \in [Operations -> OperationRow]
    BY StateTypes DEF TypeOK, QueryCommit, OperationState, Terminal
  <2> QED BY <2>1, <2>2 DEF TypeOK, QueryCommit
<1>15. CASE \E c \in Callers : RemoveRow(c)
  <2> SUFFICES ASSUME NEW c \in Callers, RemoveRow(c) PROVE TypeOK'
    BY <1>15
  <2>1. caller[c].alias \in Aliases
    BY TouchedAlias DEF RemoveRow
  <2>2. row' \in [Aliases -> ProviderRow]
    BY <2>1, ConstantTypes DEF TypeOK, RemoveRow
  <2>3. row[caller[c].alias].secret \in SecretNames \cup {None}
    BY <2>1 DEF TypeOK, ProviderRow
  <2>4. queue' \subseteq SecretNames
    BY <2>3 DEF TypeOK, RemoveRow, Names
  <2>5. caller' \in [Callers -> Caller]
    BY CallerTypes DEF RemoveRow
  <2> QED BY <2>1, <2>2, <2>4, <2>5 DEF TypeOK, RemoveRow
<1>16. CASE \E o \in Operations : FlightStore(o) \/ FlightStoreFails(o) \/ FlightPanics(o)
  <2> SUFFICES ASSUME NEW o \in Operations,
                      FlightStore(o) \/ FlightStoreFails(o) \/ FlightPanics(o)
               PROVE  TypeOK'
    BY <1>16
  <2>1. flight[o].pc = "store" => op[o].secret \in SecretNames
    BY DEF TypeOK, FlightAgrees, OperationRow
  <2>2. store' \subseteq SecretNames
    BY <2>1 DEF TypeOK, FlightStore, FlightStoreFails, FlightPanics
  <2>3. redacted' \subseteq SecretNames
    BY DEF TypeOK, FlightStore, FlightStoreFails, FlightPanics, Names, OperationRow
  <2>4. flight' \in [Operations -> Flight]
    BY FlightTypes DEF FlightStore, FlightStoreFails, FlightPanics, FlightPhase
  <2> QED
    BY <2>2, <2>3, <2>4 DEF TypeOK, FlightStore, FlightStoreFails, FlightPanics
<1>17. CASE \E o \in Operations : FlightApply(o)
  <2> SUFFICES ASSUME NEW o \in Operations, FlightApply(o) PROVE TypeOK'
    BY <1>17
  <2>1. op[o].alias \in Aliases
    BY TouchedAlias DEF FlightApply
  <2>2. op[o].secret \in SecretNames \cup {None}
    BY DEF TypeOK, OperationRow
  <2>3. flight[o].default \in BOOLEAN /\ flight[o].keyless \in BOOLEAN
    BY DEF TypeOK, Flight
  <2>4. \A a \in Aliases : row[a] \in ProviderRow
    BY DEF TypeOK
  <2>5. SavedRow(o) \in ProviderRow
    BY <2>1, <2>2, <2>3, <2>4 DEF SavedRow, ProviderRow
  <2>6. \A a \in Aliases : WithoutDefault(a) \in ProviderRow
    BY <2>4 DEF WithoutDefault, ProviderRow
  <2>7. row' \in [Aliases -> ProviderRow]
    BY <2>4, <2>5, <2>6 DEF FlightApply
  <2>8. queue' \subseteq SecretNames
    BY <2>1, <2>4 DEF TypeOK, FlightApply, Names, ProviderRow
  <2>9. op' \in [Operations -> OperationRow]
    BY StateTypes DEF FlightApply, OperationState, Active
  <2>10. flight' \in [Operations -> Flight]
    BY FlightTypes DEF FlightApply, FlightPhase
  <2> QED BY <2>1, <2>7, <2>8, <2>9, <2>10 DEF TypeOK, FlightApply
<1>18. CASE \E o \in Operations :
              \/ FlightApplyFails(o) \/ FlightRefresh(o) \/ FlightCommit(o)
              \/ FlightFinalizeFails(o) \/ FlightFail(o) \/ FlightLand(o)
  <2> SUFFICES ASSUME NEW o \in Operations,
                      \/ FlightApplyFails(o) \/ FlightRefresh(o) \/ FlightCommit(o)
                      \/ FlightFinalizeFails(o) \/ FlightFail(o) \/ FlightLand(o)
               PROVE  TypeOK'
    BY <1>18
  <2>1. op[o].secret \in SecretNames \cup {None}
    BY DEF TypeOK, OperationRow
  <2>2. flight' \in [Operations -> Flight]
    BY FlightTypes
    DEF FlightApplyFails, FlightRefresh, FlightCommit, FlightFinalizeFails,
        FlightFail, FlightLand, FlightPhase
  <2>3. op' \in [Operations -> OperationRow]
    BY StateTypes
    DEF TypeOK, FlightApplyFails, FlightRefresh, FlightCommit, FlightFinalizeFails,
        FlightFail, FlightLand, OperationState, Terminal, durable
  <2>4. queue' \subseteq SecretNames /\ redacted' \subseteq SecretNames
    BY <2>1
    DEF TypeOK, FlightApplyFails, FlightRefresh, FlightCommit, FlightFinalizeFails,
        FlightFail, FlightLand, Names, durable
  <2>5. flights' \in [Aliases -> Operations \cup {None}] /\ stale' \subseteq Aliases
    BY DEF TypeOK, FlightApplyFails, FlightRefresh, FlightCommit,
           FlightFinalizeFails, FlightFail, FlightLand
  <2> QED
    BY <2>2, <2>3, <2>4, <2>5
    DEF TypeOK, FlightApplyFails, FlightRefresh, FlightCommit, FlightFinalizeFails,
        FlightFail, FlightLand, durable
<1>19. CASE \E o \in Operations : FlightRelease(o)
  <2>1. flight' \in [Operations -> Flight]
    BY <1>19, ConstantTypes DEF TypeOK, FlightRelease
  <2> QED BY <1>19, <2>1 DEF TypeOK, FlightRelease, durable
<1>20. CASE \E a \in Aliases : SetDefaultProvider(a)
  <2> SUFFICES ASSUME NEW a \in Aliases, SetDefaultProvider(a) PROVE TypeOK'
    BY <1>20
  <2>1. \A b \in Aliases, d \in BOOLEAN : [row[b] EXCEPT !.default = d] \in ProviderRow
    BY DEF TypeOK, ProviderRow
  <2>2. \A b \in Aliases : (b = a /\ row[b].present) \in BOOLEAN
    BY Zenon
  <2>3. row' \in [Aliases -> ProviderRow]
    BY <2>1, <2>2 DEF SetDefaultProvider
  <2> QED BY <2>3 DEF TypeOK, SetDefaultProvider
<1>21. CASE \E a \in Aliases : UpdateProviderModel(a)
  BY <1>21 DEF TypeOK, UpdateProviderModel, durable
<1>22. CASE DispatchQuery
  BY <1>22 DEF TypeOK, DispatchQuery, durable
<1>23. CASE \E s \in SecretNames : DispatchStart(s)
  BY <1>23 DEF TypeOK, DispatchStart, durable
<1>24. CASE \E s \in SecretNames : CleanStep(s)
  BY <1>24
  DEF TypeOK, CleanStep, CleanCheck, CleanDelete, CleanDrop, CleanFails, CleanerGoto,
      durable
<1>25. CASE Lifecycle
  BY <1>25, <1>2, <1>3, <1>4, <1>5, <1>6, <1>7 DEF Lifecycle
<1>26. CASE \E c \in Callers : Call(c)
  BY <1>26, <1>8, <1>9, <1>10, <1>11 DEF Call
<1>27. CASE \E c \in Callers : Continue(c)
  BY <1>27, <1>12, <1>13, <1>14, <1>15 DEF Continue
<1>28. CASE \E o \in Operations : FlightStep(o)
  BY <1>28, <1>16, <1>17, <1>18, <1>19 DEF FlightStep
<1> QED
  BY <1>1, <1>20, <1>21, <1>22, <1>23, <1>24, <1>25, <1>26, <1>27, <1>28 DEF Next

-----------------------------------------------------------------------------
(***************************************************************************)
(* Before the manager serves nothing runs.                                 *)
(***************************************************************************)
LEMMA QuietStep == ASSUME IInv, [Next]_vars PROVE Quiet'
<1> SUFFICES ASSUME daemon' \in {"down", "starting", "recovered"}
             PROVE  Quiet'
  BY DEF Quiet
<1>1. CASE Crash \/ Exit
  BY <1>1 DEF Crash, Exit, ProcessLost, Quiet
<1>2. CASE Boot \/ Recover \/ \E s \in Versions : Sweep(s)
  BY <1>2 DEF IInv, Quiet, Boot, Recover, Sweep, volatile
<1>3. CASE UNCHANGED vars
  BY <1>3 DEF IInv, Quiet, vars, volatile
<1>4. ASSUME NEW c \in Callers PROVE ~Call(c) /\ ~Continue(c)
  <2>1. ASSUME daemon' = daemon PROVE caller[c].pc = "idle"
    BY <2>1 DEF IInv, Quiet, IdleCaller
  <2> QED
    BY <2>1
    DEF Call, Continue, Admitted, CommitKnown, CommitBusy, CommitNew, CommitRejected,
        Get, RemoveProvider, Reread, FlightDone, CallReturns, QueryState, QuerySecret,
        QueryRefresh, QueryAbandons, QueryCommit, RemoveRow, Replies, durable
<1>5. ASSUME NEW o \in Operations PROVE ~FlightStep(o)
  <2>1. ASSUME daemon' = daemon PROVE flight[o].pc = "none"
    BY <2>1 DEF IInv, Quiet, NoFlight
  <2> QED
    BY <2>1
    DEF FlightStep, FlightStore, FlightStoreFails, FlightApply, FlightApplyFails,
        FlightRefresh, FlightCommit, FlightFinalizeFails, FlightFail, FlightPanics,
        FlightLand, FlightRelease
<1>6. ASSUME NEW s \in SecretNames PROVE ~DispatchStart(s) /\ ~CleanStep(s)
  <2>1. ASSUME daemon' = daemon PROVE cleaning[s] = "idle" /\ batch = {}
    BY <2>1 DEF IInv, Quiet
  <2> QED
    BY <2>1
    DEF DispatchStart, CleanStep, CleanCheck, CleanDelete, CleanDrop, CleanFails
<1> QED
  BY <1>1, <1>2, <1>3, <1>4, <1>5, <1>6
  DEF Next, Lifecycle, Serve, Stop, SetDefaultProvider, UpdateProviderModel,
      DispatchQuery, durable

(***************************************************************************)
(* The journal agrees with the phase of every flight.                      *)
(***************************************************************************)
LEMMA FlightAgreesStep == ASSUME IInv, [Next]_vars PROVE FlightAgrees'
<1> USE DEF FlightAgrees
<1>1. CASE UNCHANGED <<op, flight, store>>
  BY <1>1 DEF IInv
<1>2. CASE Crash \/ Exit
  BY <1>2 DEF Crash, Exit, ProcessLost, NoFlight
<1>3. CASE Recover \/ Serve
  BY <1>3 DEF IInv, Quiet, Recover, Serve, volatile, NoFlight
<1>4. CASE \E c \in Callers, o \in Operations, r \in Requests : CommitNew(c, o, r)
  <2> SUFFICES ASSUME NEW c \in Callers, NEW o \in Operations, NEW r \in Requests,
                      CommitNew(c, o, r)
               PROVE  FlightAgrees'
    BY <1>4
  <2>1. r.credential => op'[o].secret # None
    BY ConstantTypes DEF IInv, TypeOK, CommitNew
  <2>2. ~r.credential => op'[o].secret = None
    BY DEF IInv, TypeOK, CommitNew
  <2> QED BY <2>1, <2>2 DEF IInv, TypeOK, CommitNew
<1>5. CASE \E o \in Operations : FlightStep(o)
  <2> SUFFICES ASSUME NEW o \in Operations, FlightStep(o) PROVE FlightAgrees'
    BY <1>5
  <2>1. CASE FlightStore(o) \/ FlightStoreFails(o)
    <3>1. op' = op /\ store \subseteq store'
      BY <2>1 DEF FlightStore, FlightStoreFails
    <3>2. \A p \in Operations : p # o => flight'[p] = flight[p]
      BY <2>1 DEF IInv, TypeOK, FlightStore, FlightStoreFails, FlightGoto
    <3>3. \/ flight'[o].pc = "apply" /\ op[o].secret \in store'
          \/ flight'[o].pc = "fail"
      BY <2>1 DEF IInv, TypeOK, FlightStore, FlightStoreFails, FlightGoto, Flight
    <3>4. op[o].state = "pending"
      BY <2>1 DEF IInv, FlightStore, FlightStoreFails
    <3> QED BY <3>1, <3>2, <3>3, <3>4 DEF IInv
  <2>4. CASE FlightPanics(o)
    <3>1. op' = op /\ store \subseteq store'
      BY <2>4 DEF FlightPanics
    <3>2. flight'[o].pc = IF op[o].state = "pending" THEN "fail" ELSE "land"
      BY <2>4 DEF IInv, TypeOK, FlightPanics, FlightGoto, Flight
    <3>3. \A p \in Operations : p # o => flight'[p] = flight[p]
      BY <2>4 DEF IInv, TypeOK, FlightPanics, FlightGoto
    <3>4. op[o].state # "absent"
      BY <2>4 DEF IInv, FlightPanics
    <3> QED BY <3>1, <3>2, <3>3, <3>4 DEF IInv
  <2>2. CASE FlightApply(o) \/ FlightCommit(o) \/ FlightFail(o)
    BY <2>2 DEF IInv, TypeOK, FlightApply, FlightCommit, FlightFail, FlightGoto, Flight,
                OperationRow
  <2>3. CASE \/ FlightApplyFails(o) \/ FlightRefresh(o) \/ FlightFinalizeFails(o)
             \/ FlightLand(o) \/ FlightRelease(o)
    BY <2>3 DEF IInv, TypeOK, FlightApplyFails, FlightRefresh, FlightFinalizeFails,
                FlightLand, FlightRelease, FlightGoto, Flight, NoFlight, durable
  <2> QED BY <2>1, <2>2, <2>3, <2>4 DEF FlightStep
<1>6. CASE \E c \in Callers : QueryCommit(c)
  <2> SUFFICES ASSUME NEW c \in Callers, QueryCommit(c) PROVE FlightAgrees'
    BY <1>6
  <2>1. rowsMu = c /\ op[caller[c].op].state = "applied"
    BY DEF IInv, FinalizerHoldsRows, QueryCommit
  <2>2. \A o \in Operations : flight[o].pc \notin {"refresh", "commit"}
    BY <2>1, NamesAssumption DEF IInv, FinalizerHoldsRows
  <2> QED BY <2>1, <2>2 DEF IInv, TypeOK, QueryCommit, OperationRow
<1>7. CASE \E s \in SecretNames : CleanDelete(s) \/ CleanFails(s)
  <2> SUFFICES ASSUME NEW s \in SecretNames, CleanDelete(s) \/ CleanFails(s)
               PROVE  FlightAgrees'
    BY <1>7
  <2>1. CASE store' = store
    BY <2>1 DEF IInv, CleanDelete, CleanFails
  <2>2. CASE cleaning[s] = "delete" /\ store' = store \ {s}
    <3>1. \A o \in Operations : op[o].state = "pending" => op[o].secret # s
      BY <2>2 DEF IInv, DeletionsUnreferenced, Referenced, Reserved, Active
    <3> QED BY <2>2, <3>1 DEF IInv, CleanDelete, CleanFails
  <2> QED BY <2>1, <2>2 DEF CleanDelete, CleanFails
<1>8. CASE Lifecycle
  BY <1>1, <1>2, <1>3, <1>8 DEF Lifecycle, durable, volatile, Boot, Stop, Sweep
<1>9. CASE \E c \in Callers : Call(c) \/ Continue(c)
  BY <1>1, <1>4, <1>6, <1>9
  DEF Call, Continue, durable, CommitKnown, CommitBusy, CommitRejected, Get,
      RemoveProvider, Reread, FlightDone, CallReturns, QueryState, QuerySecret,
      QueryRefresh, QueryAbandons, RemoveRow
<1>10. CASE \E s \in SecretNames : DispatchStart(s) \/ CleanStep(s)
  BY <1>1, <1>7, <1>10 DEF CleanStep, DispatchStart, CleanCheck, CleanDrop, durable
<1> QED
  BY <1>1, <1>5, <1>8, <1>9, <1>10
  DEF Next, vars, durable, volatile, SetDefaultProvider, UpdateProviderModel,
      DispatchQuery

(***************************************************************************)
(* Callers know what they read again: a request names an alias, and only   *)
(* operations are entered for a query.                                     *)
(***************************************************************************)
LEMMA CallersKnowStep == ASSUME IInv, [Next]_vars PROVE CallersKnow'
<1> USE DEF CallersKnow
<1>1. CASE UNCHANGED caller
  BY <1>1 DEF IInv
<1>2. CASE Crash \/ Exit
  BY <1>2 DEF Crash, Exit, ProcessLost, IdleCaller
<1>3. CASE \E c \in Callers : Call(c)
  <2> SUFFICES ASSUME NEW c \in Callers, Call(c) PROVE CallersKnow'
    BY <1>3
  <2>1. \A r \in Requests : r.alias \in Aliases
    BY ConstantTypes
  <2> QED
    BY <2>1 DEF IInv, TypeOK, Call, CommitKnown, CommitBusy, CommitNew, CommitRejected, Get,
                RemoveProvider, Enter, Caller
<1>4. CASE \E c \in Callers : Continue(c)
  BY <1>4
  DEF IInv, TypeOK, Continue, Reread, FlightDone, CallReturns, QueryState, QuerySecret,
      QueryRefresh, QueryAbandons, QueryCommit, RemoveRow, Goto, Enter, Return,
      IdleCaller, Caller
<1> QED
  BY <1>1, <1>2, <1>3, <1>4
  DEF Next, Lifecycle, FlightStep, CleanStep, vars, durable, volatile, Boot, Recover,
      Serve, Stop, Sweep, SetDefaultProvider, UpdateProviderModel, DispatchQuery,
      DispatchStart, CleanCheck, CleanDelete, CleanDrop, CleanFails, FlightStore,
      FlightStoreFails, FlightApply, FlightApplyFails, FlightRefresh, FlightCommit,
      FlightFinalizeFails, FlightFail, FlightPanics, FlightLand, FlightRelease

(***************************************************************************)
(* Only the holder of the row mutex finalizes.                             *)
(***************************************************************************)
LEMMA FinalizerStep == ASSUME IInv, [Next]_vars PROVE FinalizerHoldsRows'
<1> USE DEF FinalizerHoldsRows
<1>1. CASE UNCHANGED <<op, flight, rowsMu, caller>>
  BY <1>1 DEF IInv
<1>2. CASE Crash \/ Exit
  BY <1>2 DEF Crash, Exit, ProcessLost, NoFlight, IdleCaller
<1>3. CASE Recover \/ Serve
  BY <1>3 DEF IInv, Quiet, Recover, Serve, volatile, NoFlight, IdleCaller
<1>4. CASE \E c \in Callers : Call(c)
  <2> SUFFICES ASSUME NEW c \in Callers, Call(c) PROVE FinalizerHoldsRows'
    BY <1>4
  <2>1. UNCHANGED rowsMu /\ caller'[c].pc # "commit"
        /\ \A d \in Callers : d # c => caller'[d] = caller[d]
    BY DEF IInv, TypeOK, Call, CommitKnown, CommitBusy, CommitNew, CommitRejected, Get,
           RemoveProvider, Enter, durable
  <2>2. \A o \in Operations : flight'[o].pc \in {"refresh", "commit"} =>
                                flight[o].pc \in {"refresh", "commit"}
    BY DEF IInv, TypeOK, Call, CommitKnown, CommitBusy, CommitNew, CommitRejected, Get,
           RemoveProvider
  <2>3. \A o \in Operations : op[o].state = "applied" => op'[o] = op[o]
    BY DEF IInv, TypeOK, Call, CommitKnown, CommitBusy, CommitNew, CommitRejected, Get,
           RemoveProvider, durable
  <2>4. \A d \in Callers : caller[d].pc = "commit" => caller[d].op \in Operations
    BY DEF IInv, CallersKnow
  <2> QED BY <2>1, <2>2, <2>3, <2>4 DEF IInv
<1>5. CASE \E c \in Callers : QueryRefresh(c) \/ QueryCommit(c)
  <2> SUFFICES ASSUME NEW c \in Callers, QueryRefresh(c) \/ QueryCommit(c)
               PROVE  FinalizerHoldsRows'
    BY <1>5
  <2>1. \A o \in Operations : flight[o].pc \notin {"refresh", "commit"}
    BY NamesAssumption DEF IInv, FinalizerHoldsRows, QueryRefresh, QueryCommit
  <2>2. \A d \in Callers : d # c => caller[d].pc # "commit"
    BY NamesAssumption DEF IInv, FinalizerHoldsRows, QueryRefresh, QueryCommit
  <2>3. \A d \in Callers : d # c => caller'[d] = caller[d]
    BY DEF IInv, TypeOK, QueryRefresh, QueryCommit, Goto, Return
  <2>4. CASE QueryRefresh(c)
    BY <2>1, <2>2, <2>3, <2>4 DEF IInv, TypeOK, QueryRefresh, Goto, Caller, durable
  <2>5. CASE QueryCommit(c)
    BY <2>1, <2>2, <2>3, <2>5 DEF IInv, TypeOK, QueryCommit, Return, IdleCaller
  <2> QED BY <2>4, <2>5
<1>6. CASE \E c \in Callers :
              \/ Reread(c) \/ FlightDone(c) \/ CallReturns(c) \/ QueryState(c)
              \/ QuerySecret(c) \/ QueryAbandons(c) \/ RemoveRow(c)
  BY <1>6
  DEF IInv, TypeOK, Reread, FlightDone, CallReturns, QueryState, QuerySecret,
      QueryAbandons, RemoveRow, Goto, Enter, Return, IdleCaller, Caller, durable
<1>7. CASE \E o \in Operations : FlightStep(o)
  <2> SUFFICES ASSUME NEW o \in Operations, FlightStep(o) PROVE FinalizerHoldsRows'
    BY <1>7
  <2>1. \A p \in Operations : p # o => flight'[p] = flight[p] /\ op'[p] = op[p]
    BY DEF IInv, TypeOK, FlightStep, FlightStore, FlightStoreFails, FlightApply,
           FlightApplyFails, FlightRefresh, FlightCommit, FlightFinalizeFails, FlightFail,
           FlightPanics, FlightLand, FlightRelease, FlightGoto, durable
  <2>2. UNCHANGED caller
    BY DEF FlightStep, FlightStore, FlightStoreFails, FlightApply,
           FlightApplyFails, FlightRefresh, FlightCommit, FlightFinalizeFails, FlightFail,
           FlightPanics, FlightLand, FlightRelease
  <2>3. CASE \/ FlightStore(o) \/ FlightStoreFails(o) \/ FlightApplyFails(o)
             \/ FlightLand(o) \/ FlightRelease(o)
    <3>1. UNCHANGED <<op, rowsMu>>
      BY <2>3 DEF FlightStore, FlightStoreFails, FlightApplyFails, FlightLand,
                  FlightRelease, durable
    <3>2. flight'[o].pc \notin {"refresh", "commit"}
      BY <2>3 DEF IInv, TypeOK, FlightStore, FlightStoreFails, FlightApplyFails,
                  FlightLand, FlightRelease, FlightGoto, Flight, NoFlight
    <3> QED BY <2>1, <2>2, <3>1, <3>2 DEF IInv
  <2>4. CASE rowsMu = None
    <3>1. \A c \in Callers : caller[c].pc # "commit"
      BY <2>4, NamesAssumption DEF IInv
    <3>2. \A p \in Operations : flight[p].pc \notin {"refresh", "commit"}
      BY <2>4, NamesAssumption DEF IInv
    <3> QED
      BY <2>1, <2>2, <2>4, <3>1, <3>2
      DEF IInv, TypeOK, FlightStep, FlightStore, FlightStoreFails, FlightApply,
          FlightApplyFails, FlightRefresh, FlightCommit, FlightFinalizeFails, FlightFail,
          FlightPanics, FlightLand, FlightRelease, FlightGoto, Flight, NoFlight
  <2>5. CASE /\ rowsMu = o
             /\ \/ FlightRefresh(o) \/ FlightCommit(o) \/ FlightFinalizeFails(o)
                \/ FlightPanics(o)
    <3>1. \A c \in Callers : caller[c].pc # "commit"
      BY <2>5, NamesAssumption DEF IInv
    <3>2. \A p \in Operations : p # o => flight[p].pc \notin {"refresh", "commit"}
      BY <2>5 DEF IInv
    <3> QED
      BY <2>1, <2>2, <2>5, <3>1, <3>2
      DEF IInv, TypeOK, FlightRefresh, FlightCommit, FlightFinalizeFails,
          FlightPanics, FlightGoto, Flight
  <2>6. CASE FlightPanics(o) /\ flight[o].pc = "store"
    BY <2>1, <2>2, <2>6 DEF IInv, TypeOK, FlightPanics, FlightGoto, Flight
  <2>7. flight[o].pc \in {"refresh", "commit"} => rowsMu = o
    BY DEF IInv
  <2> QED
    BY <2>3, <2>4, <2>5, <2>6, <2>7
    DEF FlightStep, FlightApply, FlightRefresh, FlightCommit, FlightFinalizeFails,
        FlightFail, FlightPanics
<1> QED
  BY <1>1, <1>2, <1>3, <1>4, <1>5, <1>6, <1>7
  DEF Next, Lifecycle, Continue, CleanStep, vars, durable, volatile, Boot, Stop,
      Sweep, SetDefaultProvider, UpdateProviderModel, DispatchQuery, DispatchStart,
      CleanCheck, CleanDelete, CleanDrop, CleanFails

(***************************************************************************)
(* The steps that change an operation.                                     *)
(***************************************************************************)
LEMMA OperationChangers ==
  ASSUME [Next]_vars
  PROVE  \/ UNCHANGED op \/ Recover \/ Serve
         \/ \E c \in Callers, p \in Operations, r \in Requests : CommitNew(c, p, r)
         \/ \E p \in Operations : FlightApply(p) \/ FlightCommit(p) \/ FlightFail(p)
         \/ \E c \in Callers : QueryCommit(c)
<1>1. CASE Lifecycle
  BY <1>1 DEF Lifecycle, Crash, Boot, Stop, Exit, Sweep, durable
<1>2. CASE \E c \in Callers : Call(c)
  BY <1>2
  DEF Call, CommitKnown, CommitBusy, CommitRejected, Get, RemoveProvider, durable
<1>3. CASE \E c \in Callers : Continue(c)
  BY <1>3
  DEF Continue, Reread, FlightDone, CallReturns, QueryState, QuerySecret, QueryRefresh,
      QueryAbandons, RemoveRow, durable
<1>4. CASE \E p \in Operations : FlightStep(p)
  BY <1>4
  DEF FlightStep, FlightStore, FlightStoreFails, FlightApplyFails, FlightRefresh,
      FlightFinalizeFails, FlightPanics, FlightLand, FlightRelease, durable
<1> QED
  BY <1>1, <1>2, <1>3, <1>4
  DEF Next, vars, durable, SetDefaultProvider, UpdateProviderModel, DispatchQuery,
      DispatchStart, CleanStep, CleanCheck, CleanDelete, CleanDrop, CleanFails

(***************************************************************************)
(* Every operation keeps its alias and its secret, and shares neither name *)
(* with another operation.                                                 *)
(***************************************************************************)
LEMMA OperationFrame ==
  ASSUME IInv, [Next]_vars, NEW o \in Operations
  PROVE  \/ op'[o].secret = op[o].secret /\ op'[o].alias = op[o].alias
            /\ (op'[o].state = "absent" <=> op[o].state = "absent")
         \/ op'[o] = NoOperation
         \/ op[o].state = "absent" /\ \E c \in Callers, r \in Requests : CommitNew(c, o, r)
<1>1. CASE UNCHANGED op
  BY <1>1
<1>2. CASE Recover
  BY <1>2 DEF IInv, TypeOK, Recover, OperationRow
<1>3. CASE Serve
  BY <1>3 DEF IInv, TypeOK, Serve, OperationRow
<1>4. CASE \E c \in Callers, p \in Operations, r \in Requests : CommitNew(c, p, r)
  <2>1. PICK c \in Callers, p \in Operations, r \in Requests : CommitNew(c, p, r)
    BY <1>4
  <2>2. CASE p = o
    BY <2>1, <2>2 DEF CommitNew
  <2>3. CASE p # o
    BY <2>1, <2>3 DEF IInv, TypeOK, CommitNew
  <2> QED BY <2>2, <2>3
<1>5. CASE \E p \in Operations : FlightApply(p) \/ FlightCommit(p) \/ FlightFail(p)
  BY <1>5
  DEF IInv, TypeOK, FlightAgrees, OperationRow, FlightApply, FlightCommit, FlightFail
<1>6. CASE \E c \in Callers : QueryCommit(c)
  <2>1. PICK c \in Callers : QueryCommit(c)
    BY <1>6
  <2>2. op[caller[c].op].state = "applied"
    BY <2>1 DEF IInv, FinalizerHoldsRows, QueryCommit
  <2> QED BY <2>1, <2>2 DEF IInv, TypeOK, QueryCommit, OperationRow
<1> QED BY <1>1, <1>2, <1>3, <1>4, <1>5, <1>6, OperationChangers

(* A name that was reserved once stays reserved for ever.                  *)
LEMMA UsedGrows == ASSUME [Next]_vars PROVE used \subseteq used'
<1>1. CASE UNCHANGED used
  BY <1>1
<1>2. CASE \E c \in Callers, o \in Operations, r \in Requests : CommitNew(c, o, r)
  <2>1. PICK c \in Callers, o \in Operations, r \in Requests : CommitNew(c, o, r)
    BY <1>2
  <2>2. \E s : used' = used \cup Names(s)
    BY <2>1 DEF CommitNew
  <2> QED BY <2>2
<1>3. CASE Lifecycle
  BY <1>3 DEF Lifecycle, durable, volatile, Crash, Boot, Recover, Serve, Stop, Exit, Sweep
<1>4. CASE \E c \in Callers : Call(c)
  BY <1>2, <1>4
  DEF Call, CommitKnown, CommitBusy, CommitRejected, Get, RemoveProvider, durable
<1>5. CASE \E c \in Callers : Continue(c)
  BY <1>5
  DEF Continue, Reread, FlightDone, CallReturns, QueryState, QuerySecret, QueryRefresh,
      QueryAbandons, QueryCommit, RemoveRow, durable
<1>6. CASE \E o \in Operations : FlightStep(o)
  BY <1>6
  DEF FlightStep, FlightStore, FlightStoreFails, FlightApply, FlightApplyFails,
      FlightRefresh, FlightCommit, FlightFinalizeFails, FlightFail, FlightPanics,
      FlightLand, FlightRelease, durable
<1> QED
  BY <1>1, <1>3, <1>4, <1>5, <1>6
  DEF Next, vars, durable, SetDefaultProvider, UpdateProviderModel, DispatchQuery,
      DispatchStart, CleanStep, CleanCheck, CleanDelete, CleanDrop, CleanFails

(* Every step keeps reservations exclusive: only CommitNew makes one.      *)
LEMMA ReservationsStep == ASSUME IInv, [Next]_vars PROVE Reservations'
<1> USE DEF Reservations
<1>1. CASE \E c \in Callers, o \in Operations, r \in Requests : CommitNew(c, o, r)
  <2> SUFFICES ASSUME NEW c \in Callers, NEW o \in Operations, NEW r \in Requests,
                      CommitNew(c, o, r)
               PROVE  Reservations'
    BY <1>1
  <2>1. /\ \A p \in Operations : p # o => op'[p] = op[p]
        /\ op'[o].state = "pending" /\ op'[o].alias = r.alias
        /\ op'[o].secret = None \/ op'[o].secret \in Versions \ used
        /\ used' = used \cup Names(op'[o].secret)
    BY DEF IInv, TypeOK, CommitNew
  <2>2. r.alias \in Aliases
    BY ConstantTypes
  <2>3. \A p \in Operations : op[p].secret \in used \cup {None}
    BY DEF IInv
  <2>4. \A p \in Operations : op'[p].secret \in used' \cup {None}
    BY <2>1, <2>3 DEF Names
  <2>5. \A p, q \in Operations :
          p # q /\ op'[p].secret = op'[q].secret => op'[p].secret = None
    BY <2>1, <2>3 DEF IInv
  <2>6. \A p \in Operations : op'[p].state = "absent" => op'[p] = NoOperation
    BY <2>1 DEF IInv
  <2>7. \A p \in Operations : op'[p].state # "absent" => op'[p].alias \in Aliases
    BY <2>1, <2>2 DEF IInv
  <2> QED BY <2>4, <2>5, <2>6, <2>7
<1>2. CASE ~ \E c \in Callers, o \in Operations, r \in Requests : CommitNew(c, o, r)
  <2>1. \A o \in Operations :
          \/ op'[o].secret = op[o].secret /\ op'[o].alias = op[o].alias
             /\ (op'[o].state = "absent" <=> op[o].state = "absent")
          \/ op'[o] = NoOperation
    BY <1>2, OperationFrame
  <2>2. \A o \in Operations : op'[o] \in OperationRow
    BY TypeStep DEF TypeOK
  <2>3. \A o \in Operations : op'[o].state = "absent" => op'[o] = NoOperation
    BY <2>1, <2>2 DEF IInv, OperationRow, NoOperation
  <2>4. \A o \in Operations : op'[o].state # "absent" => op'[o].alias \in Aliases
    BY <2>1 DEF IInv, NoOperation
  <2>5. \A o \in Operations : op'[o].secret \in used' \cup {None}
    BY <2>1, UsedGrows DEF IInv, NoOperation
  <2>6. \A o, p \in Operations :
          o # p /\ op'[o].secret = op'[p].secret => op'[o].secret = None
    BY <2>1 DEF IInv, NoOperation
  <2> QED BY <2>3, <2>4, <2>5, <2>6
<1> QED BY <1>1, <1>2

(***************************************************************************)
(* A name that was never reserved occurs in no row, queue or store.        *)
(***************************************************************************)
LEMMA FreshNamesStep == ASSUME IInv, [Next]_vars PROVE FreshNamesUnused'
<1> USE DEF FreshNamesUnused
<1>1. CASE UNCHANGED <<row, queue, batch, store, cleaning>>
  BY <1>1, UsedGrows DEF IInv, Cleaners
<1>2. CASE Crash \/ Exit
  BY <1>2 DEF IInv, Crash, Exit, ProcessLost, durable, Cleaners
<1>3. CASE Boot
  BY <1>3 DEF IInv, TypeOK, ProviderRow, Boot, Cleaners
<1>4. CASE \E s \in Versions : Sweep(s)
  BY <1>4 DEF IInv, Sweep, Orphans, volatile, Cleaners
<1>5. CASE \E o \in Operations : FlightStore(o) \/ FlightStoreFails(o) \/ FlightPanics(o)
  <2> SUFFICES ASSUME NEW o \in Operations,
                      FlightStore(o) \/ FlightStoreFails(o) \/ FlightPanics(o)
               PROVE  FreshNamesUnused'
    BY <1>5
  <2>1. flight[o].pc = "store" => op[o].secret \in used
    BY DEF IInv, FlightAgrees, Reservations
  <2>2. store' \subseteq used \cup Aliases
    BY <2>1 DEF IInv, FlightStore, FlightStoreFails, FlightPanics
  <2> QED BY <2>2 DEF IInv, FlightStore, FlightStoreFails, FlightPanics, Cleaners
<1>6. CASE \E o \in Operations : FlightApply(o)
  <2> SUFFICES ASSUME NEW o \in Operations, FlightApply(o) PROVE FreshNamesUnused'
    BY <1>6
  <2>1. op[o].alias \in Aliases
    BY TouchedAlias DEF FlightApply
  <2>2. op[o].secret \in used \cup {None}
    BY DEF IInv, Reservations
  <2>3. \A a \in Aliases : WithoutDefault(a).secret = row[a].secret
    BY DEF IInv, TypeOK, ProviderRow, WithoutDefault
  <2>4. SavedRow(o).secret \in used \cup Aliases \cup {None}
    BY <2>1, <2>2 DEF IInv, SavedRow
  <2>5. \A a \in Aliases : row'[a].secret \in used \cup Aliases \cup {None}
    BY <2>3, <2>4 DEF IInv, FlightApply
  <2>6. queue' \subseteq used \cup Aliases
    BY <2>1 DEF IInv, FlightApply, Names
  <2> QED BY <2>5, <2>6 DEF IInv, FlightApply, Cleaners
<1>7. CASE \E o \in Operations : FlightFail(o)
  BY <1>7 DEF IInv, Reservations, FlightFail, Names, Cleaners
<1>8. CASE \E c \in Callers : RemoveRow(c)
  <2> SUFFICES ASSUME NEW c \in Callers, RemoveRow(c) PROVE FreshNamesUnused'
    BY <1>8
  <2>1. caller[c].alias \in Aliases
    BY TouchedAlias DEF RemoveRow
  <2>2. queue' \subseteq used \cup Aliases
    BY <2>1 DEF IInv, RemoveRow, Names
  <2>3. \A a \in Aliases : row'[a].secret \in used \cup Aliases \cup {None}
    BY <2>1 DEF IInv, TypeOK, RemoveRow, NoRow
  <2> QED BY <2>2, <2>3 DEF IInv, RemoveRow, Cleaners
<1>9. CASE \E a \in Aliases : SetDefaultProvider(a)
  BY <1>9 DEF IInv, TypeOK, ProviderRow, SetDefaultProvider, Cleaners
<1>10. CASE DispatchQuery
  BY <1>10 DEF IInv, DispatchQuery, durable, Cleaners
<1>11. CASE \E s \in SecretNames : DispatchStart(s) \/ CleanStep(s)
  <2> SUFFICES ASSUME NEW s \in SecretNames, DispatchStart(s) \/ CleanStep(s)
               PROVE  FreshNamesUnused'
    BY <1>11
  <2>1. Cleaners' \subseteq Cleaners \cup batch
    BY DEF IInv, TypeOK, DispatchStart, CleanStep, CleanCheck, CleanDelete, CleanDrop,
           CleanFails, CleanerGoto, Cleaners
  <2>2. queue' \subseteq queue /\ batch' \subseteq batch /\ store' \subseteq store
    BY DEF DispatchStart, CleanStep, CleanCheck, CleanDelete, CleanDrop, CleanFails,
           durable
  <2>3. UNCHANGED <<row, used>>
    BY DEF DispatchStart, CleanStep, CleanCheck, CleanDelete, CleanDrop, CleanFails,
           durable
  <2> QED BY <2>1, <2>2, <2>3 DEF IInv
<1>12. CASE Lifecycle
  BY <1>1, <1>2, <1>3, <1>4, <1>12 DEF Lifecycle, volatile, Recover, Serve, Stop, durable
<1>13. CASE \E c \in Callers : Call(c)
  BY <1>1, <1>13
  DEF Call, CommitKnown, CommitBusy, CommitNew, CommitRejected, Get, RemoveProvider,
      durable
<1>14. CASE \E c \in Callers : Continue(c)
  BY <1>1, <1>8, <1>14
  DEF Continue, Reread, FlightDone, CallReturns, QueryState, QuerySecret, QueryRefresh,
      QueryAbandons, QueryCommit, durable
<1>15. CASE \E o \in Operations : FlightStep(o)
  BY <1>1, <1>5, <1>6, <1>7, <1>15
  DEF FlightStep, FlightApplyFails, FlightRefresh, FlightCommit, FlightFinalizeFails,
      FlightLand, FlightRelease, durable
<1> QED
  BY <1>1, <1>9, <1>10, <1>11, <1>12, <1>13, <1>14, <1>15
  DEF Next, vars, durable, volatile, UpdateProviderModel

(***************************************************************************)
(* A row changes its secret only by losing it or in the transaction that   *)
(* applies a save.                                                         *)
(***************************************************************************)
LEMMA RowSecrets ==
  ASSUME IInv, [Next]_vars, NEW a \in Aliases
  PROVE  \/ row'[a].secret \in {row[a].secret, None}
         \/ \E o \in Operations : FlightApply(o) /\ row'[a].secret = op[o].secret
<1>1. CASE UNCHANGED row
  BY <1>1
<1>2. CASE Boot
  BY <1>2 DEF IInv, TypeOK, ProviderRow, Boot
<1>3. CASE \E o \in Operations : FlightApply(o)
  <2>1. PICK o \in Operations : FlightApply(o)
    BY <1>3
  <2>2. WithoutDefault(a).secret = row[a].secret
    BY DEF IInv, TypeOK, ProviderRow, WithoutDefault
  <2>3. a = op[o].alias => SavedRow(o).secret \in {row[a].secret, op[o].secret}
    BY DEF SavedRow
  <2> QED BY <2>1, <2>2, <2>3 DEF FlightApply
<1>4. CASE \E c \in Callers : RemoveRow(c)
  BY <1>4, TouchedAlias DEF IInv, TypeOK, RemoveRow, NoRow
<1>5. CASE \E b \in Aliases : SetDefaultProvider(b)
  BY <1>5 DEF IInv, TypeOK, ProviderRow, SetDefaultProvider
<1>6. CASE Lifecycle
  BY <1>1, <1>2, <1>6 DEF Lifecycle, Crash, Recover, Serve, Stop, Exit, Sweep, durable
<1>7. CASE \E c \in Callers : Call(c)
  BY <1>1, <1>7
  DEF Call, CommitKnown, CommitBusy, CommitNew, CommitRejected, Get, RemoveProvider,
      durable
<1>8. CASE \E c \in Callers : Continue(c)
  BY <1>1, <1>4, <1>8
  DEF Continue, Reread, FlightDone, CallReturns, QueryState, QuerySecret, QueryRefresh,
      QueryAbandons, QueryCommit, durable
<1>9. CASE \E o \in Operations : FlightStep(o)
  BY <1>1, <1>3, <1>9
  DEF FlightStep, FlightStore, FlightStoreFails, FlightApplyFails, FlightRefresh,
      FlightCommit, FlightFinalizeFails, FlightFail, FlightPanics, FlightLand,
      FlightRelease, durable
<1> QED
  BY <1>1, <1>5, <1>6, <1>7, <1>8, <1>9
  DEF Next, vars, durable, UpdateProviderModel, DispatchQuery, DispatchStart, CleanStep,
      CleanCheck, CleanDelete, CleanDrop, CleanFails

(***************************************************************************)
(* How the state of an operation changes.                                  *)
(***************************************************************************)
LEMMA StateChanges ==
  ASSUME IInv, [Next]_vars, NEW o \in Operations, op'[o].state # op[o].state
  PROVE  \/ /\ Recover
            /\ \/ op[o].state = "pending" /\ op'[o].state = "failed"
               \/ op[o].state = "applied" /\ op'[o].state = "committed"
         \/ Serve /\ op[o].state \in Terminal /\ op'[o].state = "absent"
         \/ \E c \in Callers, r \in Requests :
              CommitNew(c, o, r) /\ op[o].state = "absent" /\ op'[o].state = "pending"
         \/ FlightApply(o) /\ op[o].state = "pending" /\ op'[o].state = "applied"
         \/ FlightFail(o) /\ op[o].state = "pending" /\ op'[o].state = "failed"
         \/ FlightCommit(o) /\ op[o].state = "applied" /\ op'[o].state = "committed"
         \/ \E c \in Callers : QueryCommit(c) /\ caller[c].op = o
              /\ op[o].state = "applied" /\ op'[o].state = "committed"
<1>1. CASE Recover
  <2>1. PICK finalized \in SUBSET {p \in Operations : op[p].state = "applied"} :
          op' = [p \in Operations |->
                   IF op[p].state = "pending"
                   THEN [op[p] EXCEPT !.state = "failed"]
                   ELSE IF p \in finalized
                   THEN [op[p] EXCEPT !.state = "committed"]
                   ELSE op[p]]
    BY <1>1 DEF Recover
  <2> QED BY <1>1, <2>1 DEF IInv, TypeOK, OperationRow
<1>2. CASE Serve
  <2>1. PICK expired \in SUBSET {p \in Operations : op[p].state \in Terminal} :
          op' = [p \in Operations |-> IF p \in expired THEN NoOperation ELSE op[p]]
    BY <1>2 DEF Serve
  <2> QED BY <1>2, <2>1 DEF NoOperation
<1>3. CASE \E c \in Callers, p \in Operations, r \in Requests : CommitNew(c, p, r)
  <2>1. PICK c \in Callers, p \in Operations, r \in Requests : CommitNew(c, p, r)
    BY <1>3
  <2>2. p = o
    BY <2>1 DEF IInv, TypeOK, CommitNew
  <2>3. op[o].state = "absent" /\ op'[o].state = "pending"
    BY <2>1, <2>2 DEF IInv, TypeOK, CommitNew
  <2> QED BY <2>1, <2>2, <2>3
<1>4. CASE \E p \in Operations : FlightApply(p) \/ FlightFail(p) \/ FlightCommit(p)
  <2>1. PICK p \in Operations : FlightApply(p) \/ FlightFail(p) \/ FlightCommit(p)
    BY <1>4
  <2>2. p = o
    BY <2>1 DEF IInv, TypeOK, FlightApply, FlightFail, FlightCommit
  <2> QED
    BY <2>1, <2>2
    DEF IInv, TypeOK, OperationRow, FlightAgrees, FlightApply, FlightFail, FlightCommit
<1>5. CASE \E c \in Callers : QueryCommit(c)
  <2>1. PICK c \in Callers : QueryCommit(c)
    BY <1>5
  <2>2. op[caller[c].op].state = "applied"
    BY <2>1 DEF IInv, FinalizerHoldsRows, QueryCommit
  <2>3. caller[c].op = o
    BY <2>1 DEF IInv, TypeOK, QueryCommit
  <2> QED BY <2>1, <2>2, <2>3 DEF IInv, TypeOK, QueryCommit, OperationRow
<1> QED BY <1>1, <1>2, <1>3, <1>4, <1>5, OperationChangers

(***************************************************************************)
(* No step refers to a name that nothing referred to, but the insertion of *)
(* an operation with a fresh one.                                          *)
(***************************************************************************)
LEMMA ReferencesShrink ==
  ASSUME IInv, [Next]_vars, NEW s \in SecretNames, Referenced(s)'
  PROVE  Referenced(s) \/ s \in Versions \ used
<1>1. CASE ReferencedByRow(s)'
  <2>1. PICK a \in Aliases : row'[a].secret = s
    BY <1>1 DEF ReferencedByRow
  <2>2. CASE row'[a].secret = row[a].secret
    BY <2>1, <2>2 DEF Referenced, ReferencedByRow
  <2>3. CASE \E o \in Operations : FlightApply(o) /\ row'[a].secret = op[o].secret
    BY <2>1, <2>3
    DEF IInv, FlightAgrees, FlightApply, Referenced, Reserved, Active
  <2> QED BY <2>1, <2>2, <2>3, RowSecrets, ConstantTypes
<1>2. CASE Reserved(s)'
  <2>1. PICK o \in Operations : op'[o].state \in Active /\ op'[o].secret = s
    BY <1>2 DEF Reserved
  <2>2. CASE \E c \in Callers, r \in Requests : CommitNew(c, o, r)
    BY <2>1, <2>2, ConstantTypes DEF IInv, TypeOK, CommitNew
  <2>3. CASE ~ \E c \in Callers, r \in Requests : CommitNew(c, o, r)
    <3>1. op'[o].secret = op[o].secret
      BY <2>1, <2>3, OperationFrame, ConstantTypes DEF NoOperation
    <3>2. op[o].state \in Active
      BY <2>1, <2>3, StateChanges DEF Active, Terminal
    <3> QED BY <2>1, <3>1, <3>2 DEF Referenced, Reserved
  <2> QED BY <2>2, <2>3
<1> QED BY <1>1, <1>2 DEF Referenced

(***************************************************************************)
(* The race of cleanupSecret is harmless: what a worker found unreferenced *)
(* cannot be referenced again before it deletes it.                        *)
(***************************************************************************)
LEMMA DeletionsStep == ASSUME IInv, [Next]_vars PROVE DeletionsUnreferenced'
<1> SUFFICES ASSUME NEW s \in SecretNames, cleaning'[s] = "delete", Referenced(s)'
             PROVE  FALSE
  BY DEF DeletionsUnreferenced
<1>1. \/ cleaning[s] = "delete"
      \/ CleanCheck(s) /\ ~Referenced(s)
  <2>1. CASE UNCHANGED cleaning
    BY <2>1
  <2>2. CASE Crash \/ Exit
    BY <2>2 DEF Crash, Exit, ProcessLost
  <2>3. CASE \E t \in SecretNames : DispatchStart(t) \/ CleanDelete(t) \/ CleanDrop(t) \/ CleanFails(t)
    BY <2>3
    DEF IInv, TypeOK, DispatchStart, CleanDelete, CleanDrop, CleanFails, CleanerGoto
  <2>4. CASE \E t \in SecretNames : CleanCheck(t)
    BY <2>4 DEF IInv, TypeOK, CleanCheck, CleanerGoto
  <2>5. CASE Lifecycle
    BY <2>1, <2>2, <2>5 DEF Lifecycle, Boot, Recover, Serve, Stop, Sweep, volatile
  <2>6. CASE \E c \in Callers : Call(c)
    BY <2>1, <2>6
    DEF Call, CommitKnown, CommitBusy, CommitNew, CommitRejected, Get, RemoveProvider
  <2>7. CASE \E c \in Callers : Continue(c)
    BY <2>1, <2>7
    DEF Continue, Reread, FlightDone, CallReturns, QueryState, QuerySecret, QueryRefresh,
        QueryAbandons, QueryCommit, RemoveRow
  <2>8. CASE \E o \in Operations : FlightStep(o)
    BY <2>1, <2>8
    DEF FlightStep, FlightStore, FlightStoreFails, FlightApply, FlightApplyFails,
        FlightRefresh, FlightCommit, FlightFinalizeFails, FlightFail, FlightPanics,
        FlightLand, FlightRelease
  <2> QED
    BY <2>1, <2>3, <2>4, <2>5, <2>6, <2>7, <2>8
    DEF Next, vars, volatile, CleanStep, SetDefaultProvider, UpdateProviderModel,
        DispatchQuery
<1>2. CASE cleaning[s] = "delete"
  <2>1. ~Referenced(s)
    BY <1>2 DEF IInv, DeletionsUnreferenced
  <2>2. s \in used \cup Aliases
    BY <1>2 DEF IInv, FreshNamesUnused, Cleaners
  <2> QED BY <2>1, <2>2, ReferencesShrink, NamesAssumption
<1>3. CASE CleanCheck(s) /\ ~Referenced(s)
  BY <1>3 DEF CleanCheck, durable, Referenced, ReferencedByRow, Reserved
<1> QED BY <1>1, <1>2, <1>3

(***************************************************************************)
(* The secret of a save that was not applied is in no row.                 *)
(***************************************************************************)
LEMMA UnappliedStep == ASSUME IInv, [Next]_vars PROVE UnappliedUnused'
<1> SUFFICES ASSUME NEW o \in Operations, op'[o].state \in {"pending", "failed"},
                    op'[o].secret # None, NEW a \in Aliases,
                    row'[a].secret = op'[o].secret
             PROVE  FALSE
  BY DEF UnappliedUnused, ReferencedByRow
<1>1. CASE \E c \in Callers, r \in Requests : CommitNew(c, o, r)
  BY <1>1, NamesAssumption
  DEF IInv, TypeOK, FreshNamesUnused, CommitNew
<1>2. CASE ~ \E c \in Callers, r \in Requests : CommitNew(c, o, r)
  <2>1. op'[o].secret = op[o].secret
    BY <1>2, OperationFrame DEF NoOperation
  <2>2. op[o].state \in {"pending", "failed"}
    BY <1>2, StateChanges
  <2>3. row[a].secret # op[o].secret
    BY <2>1, <2>2 DEF IInv, UnappliedUnused, ReferencedByRow
  <2>4. PICK p \in Operations : FlightApply(p) /\ row'[a].secret = op[p].secret
    BY <2>1, <2>3, RowSecrets
  <2>5. p = o
    BY <2>1, <2>4 DEF IInv, Reservations
  <2> QED BY <2>4, <2>5 DEF IInv, TypeOK, OperationRow, FlightApply
<1> QED BY <1>1, <1>2

(***************************************************************************)
(* Credentials stay readable.                                              *)
(***************************************************************************)
LEMMA StoreShrinks ==
  ASSUME IInv, [Next]_vars, NEW s \in store \ store'
  PROVE  /\ ~Referenced(s)
         /\ UNCHANGED <<op, row>>
<1>1. CASE \E t \in SecretNames : CleanDelete(t) \/ CleanFails(t)
  BY <1>1 DEF IInv, DeletionsUnreferenced, CleanDelete, CleanFails
<1>2. CASE store \subseteq store'
  BY <1>2
<1>3. CASE Lifecycle
  BY <1>2, <1>3
  DEF Lifecycle, Crash, Boot, Recover, Serve, Stop, Exit, Sweep, durable
<1>4. CASE \E c \in Callers : Call(c)
  BY <1>2, <1>4
  DEF Call, CommitKnown, CommitBusy, CommitNew, CommitRejected, Get, RemoveProvider,
      durable
<1>5. CASE \E c \in Callers : Continue(c)
  BY <1>2, <1>5
  DEF Continue, Reread, FlightDone, CallReturns, QueryState, QuerySecret, QueryRefresh,
      QueryAbandons, QueryCommit, RemoveRow, durable
<1>6. CASE \E o \in Operations : FlightStep(o)
  BY <1>2, <1>6
  DEF FlightStep, FlightStore, FlightStoreFails, FlightApply, FlightApplyFails,
      FlightRefresh, FlightCommit, FlightFinalizeFails, FlightFail, FlightPanics,
      FlightLand, FlightRelease, durable
<1> QED
  BY <1>1, <1>2, <1>3, <1>4, <1>5, <1>6
  DEF Next, vars, durable, SetDefaultProvider, UpdateProviderModel, DispatchQuery,
      DispatchStart, CleanStep, CleanCheck, CleanDrop

(* Every step keeps the credentials in use readable.                       *)
LEMMA CredentialStep == ASSUME IInv, [Next]_vars PROVE CredentialAvailable'
<1>1. CASE store \subseteq store'
  <2>1. ASSUME NEW a \in Aliases PROVE row'[a].secret \in store' \cup {None}
    <3>1. CASE row'[a].secret \in {row[a].secret, None}
      BY <1>1, <3>1 DEF IInv, CredentialAvailable
    <3>2. CASE \E o \in Operations : FlightApply(o) /\ row'[a].secret = op[o].secret
      BY <1>1, <3>2 DEF IInv, FlightAgrees, FlightApply
    <3> QED BY <3>1, <3>2, RowSecrets
  <2>2. ASSUME NEW o \in Operations, op'[o].state = "applied"
        PROVE  op'[o].secret \in store' \cup {None}
    <3>1. op'[o].secret = op[o].secret
      BY <2>2, OperationFrame, StateChanges DEF NoOperation
    <3>2. op[o].state = "applied" \/ FlightApply(o)
      BY <2>2, StateChanges
    <3> QED
      BY <1>1, <3>1, <3>2 DEF IInv, CredentialAvailable, FlightAgrees, FlightApply
  <2> QED BY <2>1, <2>2 DEF CredentialAvailable
<1>2. CASE ~(store \subseteq store')
  <2>1. UNCHANGED <<op, row>>
    BY <1>2, StoreShrinks
  <2>2. \A s \in store : Referenced(s) => s \in store'
    BY StoreShrinks
  <2>3. ASSUME NEW a \in Aliases PROVE row'[a].secret \in store' \cup {None}
    BY <2>1, <2>2 DEF IInv, CredentialAvailable, Referenced, ReferencedByRow
  <2>4. ASSUME NEW o \in Operations, op'[o].state = "applied"
        PROVE  op'[o].secret \in store' \cup {None}
    BY <2>1, <2>2, <2>4 DEF IInv, CredentialAvailable, Referenced, Reserved, Active
  <2> QED BY <2>3, <2>4 DEF CredentialAvailable
<1> QED BY <1>1, <1>2

-----------------------------------------------------------------------------
(***************************************************************************)
(* The invariant is inductive.                                             *)
(***************************************************************************)
LEMMA InitInvariant == ASSUME Init PROVE IInv
<1>1. PICK legacy \in SUBSET Legacy :
        /\ row = [a \in Aliases |->
                    IF a \in legacy
                    THEN [NoRow EXCEPT !.present = TRUE, !.secret = a]
                    ELSE NoRow]
        /\ store = legacy
  BY DEF Init
<1>2. legacy \subseteq Aliases
  BY LegacyAssumption
<1>3. TypeOK
  <2>1. \A a \in Aliases : row[a] \in ProviderRow
    BY <1>1, <1>2 DEF NoRow, ProviderRow, SecretNames
  <2>2. row \in [Aliases -> ProviderRow]
    BY <1>1, <2>1
  <2>3. /\ op \in [Operations -> OperationRow]
        /\ flight \in [Operations -> Flight]
        /\ caller \in [Callers -> Caller]
    BY ConstantTypes DEF Init, FreshProcess
  <2> QED BY <1>1, <1>2, <2>2, <2>3 DEF TypeOK, Init, FreshProcess, Phases, SecretNames
<1>4. \A a \in Aliases : row[a].secret \in legacy \cup {None}
  BY <1>1 DEF NoRow
<1>5. Quiet /\ FlightAgrees /\ FinalizerHoldsRows /\ CallersKnow
  BY DEF Init, FreshProcess, Quiet, FlightAgrees, FinalizerHoldsRows, CallersKnow,
         NoFlight, IdleCaller
<1>6. Reservations /\ UnappliedUnused
  BY DEF Init, Reservations, UnappliedUnused, NoOperation
<1>7. FreshNamesUnused
  BY <1>1, <1>2, <1>4 DEF Init, FreshProcess, FreshNamesUnused, Cleaners
<1>8. DeletionsUnreferenced
  BY DEF Init, FreshProcess, DeletionsUnreferenced
<1>9. CredentialAvailable
  BY <1>1, <1>4 DEF Init, CredentialAvailable, NoOperation
<1> QED BY <1>3, <1>5, <1>6, <1>7, <1>8, <1>9 DEF IInv

(* Every step keeps all parts of the invariant.                            *)
LEMMA NextInvariant == ASSUME IInv, [Next]_vars PROVE IInv'
  BY TypeStep, QuietStep, FlightAgreesStep, FinalizerStep, CallersKnowStep,
     ReservationsStep, FreshNamesStep, DeletionsStep, UnappliedStep, CredentialStep
  DEF IInv

(***************************************************************************)
(* Every reachable state satisfies the inductive invariant.                *)
(***************************************************************************)
THEOREM Invariance == Spec => []IInv
<1>1. Init => IInv
  BY InitInvariant
<1>2. IInv /\ [Next]_vars => IInv'
  BY NextInvariant
<1> QED BY <1>1, <1>2, PTL DEF Spec

-----------------------------------------------------------------------------
(***************************************************************************)
(* The variables keep their types.                                         *)
(***************************************************************************)
THEOREM TypeCorrect == Spec => []TypeOK
<1>1. IInv => TypeOK
  BY DEF IInv
<1> QED BY <1>1, Invariance, PTL

(***************************************************************************)
(* The credential of every provider row and of every applied save can be   *)
(* read, whatever saves, removals, cleanup workers and restarts do.        *)
(***************************************************************************)
THEOREM CredentialsSurvive == Spec => []CredentialAvailable
<1>1. IInv => CredentialAvailable
  BY DEF IInv
<1> QED BY <1>1, Invariance, PTL

(***************************************************************************)
(* A save reported as failed left nothing behind in a provider row.        *)
(***************************************************************************)
THEOREM FailureHasNoEffect == Spec => []FailedSaveHasNoEffect
<1>1. IInv => FailedSaveHasNoEffect
  BY DEF IInv, UnappliedUnused, FailedSaveHasNoEffect
<1> QED BY <1>1, Invariance, PTL

(***************************************************************************)
(* The secret store loses only names that nothing refers to.               *)
(***************************************************************************)
THEOREM DeletionsAreSafe == Spec => OnlyUnreferencedDeleted
<1>1. IInv /\ [Next]_vars => [\A s \in store \ store' : ~Referenced(s)]_vars
  BY StoreShrinks
<1> QED BY <1>1, Invariance, PTL DEF Spec, OnlyUnreferencedDeleted

(***************************************************************************)
(* An operation only goes forward: first write wins, an applied save never *)
(* fails, and a terminal one is only ever pruned by a restart.             *)
(***************************************************************************)
THEOREM OperationsGoForward == Spec => OperationLifecycle
<1>1. ASSUME IInv, [Next]_vars, NEW o \in Operations
      PROVE  LifecycleStep(op[o].state, op'[o].state, daemon = "recovered")
  <2>1. CASE op'[o].state = op[o].state
    BY <2>1 DEF LifecycleStep
  <2>2. CASE op'[o].state # op[o].state
    <3>1. \/ op[o].state = "absent" /\ op'[o].state = "pending"
          \/ op[o].state = "pending" /\ op'[o].state \in {"applied", "failed"}
          \/ op[o].state = "applied" /\ op'[o].state = "committed"
          \/ Serve /\ op[o].state \in Terminal /\ op'[o].state = "absent"
      BY <1>1, <2>2, StateChanges
    <3>2. Serve => daemon = "recovered"
      BY DEF Serve
    <3> QED BY <3>1, <3>2 DEF LifecycleStep
  <2> QED BY <2>1, <2>2
<1>2. IInv /\ [Next]_vars =>
        [\A o \in Operations :
           LifecycleStep(op[o].state, op'[o].state, daemon = "recovered")]_vars
  BY <1>1
<1> QED BY <1>2, Invariance, PTL DEF Spec, OperationLifecycle

-----------------------------------------------------------------------------
(***************************************************************************)
(* Saves, removals and default changes exclude each other, and the memory  *)
(* of the process follows its tables: SharingInv is inductive given IInv.  *)
(***************************************************************************)

(***************************************************************************)
(* The steps that change a row.                                            *)
(***************************************************************************)
LEMMA RowChangers ==
  ASSUME [Next]_vars
  PROVE  \/ UNCHANGED row \/ Boot
         \/ \E o \in Operations : FlightApply(o)
         \/ \E c \in Callers : RemoveRow(c)
         \/ \E a \in Aliases : SetDefaultProvider(a)
<1>1. CASE Lifecycle
  BY <1>1 DEF Lifecycle, Crash, Recover, Serve, Stop, Exit, Sweep, durable
<1>2. CASE \E c \in Callers : Call(c)
  BY <1>2
  DEF Call, CommitKnown, CommitBusy, CommitNew, CommitRejected, Get, RemoveProvider,
      durable
<1>3. CASE \E c \in Callers : Continue(c)
  BY <1>3
  DEF Continue, Reread, FlightDone, CallReturns, QueryState, QuerySecret, QueryRefresh,
      QueryAbandons, QueryCommit, durable
<1>4. CASE \E o \in Operations : FlightStep(o)
  BY <1>4
  DEF FlightStep, FlightStore, FlightStoreFails, FlightApplyFails, FlightRefresh,
      FlightCommit, FlightFinalizeFails, FlightFail, FlightPanics, FlightLand,
      FlightRelease, durable
<1> QED
  BY <1>1, <1>2, <1>3, <1>4
  DEF Next, vars, durable, UpdateProviderModel, DispatchQuery, DispatchStart, CleanStep,
      CleanCheck, CleanDelete, CleanDrop, CleanFails

(***************************************************************************)
(* Where a flight that runs after a step came from.                        *)
(***************************************************************************)
LEMMA FlightOrigin ==
  ASSUME IInv, [Next]_vars, NEW o \in Operations, flight'[o].pc # "none"
  PROVE  \/ /\ flight[o].pc # "none"
            /\ flight'[o].default = flight[o].default
            /\ op'[o].alias = op[o].alias /\ op'[o].secret = op[o].secret
            /\ ~FlightRelease(o)
         \/ /\ flight[o].pc = "none" /\ flight'[o].pc \in {"store", "apply"}
            /\ \E c \in Callers, r \in Requests : CommitNew(c, o, r)
<1>0. TypeOK
  BY DEF IInv
<1>1. CASE flight[o].pc = "none"
  <2>1. flight' # flight
    BY <1>1
  <2>2. ASSUME NEW p \in Operations, FlightStep(p) PROVE FALSE
    BY <1>0, <1>1, <2>2
    DEF TypeOK, FlightStep, FlightStore, FlightStoreFails, FlightApply, FlightApplyFails,
        FlightRefresh, FlightCommit, FlightFinalizeFails, FlightFail, FlightPanics,
        FlightLand, FlightRelease, FlightGoto
  <2>3. ASSUME NEW c \in Callers, NEW p \in Operations, NEW r \in Requests,
               CommitNew(c, p, r)
        PROVE  p = o /\ flight'[o].pc \in {"store", "apply"}
    BY <1>0, <1>1, <2>3 DEF TypeOK, CommitNew
  <2>4. ~Lifecycle
    BY <2>1
    DEF Lifecycle, Crash, Boot, Recover, Serve, Stop, Exit, Sweep, ProcessLost, NoFlight,
        volatile
  <2>5. ASSUME NEW c \in Callers PROVE ~Continue(c)
    BY <2>1
    DEF Continue, Reread, FlightDone, CallReturns, QueryState, QuerySecret, QueryRefresh,
        QueryAbandons, QueryCommit, RemoveRow
  <2>6. ASSUME NEW c \in Callers, Call(c)
        PROVE  \E p \in Operations, r \in Requests : CommitNew(c, p, r)
    BY <2>1, <2>6
    DEF Call, CommitKnown, CommitBusy, CommitRejected, Get, RemoveProvider
  <2>7. \E c \in Callers, p \in Operations, r \in Requests : CommitNew(c, p, r)
    BY <2>1, <2>2, <2>4, <2>5, <2>6
    DEF Next, vars, volatile, SetDefaultProvider, UpdateProviderModel, DispatchQuery,
        DispatchStart, CleanStep, CleanCheck, CleanDelete, CleanDrop, CleanFails
  <2> QED BY <1>1, <2>3, <2>7
<1>2. CASE flight[o].pc # "none"
  <2>1. op[o].state # "absent"
    BY <1>2 DEF IInv, FlightAgrees
  <2>2. ~Serve
    BY <1>2 DEF IInv, Quiet, Serve, NoFlight
  <2>3. op'[o].alias = op[o].alias /\ op'[o].secret = op[o].secret
    <3>1. op'[o] # NoOperation
      <4>1. FlightAgrees'
        BY NextInvariant DEF IInv
      <4> QED BY <4>1 DEF FlightAgrees, NoOperation
    <3> QED BY <2>1, <3>1, OperationFrame
  <2>4. UNCHANGED flight => ~FlightRelease(o)
    BY <1>0, <1>2 DEF TypeOK, FlightRelease, NoFlight
  <2>5. ASSUME NEW p \in Operations, FlightStep(p)
        PROVE  flight'[o].default = flight[o].default
    <3>1. CASE FlightRelease(p)
      BY <1>0, <3>1 DEF TypeOK, FlightRelease, NoFlight
    <3>2. CASE ~FlightRelease(p)
      BY <1>0, <2>5, <3>2
      DEF TypeOK, FlightStep, FlightStore, FlightStoreFails, FlightApply, FlightApplyFails,
          FlightRefresh, FlightCommit, FlightFinalizeFails, FlightFail, FlightPanics,
          FlightLand, FlightGoto, Flight
    <3> QED BY <3>1, <3>2
  <2>6. ~FlightRelease(o)
    BY <1>0 DEF TypeOK, FlightRelease, NoFlight
  <2>7. ASSUME NEW c \in Callers, NEW p \in Operations, NEW r \in Requests,
               CommitNew(c, p, r)
        PROVE  flight'[o] = flight[o]
    BY <1>0, <2>1, <2>7 DEF TypeOK, CommitNew
  <2>8. ~Crash /\ ~Exit
    BY DEF Crash, Exit, ProcessLost, NoFlight
  <2>9. ASSUME Lifecycle PROVE UNCHANGED flight
    BY <2>8, <2>9 DEF Lifecycle, Boot, Recover, Serve, Stop, Sweep, volatile
  <2>10. ASSUME NEW c \in Callers, Continue(c) PROVE UNCHANGED flight
    BY <2>10
    DEF Continue, Reread, FlightDone, CallReturns, QueryState, QuerySecret, QueryRefresh,
        QueryAbandons, QueryCommit, RemoveRow
  <2>11. ASSUME NEW c \in Callers, Call(c) PROVE flight'[o] = flight[o]
    BY <2>7, <2>11
    DEF Call, CommitKnown, CommitBusy, CommitRejected, Get, RemoveProvider
  <2>12. flight'[o].default = flight[o].default
    BY <2>5, <2>9, <2>10, <2>11
    DEF Next, vars, volatile, SetDefaultProvider, UpdateProviderModel, DispatchQuery,
        DispatchStart, CleanStep, CleanCheck, CleanDelete, CleanDrop, CleanFails
  <2> QED BY <1>2, <2>3, <2>6, <2>12
<1> QED BY <1>1, <1>2

(***************************************************************************)
(* The steps that change who holds a gate.                                 *)
(***************************************************************************)
LEMMA GateChangers ==
  ASSUME [Next]_vars
  PROVE  \/ UNCHANGED gate \/ Crash \/ Exit
         \/ \E c \in Callers, o \in Operations, r \in Requests : CommitNew(c, o, r)
         \/ \E o \in Operations : FlightRelease(o)
         \/ \E c \in Callers, a \in Aliases : RemoveProvider(c, a)
         \/ \E c \in Callers : RemoveRow(c)
<1>1. CASE Lifecycle
  BY <1>1 DEF Lifecycle, Boot, Recover, Serve, Stop, Sweep, volatile
<1>2. CASE \E c \in Callers : Call(c)
  BY <1>2 DEF Call, CommitKnown, CommitBusy, CommitRejected, Get
<1>3. CASE \E c \in Callers : Continue(c)
  BY <1>3
  DEF Continue, Reread, FlightDone, CallReturns, QueryState, QuerySecret, QueryRefresh,
      QueryAbandons, QueryCommit
<1>4. CASE \E o \in Operations : FlightStep(o)
  BY <1>4
  DEF FlightStep, FlightStore, FlightStoreFails, FlightApply, FlightApplyFails,
      FlightRefresh, FlightCommit, FlightFinalizeFails, FlightFail, FlightPanics,
      FlightLand
<1> QED
  BY <1>1, <1>2, <1>3, <1>4
  DEF Next, vars, volatile, SetDefaultProvider, UpdateProviderModel, DispatchQuery,
      DispatchStart, CleanStep, CleanCheck, CleanDelete, CleanDrop, CleanFails

(* Who removes a provider after a step removed it before or just began.    *)
LEMMA RemoverOrigin ==
  ASSUME IInv, [Next]_vars, NEW c \in Callers, caller'[c].pc = "remove"
  PROVE  \/ caller'[c] = caller[c] /\ ~RemoveRow(c)
         \/ \E a \in Aliases : RemoveProvider(c, a) /\ caller'[c].alias = a
<1>0. TypeOK
  BY DEF IInv
<1>1. ~RemoveRow(c)
  BY <1>0 DEF TypeOK, RemoveRow, Return, IdleCaller
<1>2. ASSUME NEW d \in Callers, Call(d)
      PROVE  \/ caller'[c] = caller[c]
             \/ \E a \in Aliases : RemoveProvider(c, a) /\ caller'[c].alias = a
  BY <1>0, <1>2
  DEF TypeOK, Call, CommitKnown, CommitBusy, CommitNew, CommitRejected, Get,
      RemoveProvider, Enter
<1>3. ASSUME NEW d \in Callers, Continue(d) PROVE caller'[c] = caller[c]
  BY <1>0, <1>3
  DEF TypeOK, Continue, Reread, FlightDone, CallReturns, QueryState, QuerySecret,
      QueryRefresh, QueryAbandons, QueryCommit, RemoveRow, Goto, Enter, Return,
      IdleCaller, Caller
<1>4. ASSUME Lifecycle PROVE caller' = caller
  BY <1>4
  DEF Lifecycle, Crash, Boot, Recover, Serve, Stop, Exit, Sweep, ProcessLost, IdleCaller,
      volatile
<1>5. ASSUME NEW o \in Operations, FlightStep(o) PROVE caller' = caller
  BY <1>5
  DEF FlightStep, FlightStore, FlightStoreFails, FlightApply, FlightApplyFails,
      FlightRefresh, FlightCommit, FlightFinalizeFails, FlightFail, FlightPanics,
      FlightLand, FlightRelease
<1> QED
  BY <1>1, <1>2, <1>3, <1>4, <1>5
  DEF Next, vars, volatile, SetDefaultProvider, UpdateProviderModel, DispatchQuery,
      DispatchStart, CleanStep, CleanCheck, CleanDelete, CleanDrop, CleanFails

(***************************************************************************)
(* A flight and a removal keep the gate of their alias; the index keeps    *)
(* active operations on one alias apart.                                   *)
(***************************************************************************)
LEMMA OwnershipStep ==
  ASSUME IInv, FlightOwnsAlias, [Next]_vars PROVE FlightOwnsAlias'
<1>0. TypeOK
  BY DEF IInv
<1>1. ASSUME NEW o \in Operations, flight'[o].pc # "none"
      PROVE  gate'[op'[o].alias] = o
  <2>1. CASE \E c \in Callers, r \in Requests : CommitNew(c, o, r)
    <3>1. PICK c \in Callers, r \in Requests : CommitNew(c, o, r)
      BY <2>1
    <3>2. r.alias \in Aliases
      BY ConstantTypes
    <3> QED BY <1>0, <3>1, <3>2 DEF TypeOK, CommitNew
  <2>2. CASE /\ flight[o].pc # "none" /\ op'[o].alias = op[o].alias
             /\ ~FlightRelease(o)
    <3>1. gate[op[o].alias] = o /\ op[o].alias \in Aliases /\ o # None
      BY <2>2, TouchedAlias, NamesAssumption DEF FlightOwnsAlias
    <3>2. CASE \E c \in Callers, p \in Operations, r \in Requests : CommitNew(c, p, r)
      BY <1>0, <2>2, <3>1, <3>2 DEF TypeOK, CommitNew
    <3>3. CASE \E p \in Operations : FlightRelease(p)
      <4>1. PICK p \in Operations : FlightRelease(p)
        BY <3>3
      <4>2. p # o
        BY <2>2, <4>1
      <4>3. gate[op[p].alias] = p
        BY <4>1 DEF FlightOwnsAlias, FlightRelease
      <4> QED BY <1>0, <2>2, <3>1, <4>1, <4>2, <4>3 DEF TypeOK, FlightRelease
    <3>4. CASE \E c \in Callers, a \in Aliases : RemoveProvider(c, a)
      BY <1>0, <2>2, <3>1, <3>4 DEF TypeOK, RemoveProvider
    <3>5. CASE \E c \in Callers : RemoveRow(c)
      <4>1. PICK c \in Callers : RemoveRow(c)
        BY <3>5
      <4>2. gate[caller[c].alias] = c
        BY <4>1 DEF FlightOwnsAlias, RemoveRow
      <4>3. caller[c].alias # op[o].alias
        BY <3>1, <4>2, NamesAssumption
      <4> QED BY <1>0, <2>2, <3>1, <4>1, <4>3 DEF TypeOK, RemoveRow
    <3>6. ~Crash /\ ~Exit
      BY <1>1 DEF Crash, Exit, ProcessLost, NoFlight
    <3> QED BY <2>2, <3>1, <3>2, <3>3, <3>4, <3>5, <3>6, GateChangers
  <2> QED BY <1>1, <2>1, <2>2, FlightOrigin
<1>2. ASSUME NEW c \in Callers, caller'[c].pc = "remove"
      PROVE  gate'[caller'[c].alias] = c
  <2>1. CASE \E a \in Aliases : RemoveProvider(c, a) /\ caller'[c].alias = a
    BY <1>0, <2>1 DEF TypeOK, RemoveProvider
  <2>2. CASE caller'[c] = caller[c] /\ ~RemoveRow(c)
    <3>1. gate[caller[c].alias] = c /\ caller[c].alias \in Aliases /\ c # None
      BY <1>2, <2>2, TouchedAlias, NamesAssumption DEF FlightOwnsAlias
    <3>2. CASE \E d \in Callers, p \in Operations, r \in Requests : CommitNew(d, p, r)
      BY <1>0, <2>2, <3>1, <3>2 DEF TypeOK, CommitNew
    <3>3. CASE \E p \in Operations : FlightRelease(p)
      <4>1. PICK p \in Operations : FlightRelease(p)
        BY <3>3
      <4>2. gate[op[p].alias] = p
        BY <4>1 DEF FlightOwnsAlias, FlightRelease
      <4>3. op[p].alias # caller[c].alias
        BY <3>1, <4>2, NamesAssumption
      <4> QED BY <1>0, <2>2, <3>1, <4>1, <4>3 DEF TypeOK, FlightRelease
    <3>4. CASE \E d \in Callers, a \in Aliases : RemoveProvider(d, a)
      BY <1>0, <2>2, <3>1, <3>4 DEF TypeOK, RemoveProvider
    <3>5. CASE \E d \in Callers : RemoveRow(d)
      <4>1. PICK d \in Callers : RemoveRow(d)
        BY <3>5
      <4>2. d # c /\ gate[caller[d].alias] = d
        BY <2>2, <4>1 DEF FlightOwnsAlias, RemoveRow
      <4> QED BY <1>0, <2>2, <3>1, <4>1, <4>2 DEF TypeOK, RemoveRow
    <3>6. ~Crash /\ ~Exit
      BY <1>2 DEF Crash, Exit, ProcessLost, IdleCaller
    <3> QED BY <2>2, <3>1, <3>2, <3>3, <3>4, <3>5, <3>6, GateChangers
  <2> QED BY <1>2, <2>1, <2>2, RemoverOrigin
<1>3. ASSUME NEW o \in Operations, NEW p \in Operations,
             op'[o].state \in Active, op'[p].state \in Active,
             op'[o].alias = op'[p].alias
      PROVE  o = p
  <2>1. ASSUME NEW q \in Operations, op'[q].state \in Active
        PROVE  \/ op[q].state \in Active /\ op'[q].alias = op[q].alias
               \/ \E c \in Callers, r \in Requests : CommitNew(c, q, r)
    <3>1. op[q].state \in Active \/ \E c \in Callers, r \in Requests : CommitNew(c, q, r)
      BY <2>1, StateChanges DEF Active, Terminal
    <3> QED BY <2>1, <3>1, OperationFrame DEF NoOperation, Active
  <2>2. CASE \E c \in Callers, q \in Operations, r \in Requests : CommitNew(c, q, r)
    <3>1. PICK c \in Callers, q \in Operations, r \in Requests : CommitNew(c, q, r)
      BY <2>2
    <3>2. op'[q].alias = r.alias /\ \A x \in Operations : x # q => op'[x] = op[x]
      BY <1>0, <3>1 DEF TypeOK, CommitNew
    <3>3. \A x \in Operations : op[x].state \in Active => op[x].alias # r.alias
      BY <3>1 DEF CommitNew, ActiveOn
    <3> QED BY <1>3, <3>2, <3>3 DEF FlightOwnsAlias
  <2>3. CASE ~ \E c \in Callers, q \in Operations, r \in Requests : CommitNew(c, q, r)
    BY <1>3, <2>1, <2>3 DEF FlightOwnsAlias
  <2> QED BY <2>2, <2>3
<1> QED BY <1>1, <1>2, <1>3 DEF FlightOwnsAlias
(* A flight that finalizes applied its save, in this step or before.       *)
LEMMA FinalizingPersists ==
  ASSUME IInv, [Next]_vars, NEW o \in Operations, ~FlightApply(o),
         flight'[o].pc \in {"refresh", "commit"}
  PROVE  flight[o].pc \in {"refresh", "commit"}
<1>0. TypeOK
  BY DEF IInv
<1>1. ASSUME NEW p \in Operations, FlightStep(p)
      PROVE  flight[o].pc \in {"refresh", "commit"}
  <2>1. CASE p = o
    BY <1>0, <1>1, <2>1
    DEF TypeOK, FlightStep, FlightStore, FlightStoreFails, FlightApplyFails,
        FlightRefresh, FlightCommit, FlightFinalizeFails, FlightFail, FlightPanics,
        FlightLand, FlightRelease, FlightGoto, Flight, NoFlight
  <2>2. CASE p # o
    <3>1. flight'[o] = flight[o]
      BY <1>0, <1>1, <2>2
      DEF TypeOK, FlightStep, FlightStore, FlightStoreFails, FlightApply,
          FlightApplyFails, FlightRefresh, FlightCommit, FlightFinalizeFails, FlightFail,
          FlightPanics, FlightLand, FlightRelease, FlightGoto
    <3> QED BY <3>1
  <2> QED BY <2>1, <2>2
<1>2. ASSUME NEW c \in Callers, Call(c) PROVE flight[o].pc \in {"refresh", "commit"}
  BY <1>0, <1>2
  DEF TypeOK, Call, CommitKnown, CommitBusy, CommitNew, CommitRejected, Get,
      RemoveProvider
<1>3. ASSUME NEW c \in Callers, Continue(c) PROVE UNCHANGED flight
  BY <1>3
  DEF Continue, Reread, FlightDone, CallReturns, QueryState, QuerySecret, QueryRefresh,
      QueryAbandons, QueryCommit, RemoveRow
<1>4. ASSUME Lifecycle PROVE UNCHANGED flight
  BY <1>4
  DEF Lifecycle, Crash, Boot, Recover, Serve, Stop, Exit, Sweep, ProcessLost, NoFlight,
      volatile
<1> QED
  BY <1>1, <1>2, <1>3, <1>4
  DEF Next, vars, volatile, SetDefaultProvider, UpdateProviderModel, DispatchQuery,
      DispatchStart, CleanStep, CleanCheck, CleanDelete, CleanDrop, CleanFails

(***************************************************************************)
(* The row a flight finalizes is the row it saved: every other writer of   *)
(* rows takes the row mutex.                                               *)
(***************************************************************************)
LEMMA FinalizesStep ==
  ASSUME IInv, FlightFinalizesItsRow, [Next]_vars PROVE FlightFinalizesItsRow'
<1>0. TypeOK
  BY DEF IInv
<1> SUFFICES ASSUME NEW o \in Operations, flight'[o].pc \in {"refresh", "commit"}
             PROVE  /\ row'[op'[o].alias].present
                    /\ row'[op'[o].alias].default = flight'[o].default
                    /\ op'[o].secret # None =>
                         row'[op'[o].alias].secret = op'[o].secret
  BY DEF FlightFinalizesItsRow
<1>1. /\ flight[o].pc # "none"
      /\ flight'[o].default = flight[o].default
      /\ op'[o].alias = op[o].alias /\ op'[o].secret = op[o].secret
  BY FlightOrigin
<1>2. op[o].alias \in Aliases
  BY <1>1, TouchedAlias
<1>3. CASE FlightApply(o)
  BY <1>0, <1>1, <1>2, <1>3 DEF TypeOK, FlightApply, SavedRow
<1>4. CASE ~FlightApply(o)
  <2>1. flight[o].pc \in {"refresh", "commit"}
    BY <1>0, <1>4, FinalizingPersists
  <2>2. UNCHANGED row
    <3>1. rowsMu = o
      BY <2>1 DEF IInv, FinalizerHoldsRows
    <3>2. ~Boot
      BY <2>1 DEF IInv, Quiet, Boot, NoFlight
    <3> QED
      BY <3>1, <3>2, RowChangers, NamesAssumption
      DEF FlightApply, RemoveRow, SetDefaultProvider
  <2> QED BY <1>1, <2>1, <2>2 DEF FlightFinalizesItsRow
<1> QED BY <1>3, <1>4

(***************************************************************************)
(* Of all rows at most one is the default: who sets it clears the others   *)
(* in the same transaction.                                                *)
(***************************************************************************)
LEMMA DefaultStep ==
  ASSUME IInv, AtMostOneDefault, [Next]_vars PROVE AtMostOneDefault'
<1>0. TypeOK
  BY DEF IInv
<1>1. CASE \A a \in Aliases : row'[a].default => row[a].default
  BY <1>1 DEF AtMostOneDefault
<1>2. CASE Boot
  <2>1. \A a \in Aliases : row'[a].default = row[a].default
    BY <1>0, <1>2 DEF TypeOK, ProviderRow, Boot
  <2> QED BY <1>1, <2>1
<1>3. CASE \E o \in Operations : FlightApply(o)
  <2>1. PICK o \in Operations : FlightApply(o)
    BY <1>3
  <2>2. op[o].alias \in Aliases
    BY <2>1, TouchedAlias DEF FlightApply
  <2>3. \A a \in Aliases : a # op[o].alias => row'[a].default = IF flight[o].default THEN FALSE ELSE row[a].default
    BY <1>0, <2>1 DEF TypeOK, ProviderRow, FlightApply, WithoutDefault
  <2>4. row'[op[o].alias].default = flight[o].default
    BY <2>1, <2>2 DEF FlightApply, SavedRow
  <2>5. CASE flight[o].default
    BY <2>3, <2>5 DEF AtMostOneDefault
  <2>6. CASE ~flight[o].default
    <3>1. \A a \in Aliases : a # op[o].alias => row'[a].default = row[a].default
      BY <2>3, <2>6
    <3>2. ~row'[op[o].alias].default
      BY <2>4, <2>6
    <3> QED BY <1>1, <3>1, <3>2
  <2> QED BY <2>5, <2>6
<1>4. CASE \E c \in Callers : RemoveRow(c)
  <2>1. \A a \in Aliases : row'[a] = row[a] \/ row'[a] = NoRow
    BY <1>0, <1>4 DEF TypeOK, RemoveRow
  <2> QED BY <1>1, <2>1 DEF NoRow
<1>5. CASE \E a \in Aliases : SetDefaultProvider(a)
  <2>1. PICK a \in Aliases : SetDefaultProvider(a)
    BY <1>5
  <2>2. \A b \in Aliases : row'[b].default => b = a
    BY <1>0, <2>1 DEF TypeOK, ProviderRow, SetDefaultProvider
  <2> QED BY <2>2 DEF AtMostOneDefault
<1> QED BY <1>1, <1>2, <1>3, <1>4, <1>5, RowChangers

(***************************************************************************)
(* Only the steps of the life cycle change the phase of the process.       *)
(***************************************************************************)
LEMMA PhaseChanges ==
  ASSUME [Next]_vars
  PROVE  \/ UNCHANGED daemon
         \/ Crash \/ Exit
         \/ Boot
         \/ Recover /\ daemon' = "recovered"
         \/ Serve /\ daemon = "recovered" /\ daemon' = "serving"
         \/ Stop /\ daemon = "serving" /\ daemon' = "stopping"
<1>1. ASSUME NEW c \in Callers, Call(c) \/ Continue(c) PROVE UNCHANGED daemon
  BY <1>1
  DEF Call, CommitKnown, CommitBusy, CommitNew, CommitRejected, Get, RemoveProvider,
      Continue, Reread, FlightDone, CallReturns, QueryState, QuerySecret, QueryRefresh,
      QueryAbandons, QueryCommit, RemoveRow
<1>2. ASSUME NEW o \in Operations, FlightStep(o) PROVE UNCHANGED daemon
  BY <1>2
  DEF FlightStep, FlightStore, FlightStoreFails, FlightApply, FlightApplyFails,
      FlightRefresh, FlightCommit, FlightFinalizeFails, FlightFail, FlightPanics,
      FlightLand, FlightRelease
<1>3. CASE Lifecycle
  BY <1>3 DEF Lifecycle, Recover, Serve, Stop, Sweep
<1> QED
  BY <1>1, <1>2, <1>3
  DEF Next, vars, SetDefaultProvider, UpdateProviderModel, DispatchQuery,
      DispatchStart, CleanStep, CleanCheck, CleanDelete, CleanDrop, CleanFails

-----------------------------------------------------------------------------
(***************************************************************************)
(* The redactor forgets nothing while the process runs.                    *)
(***************************************************************************)
LEMMA RedactorKeeps ==
  ASSUME [Next]_vars
  PROVE  redacted \subseteq redacted' \/ Boot \/ Crash \/ Exit
<1>1. CASE Lifecycle
  BY <1>1 DEF Lifecycle, Recover, Serve, Stop, Sweep, volatile
<1>2. CASE \E c \in Callers : Call(c)
  BY <1>2
  DEF Call, CommitKnown, CommitBusy, CommitNew, CommitRejected, Get, RemoveProvider
<1>3. CASE \E c \in Callers : Continue(c)
  BY <1>3
  DEF Continue, Reread, FlightDone, CallReturns, QueryState, QuerySecret, QueryRefresh,
      QueryAbandons, QueryCommit, RemoveRow
<1>4. CASE \E o \in Operations : FlightStep(o)
  BY <1>4
  DEF FlightStep, FlightStore, FlightStoreFails, FlightApply, FlightApplyFails,
      FlightRefresh, FlightCommit, FlightFinalizeFails, FlightFail, FlightPanics,
      FlightLand, FlightRelease
<1> QED
  BY <1>1, <1>2, <1>3, <1>4
  DEF Next, vars, volatile, SetDefaultProvider, UpdateProviderModel, DispatchQuery,
      DispatchStart, CleanStep, CleanCheck, CleanDelete, CleanDrop, CleanFails

(* The store gains only the secret of a pending save.                      *)
LEMMA StoreGains ==
  ASSUME IInv, [Next]_vars, NEW s \in store' \ store
  PROVE  \E o \in Operations : op[o].state = "pending" /\ op[o].secret = s
<1>1. ASSUME NEW o \in Operations, FlightStep(o)
      PROVE  flight[o].pc = "store" /\ op[o].secret = s
  BY <1>1
  DEF FlightStep, FlightStore, FlightStoreFails, FlightApply, FlightApplyFails,
      FlightRefresh, FlightCommit, FlightFinalizeFails, FlightFail, FlightPanics,
      FlightLand, FlightRelease, durable
<1>2. ~Lifecycle
  BY DEF Lifecycle, Crash, Boot, Recover, Serve, Stop, Exit, Sweep, durable
<1>3. ASSUME NEW c \in Callers PROVE ~Call(c) /\ ~Continue(c)
  BY DEF Call, CommitKnown, CommitBusy, CommitNew, CommitRejected, Get, RemoveProvider,
         Continue, Reread, FlightDone, CallReturns, QueryState, QuerySecret,
         QueryRefresh, QueryAbandons, QueryCommit, RemoveRow, durable
<1>4. \E o \in Operations : FlightStep(o)
  BY <1>2, <1>3
  DEF Next, vars, durable, SetDefaultProvider, UpdateProviderModel, DispatchQuery,
      DispatchStart, CleanStep, CleanCheck, CleanDelete, CleanDrop, CleanFails
<1> QED BY <1>1, <1>4 DEF IInv, FlightAgrees

(* The registry falls behind only when a save is applied.                  *)
LEMMA StaleGains ==
  ASSUME [Next]_vars, NEW a \in stale' \ stale
  PROVE  \E o \in Operations : FlightApply(o) /\ op[o].alias = a
<1>1. ~Lifecycle
  BY DEF Lifecycle, Crash, Boot, Recover, Serve, Stop, Exit, Sweep, ProcessLost, volatile
<1>2. ASSUME NEW c \in Callers PROVE ~Call(c) /\ ~Continue(c)
  BY DEF Call, CommitKnown, CommitBusy, CommitNew, CommitRejected, Get, RemoveProvider,
         Continue, Reread, FlightDone, CallReturns, QueryState, QuerySecret,
         QueryRefresh, QueryAbandons, QueryCommit, RemoveRow
<1>3. ASSUME NEW o \in Operations, FlightStep(o)
      PROVE  FlightApply(o) /\ op[o].alias = a
  BY <1>3
  DEF FlightStep, FlightStore, FlightStoreFails, FlightApply, FlightApplyFails,
      FlightRefresh, FlightCommit, FlightFinalizeFails, FlightFail, FlightPanics,
      FlightLand, FlightRelease
<1> QED
  BY <1>1, <1>2, <1>3
  DEF Next, vars, volatile, SetDefaultProvider, UpdateProviderModel, DispatchQuery,
      DispatchStart, CleanStep, CleanCheck, CleanDelete, CleanDrop, CleanFails

(***************************************************************************)
(* Before the manager serves, the registry is not behind.                  *)
(***************************************************************************)
LEMMA NothingStaleStep ==
  ASSUME IInv, NothingStale, [Next]_vars PROVE NothingStale'
<1> SUFFICES ASSUME daemon' \in {"down", "starting", "recovered"} PROVE stale' = {}
  BY DEF NothingStale
<1>1. CASE Crash \/ Exit
  BY <1>1 DEF Crash, Exit, ProcessLost
<1>2. CASE ~Crash /\ ~Exit
  <2>1. daemon \in {"down", "starting", "recovered"}
    BY <1>2, PhaseChanges DEF Boot, Recover
  <2>2. stale = {}
    BY <2>1 DEF NothingStale
  <2>3. \A o \in Operations : ~FlightApply(o)
    BY <2>1 DEF IInv, Quiet, FlightApply, NoFlight
  <2>4. \A a \in stale' : FALSE
    BY <2>2, <2>3, StaleGains
  <2> QED BY <2>4
<1> QED BY <1>1, <1>2

(***************************************************************************)
(* A flight or a call about to commit told redactor and registry, and      *)
(* holds the mutex every new save needs.                                   *)
(***************************************************************************)
LEMMA ReadyPersists ==
  ASSUME IInv, [Next]_vars, NEW o \in Operations, ReadyToCommit(o),
         rowsMu # None, op[o].state = "applied", ~Crash, ~Exit, daemon # "down"
  PROVE  ReadyToCommit(o)'
<1>1. op'[o].alias = op[o].alias /\ op'[o].secret = op[o].secret
  <2>1. ~Serve
    BY DEF IInv, Quiet, Serve
  <2>2. op'[o] # NoOperation
    <3>1. op'[o].state # "absent"
      BY <2>1, StateChanges
    <3> QED BY <3>1 DEF NoOperation
  <2> QED BY <2>2, OperationFrame
<1>2. redacted \subseteq redacted'
  BY RedactorKeeps DEF Boot
<1>3. op[o].alias \notin stale'
  BY StaleGains DEF ReadyToCommit, FlightApply
<1> QED BY <1>1, <1>2, <1>3 DEF ReadyToCommit

(* A flight or a call is about to commit since it refreshed.               *)
LEMMA CommitterOrigin ==
  ASSUME IInv, [Next]_vars
  PROVE  /\ \A o \in Operations : flight'[o].pc = "commit" =>
              flight[o].pc = "commit" \/ FlightRefresh(o)
         /\ \A c \in Callers : caller'[c].pc = "commit" =>
              caller'[c] = caller[c] \/ QueryRefresh(c)
<1>0. TypeOK
  BY DEF IInv
<1>1. ASSUME NEW o \in Operations, flight'[o].pc = "commit", flight[o].pc # "commit"
      PROVE  FlightRefresh(o)
  <2>1. ~FlightApply(o)
    BY <1>0, <1>1 DEF TypeOK, FlightApply, FlightGoto, Flight
  <2>2. flight[o].pc = "refresh"
    BY <1>1, <2>1, FinalizingPersists
  <2>3. ASSUME NEW p \in Operations, FlightStep(p) PROVE FlightRefresh(o)
    <3>1. CASE p = o
      BY <1>0, <1>1, <2>2, <2>3, <3>1
      DEF TypeOK, FlightStep, FlightStore, FlightStoreFails, FlightApply,
          FlightApplyFails, FlightCommit, FlightFinalizeFails, FlightFail, FlightPanics,
          FlightLand, FlightRelease, FlightGoto, Flight
    <3>2. CASE p # o
      <4>1. flight'[o] = flight[o]
        BY <1>0, <2>3, <3>2
        DEF TypeOK, FlightStep, FlightStore, FlightStoreFails, FlightApply,
            FlightApplyFails, FlightRefresh, FlightCommit, FlightFinalizeFails,
            FlightFail, FlightPanics, FlightLand, FlightRelease, FlightGoto
      <4> QED BY <1>1, <4>1
    <3> QED BY <3>1, <3>2
  <2>4. ASSUME NEW c \in Callers PROVE ~Call(c)
    BY <1>0, <1>1
    DEF TypeOK, Call, CommitKnown, CommitBusy, CommitNew, CommitRejected, Get,
        RemoveProvider
  <2>5. ASSUME NEW c \in Callers PROVE ~Continue(c)
    BY <1>1
    DEF Continue, Reread, FlightDone, CallReturns, QueryState, QuerySecret,
        QueryRefresh, QueryAbandons, QueryCommit, RemoveRow
  <2>6. ~Lifecycle
    BY <1>1
    DEF Lifecycle, Crash, Boot, Recover, Serve, Stop, Exit, Sweep, ProcessLost, NoFlight,
        volatile
  <2> QED
    BY <1>1, <2>3, <2>4, <2>5, <2>6
    DEF Next, vars, volatile, SetDefaultProvider, UpdateProviderModel, DispatchQuery,
        DispatchStart, CleanStep, CleanCheck, CleanDelete, CleanDrop, CleanFails
<1>2. ASSUME NEW c \in Callers, caller'[c].pc = "commit", caller'[c] # caller[c]
      PROVE  QueryRefresh(c)
  <2>1. ASSUME NEW d \in Callers PROVE ~Call(d)
    BY <1>0, <1>2
    DEF TypeOK, Call, CommitKnown, CommitBusy, CommitNew, CommitRejected, Get,
        RemoveProvider, Enter
  <2>2. ASSUME NEW d \in Callers, Continue(d) PROVE QueryRefresh(c)
    BY <1>0, <1>2, <2>2
    DEF TypeOK, Continue, Reread, FlightDone, CallReturns, QueryState, QuerySecret,
        QueryRefresh, QueryAbandons, QueryCommit, RemoveRow, Goto, Enter, Return,
        IdleCaller, Caller
  <2>3. ASSUME NEW o \in Operations PROVE ~FlightStep(o)
    BY <1>2
    DEF FlightStep, FlightStore, FlightStoreFails, FlightApply, FlightApplyFails,
        FlightRefresh, FlightCommit, FlightFinalizeFails, FlightFail, FlightPanics,
        FlightLand, FlightRelease
  <2>4. ~Lifecycle
    BY <1>2
    DEF Lifecycle, Crash, Boot, Recover, Serve, Stop, Exit, Sweep, ProcessLost,
        IdleCaller, volatile
  <2> QED
    BY <1>2, <2>1, <2>2, <2>3, <2>4
    DEF Next, vars, volatile, SetDefaultProvider, UpdateProviderModel, DispatchQuery,
        DispatchStart, CleanStep, CleanCheck, CleanDelete, CleanDrop, CleanFails
<1> QED BY <1>1, <1>2

(* Every step keeps the finalizers ready.                                  *)
LEMMA FinalizersReadyStep ==
  ASSUME IInv, FinalizersAreReady, [Next]_vars PROVE FinalizersAreReady'
<1>0. TypeOK
  BY DEF IInv
<1>1. ASSUME NEW o \in Operations, flight'[o].pc = "commit" PROVE ReadyToCommit(o)'
  <2>1. CASE FlightRefresh(o)
    BY <1>0, <2>1 DEF TypeOK, OperationRow, FlightRefresh, ReadyToCommit, Names, durable
  <2>2. CASE flight[o].pc = "commit"
    <3>1. ReadyToCommit(o) /\ rowsMu = o /\ op[o].state = "applied" /\ o # None
      BY <2>2, NamesAssumption
      DEF IInv, FlightAgrees, FinalizerHoldsRows, FinalizersAreReady
    <3>2. daemon # "down"
      BY <2>2 DEF IInv, Quiet, NoFlight
    <3>3. ~Crash /\ ~Exit
      BY <1>1 DEF Crash, Exit, ProcessLost, NoFlight
    <3> QED BY <3>1, <3>2, <3>3, ReadyPersists
  <2> QED BY <1>1, <2>1, <2>2, CommitterOrigin
<1>2. ASSUME NEW c \in Callers, caller'[c].pc = "commit"
      PROVE  ReadyToCommit(caller[c].op)' /\ caller'[c].op = caller[c].op
  <2>1. CASE QueryRefresh(c)
    BY <1>0, <2>1
    DEF TypeOK, OperationRow, Caller, QueryRefresh, ReadyToCommit, Names, Goto, durable
  <2>2. CASE caller'[c] = caller[c]
    <3>1. caller[c].pc = "commit"
      BY <1>2, <2>2
    <3>2. /\ caller[c].op \in Operations /\ ReadyToCommit(caller[c].op)
          /\ rowsMu = c /\ op[caller[c].op].state = "applied" /\ c # None
      BY <3>1, NamesAssumption DEF IInv, CallersKnow, FinalizerHoldsRows, FinalizersAreReady
    <3>3. daemon # "down"
      BY <3>1 DEF IInv, Quiet, IdleCaller
    <3>4. ~Crash /\ ~Exit
      BY <1>2 DEF Crash, Exit, ProcessLost, IdleCaller
    <3>5. PICK o \in Operations : o = caller[c].op
      BY <3>2
    <3>6. ReadyToCommit(o)'
      BY <3>2, <3>3, <3>4, <3>5, ReadyPersists
    <3> QED BY <2>2, <3>5, <3>6
  <2> QED BY <1>2, <2>1, <2>2, CommitterOrigin
<1> QED BY <1>1, <1>2 DEF FinalizersAreReady

(***************************************************************************)
(* The redactor knows the secrets of committed saves.                      *)
(***************************************************************************)
LEMMA RedactedStep ==
  ASSUME IInv, CommittedIsRedacted, FinalizersAreReady, [Next]_vars
  PROVE  CommittedIsRedacted'
<1>0. TypeOK
  BY DEF IInv
<1> SUFFICES ASSUME daemon' # "down", NEW o \in Operations,
                    op'[o].state = "committed", op'[o].secret \in store'
             PROVE  op'[o].secret \in redacted'
  BY DEF CommittedIsRedacted
<1>1. op'[o].secret = op[o].secret /\ op[o].state # "absent"
  <2>1. op[o].state # "absent"
    BY StateChanges
  <2> QED BY <2>1, OperationFrame DEF NoOperation
<1>2. ~Crash /\ ~Exit
  BY DEF Crash, Exit
<1>3. CASE op[o].state = "committed"
  <2>1. op[o].secret \in store
    <3> SUFFICES ASSUME op[o].secret \notin store PROVE FALSE
      OBVIOUS
    <3>1. PICK p \in Operations : op[p].state = "pending" /\ op[p].secret = op[o].secret
      BY <1>1, StoreGains
    <3>2. op[o].secret = None
      BY <1>3, <3>1 DEF IInv, Reservations
    <3>3. None \notin store'
      BY TypeStep, ConstantTypes DEF TypeOK
    <3> QED BY <1>1, <3>2, <3>3
  <2>2. CASE Boot
    BY <1>1, <2>1, <2>2 DEF Boot
  <2>3. CASE ~Boot
    <3>1. daemon # "down"
      BY <1>2, <2>3, PhaseChanges DEF Recover
    <3> QED BY <1>1, <1>2, <1>3, <2>1, <2>3, <3>1, RedactorKeeps DEF CommittedIsRedacted
  <2> QED BY <2>2, <2>3
<1>4. CASE op[o].state # "committed"
  <2>1. CASE Recover
    <3>1. PICK finalized \in SUBSET {p \in Operations : op[p].state = "applied"} :
            /\ op' = [p \in Operations |->
                        IF op[p].state = "pending"
                        THEN [op[p] EXCEPT !.state = "failed"]
                        ELSE IF p \in finalized
                        THEN [op[p] EXCEPT !.state = "committed"]
                        ELSE op[p]]
            /\ redacted' = redacted \cup ({op[p].secret : p \in finalized} \ {None})
      BY <2>1 DEF Recover
    <3>2. o \in finalized
      BY <1>0, <1>4, <3>1 DEF TypeOK, OperationRow
    <3>3. op[o].secret # None
      BY <1>1, TypeStep, ConstantTypes DEF TypeOK
    <3> QED BY <1>1, <3>1, <3>2, <3>3
  <2>2. CASE ~Recover
    <3>1. FlightCommit(o) \/ \E c \in Callers : QueryCommit(c) /\ caller[c].op = o
      BY <1>4, <2>2, StateChanges
    <3>2. ReadyToCommit(o)
      BY <3>1 DEF FinalizersAreReady, FlightCommit, QueryCommit
    <3>3. redacted' = redacted
      BY <3>1 DEF FlightCommit, QueryCommit
    <3>4. op[o].secret # None
      BY <1>1, TypeStep, ConstantTypes DEF TypeOK
    <3> QED BY <1>1, <3>2, <3>3, <3>4 DEF ReadyToCommit
  <2> QED BY <2>1, <2>2
<1> QED BY <1>3, <1>4

(***************************************************************************)
(* The registry is behind only for an alias with an applied save.          *)
(***************************************************************************)
LEMMA StaleStep ==
  ASSUME IInv, StaleOnlyWhileApplied, FinalizersAreReady, NothingStale, [Next]_vars
  PROVE  StaleOnlyWhileApplied'
<1>0. TypeOK
  BY DEF IInv
<1> SUFFICES ASSUME NEW a \in stale'
             PROVE  \E o \in Operations : op'[o].alias = a /\ op'[o].state = "applied"
  BY DEF StaleOnlyWhileApplied
<1>1. CASE a \notin stale
  <2>1. PICK o \in Operations : FlightApply(o) /\ op[o].alias = a
    BY <1>1, StaleGains
  <2> QED BY <1>0, <2>1 DEF TypeOK, OperationRow, FlightApply
<1>2. CASE a \in stale
  <2>1. PICK o \in Operations : op[o].alias = a /\ op[o].state = "applied"
    BY <1>2 DEF StaleOnlyWhileApplied
  <2>2. ~Recover
    BY <1>2 DEF NothingStale, Recover
  <2>3. ~ReadyToCommit(o)
    BY <1>2, <2>1 DEF ReadyToCommit
  <2>4. ~FlightCommit(o) /\ \A c \in Callers : QueryCommit(c) => caller[c].op # o
    BY <2>3 DEF FinalizersAreReady, FlightCommit, QueryCommit
  <2>5. op'[o].state = "applied"
    BY <2>1, <2>2, <2>4, StateChanges DEF Terminal
  <2>6. op'[o].alias = a
    BY <2>1, <2>5, OperationFrame DEF NoOperation
  <2> QED BY <2>5, <2>6
<1> QED BY <1>1, <1>2

-----------------------------------------------------------------------------
(***************************************************************************)
(* The strengthening is inductive on top of the invariant.                 *)
(***************************************************************************)
LEMMA InitSharing == ASSUME Init PROVE SharingInv
<1>1. \A a \in Aliases : row[a].default = FALSE
  <2>1. PICK legacy \in SUBSET Legacy :
          row = [a \in Aliases |->
                   IF a \in legacy
                   THEN [NoRow EXCEPT !.present = TRUE, !.secret = a]
                   ELSE NoRow]
    BY DEF Init
  <2> QED BY <2>1 DEF NoRow
<1>2. FlightOwnsAlias /\ FlightFinalizesItsRow
  BY DEF Init, FreshProcess, FlightOwnsAlias, FlightFinalizesItsRow, NoFlight, IdleCaller,
         NoOperation, Active
<1>3. MemoryFollowsTables /\ NothingStale
  BY DEF Init, FreshProcess, MemoryFollowsTables, CommittedIsRedacted,
         StaleOnlyWhileApplied, NothingStale
<1>4. FinalizersAreReady
  BY DEF Init, FreshProcess, FinalizersAreReady, NoFlight, IdleCaller
<1> QED
  BY <1>1, <1>2, <1>3, <1>4 DEF SharingInv, SavesAreExclusive, AtMostOneDefault

(* Every step keeps it.                                                    *)
LEMMA NextSharing == ASSUME IInv, SharingInv, [Next]_vars PROVE SharingInv'
<1>1. SavesAreExclusive'
  BY OwnershipStep, FinalizesStep, DefaultStep DEF SharingInv, SavesAreExclusive
<1>2. MemoryFollowsTables'
  BY RedactedStep, StaleStep DEF SharingInv, MemoryFollowsTables
<1> QED
  BY <1>1, <1>2, FinalizersReadyStep, NothingStaleStep DEF SharingInv

(* Every reachable state satisfies it.                                     *)
LEMMA Sharing == Spec => []SharingInv
<1>1. Init => SharingInv
  BY InitSharing
<1>2. IInv /\ SharingInv /\ [Next]_vars => SharingInv'
  BY NextSharing
<1> QED BY <1>1, <1>2, Invariance, PTL DEF Spec

(***************************************************************************)
(* Saves, removals and default changes of one provider exclude each other: *)
(* a save commits the row it wrote, and one default is left, for any       *)
(* number of callers, operations and aliases.                              *)
(***************************************************************************)
THEOREM SavesExclude == Spec => []SavesAreExclusive
<1>1. SharingInv => SavesAreExclusive
  BY DEF SharingInv
<1> QED BY <1>1, Sharing, PTL

(***************************************************************************)
(* The redactor knows the secret of every committed save, and the registry *)
(* is behind its table only where an applied save waits to be finalized.   *)
(***************************************************************************)
THEOREM MemoryFollows == Spec => []MemoryFollowsTables
<1>1. SharingInv => MemoryFollowsTables
  BY DEF SharingInv
<1> QED BY <1>1, Sharing, PTL

-----------------------------------------------------------------------------
(***************************************************************************)
(* No secret is lost. Only a cleanup worker takes a name from the queue.   *)
(***************************************************************************)
LEMMA QueueShrinks ==
  ASSUME IInv, [Next]_vars, NEW s \in queue \ queue'
  PROVE  CleanDrop(s)
<1>1. ~Lifecycle
  BY DEF Lifecycle, Crash, Boot, Recover, Serve, Stop, Exit, Sweep, durable
<1>2. ASSUME NEW c \in Callers PROVE ~Call(c) /\ ~Continue(c)
  BY DEF Call, CommitKnown, CommitBusy, CommitNew, CommitRejected, Get, RemoveProvider,
         Continue, Reread, FlightDone, CallReturns, QueryState, QuerySecret,
         QueryRefresh, QueryAbandons, QueryCommit, RemoveRow, durable
<1>3. ASSUME NEW o \in Operations PROVE ~FlightStep(o)
  BY DEF FlightStep, FlightStore, FlightStoreFails, FlightApply, FlightApplyFails,
         FlightRefresh, FlightCommit, FlightFinalizeFails, FlightFail, FlightPanics,
         FlightLand, FlightRelease, durable
<1>4. \E t \in SecretNames : CleanDrop(t)
  BY <1>1, <1>2, <1>3
  DEF Next, vars, durable, SetDefaultProvider, UpdateProviderModel, DispatchQuery,
      DispatchStart, CleanStep, CleanCheck, CleanDelete, CleanFails
<1> QED BY <1>4 DEF CleanDrop

(***************************************************************************)
(* While the daemon runs, a row that gives up its secret queues it, whether*)
(* it is removed or moved to the secret of a save.                         *)
(***************************************************************************)
LEMMA RowsQueueTheirSecret ==
  ASSUME IInv, [Next]_vars, Running, NEW a \in Aliases,
         row[a].secret # None, row'[a].secret # row[a].secret
  PROVE  row[a].secret \in queue'
<1>0. TypeOK
  BY DEF IInv
<1>1. CASE \E o \in Operations : FlightApply(o)
  <2>1. PICK o \in Operations : FlightApply(o)
    BY <1>1
  <2>2. WithoutDefault(a).secret = row[a].secret
    BY <1>0 DEF TypeOK, ProviderRow, WithoutDefault
  <2>3. op[o].alias = a /\ op[o].secret # None
    BY <2>1, <2>2 DEF FlightApply, SavedRow
  <2> QED BY <2>1, <2>3 DEF FlightApply, Names
<1>2. CASE \E c \in Callers : RemoveRow(c)
  <2>1. PICK c \in Callers : RemoveRow(c)
    BY <1>2
  <2>2. caller[c].alias = a
    BY <1>0, <2>1 DEF TypeOK, RemoveRow
  <2> QED BY <2>1, <2>2 DEF RemoveRow, Names
<1>3. CASE \E b \in Aliases : SetDefaultProvider(b)
  BY <1>0, <1>3 DEF TypeOK, ProviderRow, SetDefaultProvider
<1> QED BY <1>1, <1>2, <1>3, RowChangers DEF Boot, Running

(***************************************************************************)
(* The only way an active operation stops protecting a secret that no row  *)
(* uses and that is not queued is the finalization of a save whose row is  *)
(* gone: a flight that finalizes still has its row, and one that fails     *)
(* queues its secret.                                                      *)
(***************************************************************************)
LEMMA ReservationsEnd ==
  ASSUME IInv, SharingInv, [Next]_vars, Running, NEW s \in SecretNames,
         Reserved(s), ~ReferencedByRow(s), ~Referenced(s)', s \notin queue'
  PROVE  FinalizesRemoved(s)
<1>1. PICK o \in Operations : op[o].state \in Active /\ op[o].secret = s
  BY DEF Reserved
<1>2. op'[o].state # op[o].state
  BY <1>1, OperationFrame, ConstantTypes DEF Active, NoOperation, Referenced, Reserved
<1>3. op'[o].state \in Active => op'[o].secret # s
  BY DEF Referenced, Reserved
<1>4. ~FlightApply(o)
  BY <1>1, <1>3, OperationFrame DEF IInv, TypeOK, OperationRow, FlightApply, Active
<1>5. ~FlightFail(o)
  BY <1>1, <1>2, NamesAssumption DEF FlightFail, Names
<1>6. ~FlightCommit(o)
  BY <1>1, NamesAssumption
  DEF SharingInv, SavesAreExclusive, FlightFinalizesItsRow, FlightCommit, IInv,
      FlightAgrees, Reservations, ReferencedByRow
<1>7. op[o].state = "applied" /\ op'[o].state = "committed"
  BY <1>1, <1>2, <1>4, <1>5, <1>6, StateChanges
  DEF Recover, Running, Terminal, Active
<1> QED BY <1>1, <1>7 DEF FinalizesRemoved

(***************************************************************************)
(* The sweep journals every orphan before the daemon serves.               *)
(***************************************************************************)
LEMMA StartTracks ==
  ASSUME IInv, Serve, NEW s \in Versions PROVE Tracked(s)'
<1> SUFFICES ASSUME s \in store', s \notin queue' PROVE Referenced(s)'
  BY DEF Tracked
<1>1. PICK expired \in SUBSET {o \in Operations : op[o].state \in Terminal} :
        op' = [o \in Operations |-> IF o \in expired THEN NoOperation ELSE op[o]]
  BY DEF Serve
<1>2. Referenced(s)
  BY DEF Serve, Orphans
<1>3. ASSUME NEW o \in Operations, op[o].state \in Active PROVE op'[o] = op[o]
  BY <1>1, <1>3 DEF Terminal, Active
<1> QED BY <1>2, <1>3 DEF Serve, Referenced, ReferencedByRow, Reserved

(***************************************************************************)
(* A daemon that serves loses sight of no secret it stores, for any number *)
(* of saves, callers and aliases: what stops being referred to is queued,  *)
(* but for the two steps the property names.                               *)
(***************************************************************************)
THEOREM SecretsAreTracked == Spec => SecretsStayTracked
<1>1. ASSUME IInv, SharingInv, [Next]_vars, NEW s \in SecretNames,
             \/ Running /\ Tracked(s)
             \/ daemon = "recovered" /\ s \in Versions,
             daemon' \in {"serving", "stopping"}
      PROVE  Tracked(s)' \/ DropsUsed(s) \/ FinalizesRemoved(s)
  <2>1. CASE daemon = "recovered" /\ s \in Versions
    BY <1>1, <2>1, PhaseChanges, StartTracks DEF Crash, Exit, Boot, Recover
  <2>2. CASE Running /\ Tracked(s)
    <3> SUFFICES ASSUME s \in store', ~Referenced(s)', s \notin queue'
                 PROVE  DropsUsed(s) \/ FinalizesRemoved(s)
      BY DEF Tracked
    <3>1. CASE s \notin store
      <4>1. PICK o \in Operations : op[o].state = "pending" /\ op[o].secret = s
        BY <1>1, <3>1, StoreGains
      <4>2. op'[o].state = op[o].state
        BY <1>1, <2>2, <3>1, <4>1, StateChanges
        DEF Recover, Running, Terminal, FlightApply, FlightFail
      <4> QED
        BY <1>1, <4>1, <4>2, OperationFrame
        DEF NoOperation, Referenced, Reserved, Active
    <3>2. CASE s \in queue
      BY <1>1, <3>2, QueueShrinks DEF CleanDrop, DropsUsed
    <3>3. CASE ReferencedByRow(s)
      <4>1. PICK a \in Aliases : row[a].secret = s
        BY <3>3 DEF ReferencedByRow
      <4>2. row'[a].secret # s
        BY DEF Referenced, ReferencedByRow
      <4> QED BY <1>1, <2>2, <4>1, <4>2, RowsQueueTheirSecret, NamesAssumption
    <3>4. CASE Reserved(s) /\ ~ReferencedByRow(s)
      BY <1>1, <2>2, <3>4, ReservationsEnd
    <3> QED BY <2>2, <3>1, <3>2, <3>3, <3>4 DEF Tracked, Referenced
  <2> QED BY <1>1, <2>1, <2>2
<1>2. IInv /\ SharingInv /\ [Next]_vars =>
        [\A s \in SecretNames :
           /\ (Running /\ Tracked(s)) \/ (daemon = "recovered" /\ s \in Versions)
           /\ daemon' \in {"serving", "stopping"}
           => Tracked(s)' \/ DropsUsed(s) \/ FinalizesRemoved(s)]_vars
  BY <1>1
<1> QED BY <1>2, Invariance, Sharing, PTL DEF Spec, SecretsStayTracked

-----------------------------------------------------------------------------
(***************************************************************************)
(* ProviderOperations implements ProviderSave: the initial states map to   *)
(* initial states and every step of the daemon to a step of a save or to   *)
(* none at all.                                                            *)
(***************************************************************************)
Binding == [a \in Aliases |-> row[a].secret]

(***************************************************************************)
(* A step that leaves the journal, the bindings and the store alone is     *)
(* invisible to a client.                                                  *)
(***************************************************************************)
LEMMA Invisible ==
  ASSUME UNCHANGED <<op, row, store>>
  PROVE  UNCHANGED Promise!vars
  BY DEF Promise!vars

(* The daemon starts where a save as a client sees it starts.              *)
LEMMA InitialPromise == ASSUME Init PROVE Promise!Init
<1>1. op = [o \in Operations |-> Promise!Unsaved]
  BY DEF Init, NoOperation, Promise!Unsaved
<1>2. store \in SUBSET SecretNames
  BY InitInvariant DEF IInv, TypeOK
<1>3. \A a \in Aliases : row[a].secret \in store \cup {None}
  BY InitInvariant DEF IInv, CredentialAvailable
<1>4. Binding \in [Aliases -> store \cup {None}]
  BY <1>3 DEF Binding
<1> QED BY <1>1, <1>2, <1>4 DEF Promise!Init, Binding

-----------------------------------------------------------------------------
(***************************************************************************)
(* The visible steps, one by one.                                          *)
(***************************************************************************)
LEMMA BootUnbinds == ASSUME IInv, Boot PROVE [Promise!Next]_(Promise!vars)
<1>1. CASE row' = row
  BY <1>1, Invisible DEF Boot
<1>2. CASE row' = [a \in Aliases |->
                     IF row[a].keyless THEN [row[a] EXCEPT !.secret = None] ELSE row[a]]
  <2>1. PICK released \in SUBSET Aliases : released = {a \in Aliases : row[a].keyless}
    OBVIOUS
  <2>2. \A a \in Aliases :
          row'[a].secret = IF a \in released THEN None ELSE row[a].secret
    BY <1>2, <2>1 DEF IInv, TypeOK, ProviderRow
  <2>3. Binding' = [a \in Aliases |-> IF a \in released THEN None ELSE Binding[a]]
    BY <2>2 DEF Binding
  <2>4. Promise!Unbind(released)
    BY <2>3 DEF Promise!Unbind, Binding, Boot
  <2> QED BY <2>4 DEF Promise!Next
<1> QED BY <1>1, <1>2 DEF Boot

(* The recovery of a start settles saves as the promise allows.            *)
LEMMA RecoverRecovers == ASSUME IInv, Recover PROVE Promise!Next
<1>1. PICK finalized \in SUBSET {o \in Operations : op[o].state = "applied"} :
        op' = [o \in Operations |->
                 IF op[o].state = "pending"
                 THEN [op[o] EXCEPT !.state = "failed"]
                 ELSE IF o \in finalized
                 THEN [op[o] EXCEPT !.state = "committed"]
                 ELSE op[o]]
  BY DEF Recover
<1>2. Promise!Recover(finalized)
  BY <1>1 DEF Promise!Recover, Recover
<1> QED BY <1>2 DEF Promise!Next

(* The pruning of a start forgets settled saves only.                      *)
LEMMA ServeForgets == ASSUME IInv, Serve PROVE Promise!Next
<1>1. PICK expired \in SUBSET {o \in Operations : op[o].state \in Terminal} :
        op' = [o \in Operations |-> IF o \in expired THEN NoOperation ELSE op[o]]
  BY DEF Serve
<1>2. Promise!Forget(expired)
  BY <1>1 DEF Promise!Forget, Promise!Settled, Promise!Unsaved, NoOperation, Terminal, Serve
<1> QED BY <1>2 DEF Promise!Next

(* A new operation is a submission on an alias without another.            *)
LEMMA CommitSubmits ==
  ASSUME IInv, NEW c \in Callers, NEW o \in Operations, NEW r \in Requests,
         CommitNew(c, o, r)
  PROVE  Promise!Next
<1>1. PICK s \in SecretNames \cup {None} :
        op' = [op EXCEPT ![o] = [state |-> "pending", alias |-> r.alias, secret |-> s]]
  BY DEF CommitNew, SecretNames
<1>2. op[o] = Promise!Unsaved
  BY DEF IInv, Reservations, CommitNew, NoOperation, Promise!Unsaved
<1>3. \A p \in Promise!Unfinished : op[p].alias # r.alias
  BY DEF CommitNew, ActiveOn, Active, Promise!Unfinished
<1>4. Promise!Submit(o, r.alias, s)
  BY <1>1, <1>2, <1>3 DEF Promise!Submit, CommitNew
<1>5. r.alias \in Aliases
  BY ConstantTypes
<1> QED BY <1>1, <1>4, <1>5 DEF Promise!Next

(* A flight that stores its secret makes it readable.                      *)
LEMMA StoreLearns ==
  ASSUME IInv, NEW o \in Operations,
         FlightStore(o) \/ FlightStoreFails(o) \/ FlightPanics(o)
  PROVE  [Promise!Next]_(Promise!vars)
<1>1. UNCHANGED <<op, row>>
  BY DEF FlightStore, FlightStoreFails, FlightPanics
<1>2. CASE store' = store
  BY <1>1, <1>2, Invisible
<1>3. CASE flight[o].pc = "store" /\ store' = store \cup {op[o].secret}
  <2>1. op[o].secret \in SecretNames
    BY <1>3 DEF IInv, TypeOK, FlightAgrees, OperationRow
  <2>2. Promise!Learn(op[o].secret)
    BY <1>1, <1>3 DEF Promise!Learn
  <2> QED BY <2>1, <2>2 DEF Promise!Next
<1> QED BY <1>2, <1>3 DEF FlightStore, FlightStoreFails, FlightPanics

(* Applying an operation takes effect as a whole.                          *)
LEMMA ApplyApplies ==
  ASSUME IInv, NEW o \in Operations, FlightApply(o) PROVE Promise!Next
<1>1. op[o].state = "pending" /\ op[o].secret \in store \cup {None}
  BY DEF IInv, FlightAgrees, FlightApply
<1>2. op[o].alias \in Aliases
  BY TouchedAlias DEF FlightApply
<1>3. \A a \in Aliases : WithoutDefault(a).secret = row[a].secret
  BY DEF IInv, TypeOK, ProviderRow, WithoutDefault
<1>4. SavedRow(o).secret = IF op[o].secret = None THEN row[op[o].alias].secret
                           ELSE op[o].secret
  BY DEF SavedRow
<1>5. \A a \in Aliases :
        row'[a].secret = IF a = op[o].alias /\ op[o].secret # None THEN op[o].secret
                         ELSE row[a].secret
  BY <1>3, <1>4 DEF FlightApply
<1>6. Binding' = IF op[o].secret = None THEN Binding
                 ELSE [Binding EXCEPT ![op[o].alias] = op[o].secret]
  BY <1>2, <1>5 DEF Binding
<1>7. Promise!Apply(o)
  BY <1>1, <1>6 DEF Promise!Apply, Binding, FlightApply
<1> QED BY <1>7 DEF Promise!Next

(* A flight ends its save committed or failed.                             *)
LEMMA FlightSettles ==
  ASSUME IInv, NEW o \in Operations, FlightCommit(o) \/ FlightFail(o)
  PROVE  [Promise!Next]_(Promise!vars)
<1>1. CASE FlightCommit(o)
  <2>1. op[o].state = "applied"
    BY <1>1 DEF IInv, FlightAgrees, FlightCommit
  <2>2. Promise!Finish(o)
    BY <1>1, <2>1 DEF Promise!Finish, FlightCommit
  <2> QED BY <2>2 DEF Promise!Next
<1>2. CASE FlightFail(o) /\ op' = op
  BY <1>2, Invisible DEF FlightFail
<1>3. CASE FlightFail(o) /\ op' = [op EXCEPT ![o].state = "failed"]
  <2>1. op[o].state = "pending"
    BY <1>3 DEF IInv, FlightAgrees, FlightFail
  <2>2. Promise!Fail(o)
    BY <1>3, <2>1 DEF Promise!Fail, FlightFail
  <2> QED BY <2>2 DEF Promise!Next
<1> QED BY <1>1, <1>2, <1>3 DEF FlightFail

(* A finalizing query commits an applied save.                             *)
LEMMA QueryFinishes ==
  ASSUME IInv, NEW c \in Callers, QueryCommit(c)
  PROVE  [Promise!Next]_(Promise!vars)
<1>1. CASE op' = op
  BY <1>1, Invisible DEF QueryCommit
<1>2. CASE op' = [op EXCEPT ![caller[c].op].state = "committed"]
  <2>1. caller[c].op \in Operations /\ op[caller[c].op].state = "applied"
    BY DEF IInv, CallersKnow, FinalizerHoldsRows, QueryCommit
  <2>2. Promise!Finish(caller[c].op)
    BY <1>2, <2>1 DEF Promise!Finish, QueryCommit
  <2> QED BY <2>1, <2>2 DEF Promise!Next
<1> QED BY <1>1, <1>2 DEF QueryCommit

(* A removal gives up the credential of one alias.                         *)
LEMMA RemovalUnbinds ==
  ASSUME IInv, NEW c \in Callers, RemoveRow(c)
  PROVE  [Promise!Next]_(Promise!vars)
<1>1. CASE row' = row
  BY <1>1, Invisible DEF RemoveRow
<1>2. CASE row' = [row EXCEPT ![caller[c].alias] = NoRow]
  <2>1. caller[c].alias \in Aliases
    BY TouchedAlias DEF RemoveRow
  <2>2. PICK released \in SUBSET Aliases : released = {caller[c].alias}
    BY <2>1
  <2>3. Binding' = [a \in Aliases |-> IF a \in released THEN None ELSE Binding[a]]
    BY <1>2, <2>1, <2>2 DEF IInv, TypeOK, NoRow, Binding
  <2>4. Promise!Unbind(released)
    BY <2>3 DEF Promise!Unbind, Binding, RemoveRow
  <2> QED BY <2>4 DEF Promise!Next
<1> QED BY <1>1, <1>2 DEF RemoveRow

(* Default and model changes do not concern the promise.                   *)
LEMMA DefaultsAreInvisible ==
  ASSUME IInv, NEW a \in Aliases, SetDefaultProvider(a)
  PROVE  UNCHANGED Promise!vars
<1>1. \A b \in Aliases : row'[b].secret = row[b].secret
  BY DEF IInv, TypeOK, ProviderRow, SetDefaultProvider
<1>2. Binding' = Binding
  BY <1>1 DEF Binding
<1> QED BY <1>2 DEF Promise!vars, Binding, SetDefaultProvider

(* Cleanup discards only what nothing uses.                                *)
LEMMA CleanupDiscards ==
  ASSUME IInv, NEW s \in SecretNames, CleanStep(s)
  PROVE  [Promise!Next]_(Promise!vars)
<1>1. UNCHANGED <<op, row>>
  BY DEF CleanStep, CleanCheck, CleanDelete, CleanDrop, CleanFails, durable
<1>2. CASE store' = store
  BY <1>1, <1>2, Invisible
<1>3. CASE cleaning[s] = "delete" /\ store' = store \ {s}
  <2>1. ~Referenced(s)
    BY <1>3 DEF IInv, DeletionsUnreferenced
  <2>2. ~Promise!InUse(s)
    BY <2>1 DEF Referenced, ReferencedByRow, Reserved, Active, Promise!InUse
  <2>3. Promise!Discard(s)
    BY <1>1, <1>3, <2>2 DEF Promise!Discard
  <2> QED BY <2>3 DEF Promise!Next
<1> QED
  BY <1>2, <1>3 DEF CleanStep, CleanCheck, CleanDelete, CleanDrop, CleanFails, durable

-----------------------------------------------------------------------------
(* Every step is a step of the promise or invisible to it.                 *)
LEMMA StepKeepsPromise ==
  ASSUME IInv, [Next]_vars PROVE [Promise!Next]_(Promise!vars)
<1>1. CASE UNCHANGED <<op, row, store>>
  BY <1>1, Invisible
<1>2. CASE Lifecycle
  BY <1>1, <1>2, BootUnbinds, RecoverRecovers, ServeForgets
  DEF Lifecycle, Crash, Stop, Exit, Sweep, durable
<1>3. CASE \E c \in Callers : Call(c)
  BY <1>1, <1>3, CommitSubmits
  DEF Call, CommitKnown, CommitBusy, CommitRejected, Get, RemoveProvider, durable
<1>4. CASE \E c \in Callers : Continue(c)
  BY <1>1, <1>4, QueryFinishes, RemovalUnbinds
  DEF Continue, Reread, FlightDone, CallReturns, QueryState, QuerySecret, QueryRefresh,
      QueryAbandons, durable
<1>5. CASE \E o \in Operations : FlightStep(o)
  BY <1>1, <1>5, StoreLearns, ApplyApplies, FlightSettles
  DEF FlightStep, FlightApplyFails, FlightRefresh, FlightFinalizeFails, FlightLand,
      FlightRelease, durable
<1>6. CASE \E s \in SecretNames : CleanStep(s)
  BY <1>6, CleanupDiscards
<1>7. CASE \E a \in Aliases : SetDefaultProvider(a)
  BY <1>7, DefaultsAreInvisible
<1> QED
  BY <1>1, <1>2, <1>3, <1>4, <1>5, <1>6, <1>7
  DEF Next, vars, durable, UpdateProviderModel, DispatchQuery, DispatchStart

(***************************************************************************)
(* The daemon keeps the promise a save makes to its client.                *)
(***************************************************************************)
THEOREM PromiseKept == Spec => KeepsPromise
<1>1. Init => Promise!Init
  BY InitialPromise
<1>2. IInv /\ [Next]_vars => [Promise!Next]_(Promise!vars)
  BY StepKeepsPromise
<1> QED BY <1>1, <1>2, Invariance, PTL DEF Spec, KeepsPromise, Promise!Spec

=============================================================================

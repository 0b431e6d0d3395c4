------------------------- MODULE ProviderOperations -------------------------
(***************************************************************************)
(* Durable provider saves of the ratchet daemon: the operation journal,    *)
(* the provider rows, the secret store and the secret cleanup queue of     *)
(* internal/daemon/provider_operations.go, provider_cleanup.go and the     *)
(* provider RPCs of service.go.                                            *)
(*                                                                         *)
(* A step is one database transaction, one call of the secret store or one *)
(* mutex section of the code; the daemon may crash between any two steps.  *)
(***************************************************************************)
EXTENDS Naturals, FiniteSets

CONSTANTS
  Operations,      \* client-chosen operation ids (canonical UUIDs)
  Aliases,         \* provider aliases
  Versions,        \* the fresh names provider-v2-<time>-<uuid>; bounds the saves
  Callers,         \* RPC handlers running at the same time
  Requests,        \* the save requests clients submit
  Legacy,          \* aliases an older daemon may have saved a provider under
  CleanupWorkers,  \* providerCleanupWorkers
  CleanupBatch,    \* candidates a dispatch reads per free worker
  None

(***************************************************************************)
(* The name provider_<alias> older daemons used is a function of the       *)
(* alias, so the alias itself stands for it.                               *)
(***************************************************************************)
SecretNames == Versions \cup Aliases

RequestType ==
  [alias: Aliases, credential: BOOLEAN, default: BOOLEAN, keyless: BOOLEAN]

ASSUME RequestsAssumption == Requests \subseteq RequestType
ASSUME LegacyAssumption == Legacy \subseteq Aliases
ASSUME CleanupAssumption ==
  CleanupWorkers \in Nat \ {0} /\ CleanupBatch \in Nat \ {0}
ASSUME NamesAssumption ==
  /\ Versions \cap Aliases = {}
  /\ Operations \cap Callers = {}
  /\ None \notin SecretNames \cup Operations \cup Callers

VARIABLES
  \* durable: the SQLite tables and the secret store
  op,        \* provider_operations, by operation id
  row,       \* llm_providers, by alias
  queue,     \* provider_secret_cleanup
  store,     \* names the secret store holds a value for
  used,      \* history: versioned names ever reserved (UUIDs never repeat)
  \* volatile: the memory of one daemon process
  daemon,    \* phase of the process
  flight,    \* runFlight goroutines, by operation id
  flights,   \* m.flights: the operation in flight on an alias
  gate,      \* m.aliases: holder of the alias gate
  rowsMu,    \* holder of engine.ProviderRowsMu
  caller,    \* RPC handlers
  batch,     \* candidates the running dispatchCleanup has still to start
  cleaning,  \* m.cleaning: phase of the cleanup worker of a secret
  redacted,  \* names registered with the secrets redactor
  stale      \* aliases whose row changed after the registry last dropped them

durable == <<op, row, queue, store, used>>
volatile == <<flight, flights, gate, rowsMu, caller, batch, cleaning,
              redacted, stale>>
vars == <<durable, daemon, volatile>>

-----------------------------------------------------------------------------
(***************************************************************************)
(* States and rows.                                                        *)
(***************************************************************************)
Terminal == {"committed", "failed"}
Active == {"pending", "applied"}
OperationState == {"absent"} \cup Active \cup Terminal

OperationRow == [state: OperationState, alias: Aliases \cup {None},
                 secret: SecretNames \cup {None}]
ProviderRow == [present: BOOLEAN, secret: SecretNames \cup {None},
                default: BOOLEAN, keyless: BOOLEAN]

NoOperation == [state |-> "absent", alias |-> None, secret |-> None]
NoRow ==
  [present |-> FALSE, secret |-> None, default |-> FALSE, keyless |-> FALSE]

(***************************************************************************)
(* A flight moves store -> apply -> refresh -> commit -> land -> release;  *)
(* a failure before the apply goes through fail to land. Which of the      *)
(* failure classes the journal records is not modelled.                    *)
(***************************************************************************)
FlightPhase == {"none", "store", "apply", "refresh", "commit", "fail",
                "land", "release"}
Flight == [pc: FlightPhase, default: BOOLEAN, keyless: BOOLEAN]
NoFlight == [pc |-> "none", default |-> FALSE, keyless |-> FALSE]

(* A caller in one of the Replies has its answer and only has to return.   *)
Replies == {"conflict", "alias_busy", "journal_error"}
CallerPhase == {"idle", "attached", "reread", "query", "secret", "lock",
                "commit", "remove"} \cup Replies
Caller == [pc: CallerPhase, op: Operations \cup {None},
           alias: Aliases \cup {None}]
IdleCaller == [pc |-> "idle", op |-> None, alias |-> None]

Phases == {"down", "starting", "recovered", "serving", "stopping"}
Running == daemon \in {"serving", "stopping"}

(* The names a provider row or an active operation refers to: what both    *)
(* reference counts of the code count.                                     *)
ReferencedByRow(s) == \E a \in Aliases : row[a].secret = s
Reserved(s) == \E o \in Operations : op[o].state \in Active /\ op[o].secret = s
Referenced(s) == ReferencedByRow(s) \/ Reserved(s)

ActiveOn(a) == \E o \in Operations : op[o].state \in Active /\ op[o].alias = a
Cleaners == {s \in SecretNames : cleaning[s] # "idle"}
Names(s) == {s} \ {None}   \* the empty name is no name: queueing it does nothing

-----------------------------------------------------------------------------
(***************************************************************************)
(* An installation with no journal yet: an older daemon may have saved     *)
(* some aliases, under their legacy names.                                 *)
(***************************************************************************)
FreshProcess ==
  /\ flight = [o \in Operations |-> NoFlight]
  /\ flights = [a \in Aliases |-> None]
  /\ gate = [a \in Aliases |-> None]
  /\ rowsMu = None
  /\ caller = [c \in Callers |-> IdleCaller]
  /\ batch = {}
  /\ cleaning = [s \in SecretNames |-> "idle"]
  /\ redacted = {}
  /\ stale = {}

ProcessLost ==
  /\ flight' = [o \in Operations |-> NoFlight]
  /\ flights' = [a \in Aliases |-> None]
  /\ gate' = [a \in Aliases |-> None]
  /\ rowsMu' = None
  /\ caller' = [c \in Callers |-> IdleCaller]
  /\ batch' = {}
  /\ cleaning' = [s \in SecretNames |-> "idle"]
  /\ redacted' = {}
  /\ stale' = {}

Init ==
  /\ \E legacy \in SUBSET Legacy :
       /\ row = [a \in Aliases |->
                   IF a \in legacy
                   THEN [NoRow EXCEPT !.present = TRUE, !.secret = a]
                   ELSE NoRow]
       /\ store = legacy
  /\ op = [o \in Operations |-> NoOperation]
  /\ queue = {}
  /\ used = {}
  /\ daemon = "down"
  /\ FreshProcess

(***************************************************************************)
(* The process dies, or its start fails: everything volatile is gone.      *)
(***************************************************************************)
Crash ==
  /\ daemon # "down"
  /\ daemon' = "down"
  /\ ProcessLost
  /\ UNCHANGED durable

-----------------------------------------------------------------------------
(***************************************************************************)
(* Start: engine construction, then reconcileStartup. No RPC is served     *)
(* before it returns; an error in any phase ends the process (Crash).      *)
(***************************************************************************)

(* initDB clears the secret of providers that need no key (a failed        *)
(* migration is only logged); the redactor loads the whole secret store.   *)
Boot ==
  /\ daemon = "down"
  /\ \/ row' = [a \in Aliases |->
                  IF row[a].keyless THEN [row[a] EXCEPT !.secret = None]
                                    ELSE row[a]]
     \/ row' = row
  /\ redacted' = store
  /\ daemon' = "starting"
  /\ UNCHANGED <<op, queue, store, used, flight, flights, gate, rowsMu,
                 caller, batch, cleaning, stale>>

(* Inherited pending operations fail; applied ones whose secret can be     *)
(* read are finalized, the others stay applied.                            *)
Recover ==
  /\ daemon = "starting"
  /\ \E finalized \in SUBSET {o \in Operations : op[o].state = "applied"} :
       /\ \A o \in finalized : op[o].secret \in store \cup {None}
       /\ op' = [o \in Operations |->
                   IF op[o].state = "pending"
                   THEN [op[o] EXCEPT !.state = "failed"]
                   ELSE IF o \in finalized
                   THEN [op[o] EXCEPT !.state = "committed"]
                   ELSE op[o]]
       /\ redacted' = redacted \cup ({op[o].secret : o \in finalized} \ {None})
  /\ daemon' = "recovered"
  /\ UNCHANGED <<row, queue, store, used, flight, flights, gate, rowsMu,
                 caller, batch, cleaning, stale>>

(* The sweep journals the versioned names nothing refers to, one by one.   *)
Orphans == {s \in Versions \cap store : ~Referenced(s)}

Sweep(s) ==
  /\ daemon = "recovered"
  /\ s \in Orphans \ queue
  /\ queue' = queue \cup {s}
  /\ UNCHANGED <<op, row, store, used, daemon, volatile>>

(* Then the expired terminal operations are deleted and the manager serves.*)
Serve ==
  /\ daemon = "recovered"
  /\ Orphans \subseteq queue
  /\ \E expired \in SUBSET {o \in Operations : op[o].state \in Terminal} :
       op' = [o \in Operations |->
                IF o \in expired THEN NoOperation ELSE op[o]]
  /\ daemon' = "serving"
  /\ UNCHANGED <<row, queue, store, used, volatile>>

(* Stop refuses new calls and cancels m.ctx; the process ends when every   *)
(* call, flight and cleanup worker has returned.                           *)
Stop ==
  /\ daemon = "serving"
  /\ daemon' = "stopping"
  /\ UNCHANGED <<durable, volatile>>

Exit ==
  /\ daemon = "stopping"
  /\ \A c \in Callers : caller[c].pc = "idle"
  /\ \A o \in Operations : flight[o].pc = "none"
  /\ batch = {} /\ Cleaners = {}
  /\ daemon' = "down"
  /\ ProcessLost
  /\ UNCHANGED durable

-----------------------------------------------------------------------------
(***************************************************************************)
(* Commit. Admission, replay and journaling are one section under m.mu,    *)
(* which waits inside for the alias gate.                                  *)
(***************************************************************************)
Goto(c, pc) == caller' = [caller EXCEPT ![c].pc = pc]
Enter(c, pc, o, a) ==
  caller' = [caller EXCEPT ![c] = [pc |-> pc, op |-> o, alias |-> a]]
Return(c) == caller' = [caller EXCEPT ![c] = IdleCaller]

Admitted(c) == daemon = "serving" /\ caller[c].pc = "idle"

(* The id is known: first write wins. *)
CommitKnown(c, o, r) ==
  /\ Admitted(c)
  /\ op[o].state # "absent"
  /\ \/ op[o].alias # r.alias /\ Enter(c, "conflict", None, None)
     \/ /\ op[o].alias = r.alias
        /\ flights[r.alias] = o
        /\ Enter(c, "attached", o, r.alias)
     \/ /\ op[o].alias = r.alias
        /\ flights[r.alias] # o
        /\ Enter(c, "query", o, None)
  /\ UNCHANGED <<durable, daemon, flight, flights, gate, rowsMu, batch,
                 cleaning, redacted, stale>>

CommitBusy(c, o, r) ==
  /\ Admitted(c)
  /\ op[o].state = "absent"
  /\ flights[r.alias] # None
  /\ Enter(c, "alias_busy", None, None)
  /\ UNCHANGED <<durable, daemon, flight, flights, gate, rowsMu, batch,
                 cleaning, redacted, stale>>

(* A new id: reserve a fresh name, insert the pending row, start a flight. *)
(* The unique index allows one active row per alias.                       *)
CommitNew(c, o, r) ==
  /\ Admitted(c)
  /\ op[o].state = "absent"
  /\ flights[r.alias] = None
  /\ gate[r.alias] = None
  /\ ~ActiveOn(r.alias)
  /\ \E s \in IF r.credential THEN Versions \ used ELSE {None} :
       /\ op' = [op EXCEPT ![o] = [state |-> "pending", alias |-> r.alias,
                                   secret |-> s]]
       /\ used' = used \cup Names(s)
  /\ flight' = [flight EXCEPT ![o] =
                  [pc |-> IF r.credential THEN "store" ELSE "apply",
                   default |-> r.default, keyless |-> r.keyless]]
  /\ flights' = [flights EXCEPT ![r.alias] = o]
  /\ gate' = [gate EXCEPT ![r.alias] = o]
  /\ Enter(c, "attached", o, r.alias)
  /\ UNCHANGED <<row, queue, store, daemon, rowsMu, batch, cleaning,
                 redacted, stale>>

(* The insert fails: the unique index, or any database error. *)
CommitRejected(c, o, r) ==
  /\ Admitted(c)
  /\ op[o].state = "absent"
  /\ flights[r.alias] = None
  /\ gate[r.alias] = None
  /\ Enter(c, "reread", o, r.alias)
  /\ UNCHANGED <<durable, daemon, flight, flights, gate, rowsMu, batch,
                 cleaning, redacted, stale>>

Reread(c) ==
  LET o == caller[c].op IN
  /\ caller[c].pc = "reread"
  /\ \/ op[o].state = "absent" /\ Goto(c, "journal_error")
     \/ /\ op[o].state # "absent"
        /\ op[o].alias # caller[c].alias
        /\ Enter(c, "conflict", None, None)
     \/ /\ op[o].state # "absent"
        /\ op[o].alias = caller[c].alias
        /\ Return(c)
  /\ UNCHANGED <<durable, daemon, flight, flights, gate, rowsMu, batch,
                 cleaning, redacted, stale>>

(* waitForFlight: the flight is done, and the caller queries the outcome.  *)
FlightDone(c) ==
  /\ caller[c].pc = "attached"
  /\ flights[caller[c].alias] # caller[c].op
  /\ Enter(c, "query", caller[c].op, None)
  /\ UNCHANGED <<durable, daemon, flight, flights, gate, rowsMu, batch,
                 cleaning, redacted, stale>>

(* A caller has its answer, is canceled, or meets a failing read.          *)
CallReturns(c) ==
  /\ caller[c].pc \in {"attached", "reread", "query", "secret"} \cup Replies
  /\ Return(c)
  /\ UNCHANGED <<durable, daemon, flight, flights, gate, rowsMu, batch,
                 cleaning, redacted, stale>>

-----------------------------------------------------------------------------
(***************************************************************************)
(* runFlight.                                                              *)
(***************************************************************************)
FlightGoto(o, pc) == flight' = [flight EXCEPT ![o].pc = pc]

FlightStore(o) ==
  /\ flight[o].pc = "store"
  /\ store' = store \cup {op[o].secret}
  /\ FlightGoto(o, "apply")
  /\ UNCHANGED <<op, row, queue, used, daemon, flights, gate, rowsMu, caller,
                 batch, cleaning, redacted, stale>>

(* Set reports an error; the value may have been written all the same.     *)
FlightStoreFails(o) ==
  /\ flight[o].pc = "store"
  /\ store' \in {store, store \cup {op[o].secret}}
  /\ FlightGoto(o, "fail")
  /\ UNCHANGED <<op, row, queue, used, daemon, flights, gate, rowsMu, caller,
                 batch, cleaning, redacted, stale>>

(* applyProviderLocked: one transaction moves the row to the new secret,   *)
(* queues the old one and marks the operation applied. The row mutex stays *)
(* held for the finalization.                                              *)
(* Mutant of SavedRow: the update keeps the secret of the row.             *)
SavedRowOldSecret(o) ==
  [row[op[o].alias] EXCEPT !.present = TRUE, !.default = flight[o].default,
                           !.keyless = flight[o].keyless]

SavedRow(o) ==
  LET a == op[o].alias IN
  [present |-> TRUE,
   secret |-> IF op[o].secret = None THEN row[a].secret ELSE op[o].secret,
   default |-> flight[o].default,
   keyless |-> flight[o].keyless]

WithoutDefault(a) == [row[a] EXCEPT !.default = FALSE]

FlightApply(o) ==
  /\ flight[o].pc = "apply"
  /\ rowsMu = None
  /\ rowsMu' = o
  /\ row' = [a \in Aliases |->
               IF a = op[o].alias THEN SavedRow(o)
               ELSE IF flight[o].default THEN WithoutDefault(a)
               ELSE row[a]]
  /\ queue' = IF op[o].secret = None THEN queue
              ELSE queue \cup Names(row[op[o].alias].secret)
  /\ op' = [op EXCEPT ![o].state = "applied"]
  /\ stale' = stale \cup {op[o].alias}
  /\ FlightGoto(o, "refresh")
  /\ UNCHANGED <<store, used, daemon, flights, gate, caller, batch, cleaning,
                 redacted>>

(* Mutant of FlightApplyFails: the failure is recorded under the row mutex.*)
FlightApplyFailsLocked(o) ==
  /\ flight[o].pc = "apply"
  /\ rowsMu = None
  /\ rowsMu' = o
  /\ FlightGoto(o, "fail")
  /\ UNCHANGED <<durable, daemon, flights, gate, caller, batch, cleaning,
                 redacted, stale>>

FlightApplyFails(o) ==
  /\ flight[o].pc = "apply"
  /\ rowsMu = None
  /\ FlightGoto(o, "fail")
  /\ UNCHANGED <<durable, daemon, flights, gate, rowsMu, caller, batch,
                 cleaning, redacted, stale>>

(* Mutant of FlightRefresh: neither redactor nor registry hears of the save. *)
FlightRefreshSkipped(o) ==
  /\ flight[o].pc = "refresh"
  /\ FlightGoto(o, "commit")
  /\ UNCHANGED <<durable, daemon, flights, gate, rowsMu, caller, batch,
                 cleaning, redacted, stale>>

(* finalizeOperationLocked: redactor and registry first, then the journal. *)
FlightRefresh(o) ==
  /\ flight[o].pc = "refresh"
  /\ redacted' = redacted \cup Names(op[o].secret)
  /\ stale' = stale \ {op[o].alias}
  /\ FlightGoto(o, "commit")
  /\ UNCHANGED <<durable, daemon, flights, gate, rowsMu, caller, batch,
                 cleaning>>

FlightCommit(o) ==
  /\ flight[o].pc = "commit"
  /\ op' = [op EXCEPT ![o].state = "committed"]
  /\ rowsMu' = None
  /\ FlightGoto(o, "land")
  /\ UNCHANGED <<row, queue, store, used, daemon, flights, gate, caller,
                 batch, cleaning, redacted, stale>>

(* Mutant of FlightFinalizeFails: the error path keeps the row mutex.      *)
FlightFinalizeFailsLocked(o) ==
  /\ flight[o].pc \in {"refresh", "commit"}
  /\ FlightGoto(o, "land")
  /\ UNCHANGED <<durable, daemon, flights, gate, rowsMu, caller, batch,
                 cleaning, redacted, stale>>

(* The finalization fails: the operation stays applied. *)
FlightFinalizeFails(o) ==
  /\ flight[o].pc \in {"refresh", "commit"}
  /\ rowsMu' = None
  /\ FlightGoto(o, "land")
  /\ UNCHANGED <<durable, daemon, flights, gate, caller, batch, cleaning,
                 redacted, stale>>

(* Mutant of FlightFail: the operation fails and its secret is not queued. *)
FlightFailForgets(o) ==
  /\ flight[o].pc = "fail"
  /\ rowsMu = None
  /\ op' \in {op, [op EXCEPT ![o].state = "failed"]}
  /\ FlightGoto(o, "land")
  /\ UNCHANGED <<row, queue, store, used, daemon, flights, gate, rowsMu, caller,
                 batch, cleaning, redacted, stale>>

(* failOperation queues the reserved name and fails the operation in one   *)
(* transaction; when that fails too the operation stays pending.           *)
FlightFail(o) ==
  /\ flight[o].pc = "fail"
  /\ rowsMu = None
  /\ \/ /\ queue' = queue \cup Names(op[o].secret)
        /\ op' = [op EXCEPT ![o].state = "failed"]
     \/ UNCHANGED <<queue, op>>
  /\ FlightGoto(o, "land")
  /\ UNCHANGED <<row, store, used, daemon, flights, gate, rowsMu, caller,
                 batch, cleaning, redacted, stale>>

(* Mutant of FlightPanics: the recovery fails whatever it finds.           *)
FlightPanicsBlindly(o) ==
  /\ flight[o].pc \in {"store", "refresh"}
  /\ rowsMu' = IF rowsMu = o THEN None ELSE rowsMu
  /\ FlightGoto(o, "fail")
  /\ UNCHANGED <<durable, daemon, flights, gate, caller, batch, cleaning,
                 redacted, stale>>

(* A panic in the secret store, the redactor or the registry unwinds to    *)
(* the recovery, which fails the operation only while it is pending.       *)
FlightPanics(o) ==
  /\ \/ /\ flight[o].pc = "store"
        /\ store' \in {store, store \cup {op[o].secret}}
        /\ UNCHANGED <<rowsMu, redacted>>
     \/ /\ flight[o].pc = "refresh"
        /\ redacted' \in {redacted, redacted \cup Names(op[o].secret)}
        /\ rowsMu' = None
        /\ UNCHANGED store
  /\ FlightGoto(o, IF op[o].state = "pending" THEN "fail" ELSE "land")
  /\ UNCHANGED <<op, row, queue, used, daemon, flights, gate, caller, batch,
                 cleaning, stale>>

(* The flight leaves m.flights and wakes its callers, then frees the gate. *)
FlightLand(o) ==
  /\ flight[o].pc = "land"
  /\ flights' = [flights EXCEPT ![op[o].alias] = None]
  /\ FlightGoto(o, "release")
  /\ UNCHANGED <<durable, daemon, gate, rowsMu, caller, batch, cleaning,
                 redacted, stale>>

FlightRelease(o) ==
  /\ flight[o].pc = "release"
  /\ gate' = [gate EXCEPT ![op[o].alias] = None]
  /\ flight' = [flight EXCEPT ![o] = NoFlight]
  /\ UNCHANGED <<durable, daemon, flights, rowsMu, caller, batch, cleaning,
                 redacted, stale>>

-----------------------------------------------------------------------------
(***************************************************************************)
(* Get, and the tail of every Commit that found its operation: read the    *)
(* state; when applied, read the secret outside the row mutex, then        *)
(* finalize inside it.                                                     *)
(***************************************************************************)
Get(c, o) ==
  /\ Admitted(c)
  /\ op[o].state # "absent"
  /\ Enter(c, "query", o, None)
  /\ UNCHANGED <<durable, daemon, flight, flights, gate, rowsMu, batch,
                 cleaning, redacted, stale>>

QueryState(c) ==
  LET o == caller[c].op IN
  /\ caller[c].pc = "query"
  /\ op[o].state = "applied"
  /\ Goto(c, IF op[o].secret = None THEN "lock" ELSE "secret")
  /\ UNCHANGED <<durable, daemon, flight, flights, gate, rowsMu, batch,
                 cleaning, redacted, stale>>

QuerySecret(c) ==
  /\ caller[c].pc = "secret"
  /\ op[caller[c].op].secret \in store
  /\ Goto(c, "lock")
  /\ UNCHANGED <<durable, daemon, flight, flights, gate, rowsMu, batch,
                 cleaning, redacted, stale>>

(* The state is read again under the mutex: another finalizer may be done, *)
(* or the read may fail, and the call returns.                             *)
QueryRefresh(c) ==
  LET o == caller[c].op IN
  /\ caller[c].pc = "lock"
  /\ rowsMu = None
  /\ op[o].state = "applied"
  /\ rowsMu' = c
  /\ redacted' = redacted \cup Names(op[o].secret)
  /\ stale' = stale \ {op[o].alias}
  /\ Goto(c, "commit")
  /\ UNCHANGED <<durable, daemon, flight, flights, gate, batch, cleaning>>

QueryAbandons(c) ==
  /\ caller[c].pc = "lock"
  /\ rowsMu = None
  /\ Return(c)
  /\ UNCHANGED <<durable, daemon, flight, flights, gate, rowsMu, batch,
                 cleaning, redacted, stale>>

QueryCommit(c) ==
  /\ caller[c].pc = "commit"
  /\ \/ op' = [op EXCEPT ![caller[c].op].state = "committed"]
     \/ op' = op
  /\ rowsMu' = None
  /\ Return(c)
  /\ UNCHANGED <<row, queue, store, used, daemon, flight, flights, gate,
                 batch, cleaning, redacted, stale>>

-----------------------------------------------------------------------------
(***************************************************************************)
(* RemoveProvider takes the alias gate, then the row mutex for one         *)
(* transaction. SetDefaultProvider and UpdateProviderModel take the row    *)
(* mutex only. Each drops its alias from the registry cache.               *)
(***************************************************************************)
RemoveProvider(c, a) ==
  /\ Admitted(c)
  /\ gate[a] = None
  /\ gate' = [gate EXCEPT ![a] = c]
  /\ Enter(c, "remove", None, a)
  /\ UNCHANGED <<durable, daemon, flight, flights, rowsMu, batch, cleaning,
                 redacted, stale>>

RemoveRow(c) ==
  LET a == caller[c].alias IN
  /\ caller[c].pc = "remove"
  /\ rowsMu = None
  /\ \/ /\ row' = [row EXCEPT ![a] = NoRow]
        /\ queue' = queue \cup Names(row[a].secret)
        /\ stale' = stale \ {a}
     \/ UNCHANGED <<row, queue, stale>>
  /\ gate' = [gate EXCEPT ![a] = None]
  /\ Return(c)
  /\ UNCHANGED <<op, store, used, daemon, flight, flights, rowsMu, batch,
                 cleaning, redacted>>

(* Mutant of SetDefaultProvider: without the row mutex. *)
SetDefaultUnlocked(a) ==
  /\ daemon = "serving"
  /\ row' = [b \in Aliases |->
               [row[b] EXCEPT !.default = (b = a /\ row[b].present)]]
  /\ UNCHANGED <<op, queue, store, used, daemon, volatile>>

(* An alias without a row leaves no default at all. *)
SetDefaultProvider(a) ==
  /\ daemon = "serving"
  /\ rowsMu = None
  /\ row' = [b \in Aliases |->
               [row[b] EXCEPT !.default = (b = a /\ row[b].present)]]
  /\ stale' = stale \ {a}
  /\ UNCHANGED <<op, queue, store, used, daemon, flight, flights, gate,
                 rowsMu, caller, batch, cleaning, redacted>>

(* The model text itself is not modelled. *)
UpdateProviderModel(a) ==
  /\ daemon = "serving"
  /\ rowsMu = None
  /\ row[a].present
  /\ stale' = stale \ {a}
  /\ UNCHANGED <<durable, daemon, flight, flights, gate, rowsMu, caller,
                 batch, cleaning, redacted>>

-----------------------------------------------------------------------------
(***************************************************************************)
(* Secret cleanup. dispatchCleanup reads due names (the back-off decides   *)
(* which are due), then starts a worker for each while slots are free.     *)
(***************************************************************************)
DispatchQuery ==
  /\ daemon = "serving"
  /\ batch = {}
  /\ \E due \in SUBSET queue :
       /\ due # {}
       /\ Cardinality(due)
            <= CleanupBatch * (CleanupWorkers - Cardinality(Cleaners))
       /\ batch' = due
  /\ UNCHANGED <<durable, daemon, flight, flights, gate, rowsMu, caller,
                 cleaning, redacted, stale>>

DispatchStart(s) ==
  /\ Running
  /\ s \in batch
  /\ IF Cardinality(Cleaners) >= CleanupWorkers
     THEN batch' = {} /\ UNCHANGED cleaning
     ELSE /\ batch' = batch \ {s}
          /\ cleaning' = IF s \in Cleaners THEN cleaning
                         ELSE [cleaning EXCEPT ![s] = "check"]
  /\ UNCHANGED <<durable, daemon, flight, flights, gate, rowsMu, caller,
                 redacted, stale>>

(* cleanupSecret: count the references, delete the secret if there is none,*)
(* delete the queue row in both cases.                                     *)
CleanerGoto(s, pc) == cleaning' = [cleaning EXCEPT ![s] = pc]

(* Mutant of CleanCheck: a secret in use keeps its place in the queue.     *)
CleanLater(s) ==
  /\ cleaning[s] = "check"
  /\ CleanerGoto(s, IF Referenced(s) THEN "idle" ELSE "delete")
  /\ UNCHANGED <<durable, daemon, flight, flights, gate, rowsMu, caller,
                 batch, redacted, stale>>

CleanCheck(s) ==
  /\ cleaning[s] = "check"
  /\ CleanerGoto(s, IF Referenced(s) THEN "drop" ELSE "delete")
  /\ UNCHANGED <<durable, daemon, flight, flights, gate, rowsMu, caller,
                 batch, redacted, stale>>

CleanDelete(s) ==
  /\ cleaning[s] = "delete"
  /\ store' = store \ {s}
  /\ CleanerGoto(s, "drop")
  /\ UNCHANGED <<op, row, queue, used, daemon, flight, flights, gate, rowsMu,
                 caller, batch, redacted, stale>>

CleanDrop(s) ==
  /\ cleaning[s] = "drop"
  /\ queue' = queue \ {s}
  /\ CleanerGoto(s, "idle")
  /\ UNCHANGED <<op, row, store, used, daemon, flight, flights, gate, rowsMu,
                 caller, batch, redacted, stale>>

(* A failing query, deletion or panic leaves the queue row for a retry.    *)
CleanFails(s) ==
  /\ cleaning[s] # "idle"
  /\ store' \in IF cleaning[s] = "delete" THEN {store, store \ {s}} ELSE {store}
  /\ CleanerGoto(s, "idle")
  /\ UNCHANGED <<op, row, queue, used, daemon, flight, flights, gate, rowsMu,
                 caller, batch, redacted, stale>>

-----------------------------------------------------------------------------
Lifecycle ==
  \/ Crash \/ Boot \/ Recover \/ Serve \/ Stop \/ Exit
  \/ \E s \in Versions : Sweep(s)

Call(c) ==
  \/ \E o \in Operations, r \in Requests :
       \/ CommitKnown(c, o, r) \/ CommitBusy(c, o, r)
       \/ CommitNew(c, o, r) \/ CommitRejected(c, o, r)
  \/ \E o \in Operations : Get(c, o)
  \/ \E a \in Aliases : RemoveProvider(c, a)

Continue(c) ==
  \/ Reread(c) \/ FlightDone(c) \/ CallReturns(c)
  \/ QueryState(c) \/ QuerySecret(c) \/ QueryRefresh(c)
  \/ QueryAbandons(c) \/ QueryCommit(c) \/ RemoveRow(c)

FlightStep(o) ==
  \/ FlightStore(o) \/ FlightStoreFails(o) \/ FlightApply(o)
  \/ FlightApplyFails(o) \/ FlightRefresh(o) \/ FlightCommit(o)
  \/ FlightFinalizeFails(o) \/ FlightFail(o) \/ FlightPanics(o)
  \/ FlightLand(o) \/ FlightRelease(o)

CleanStep(s) ==
  CleanCheck(s) \/ CleanDelete(s) \/ CleanDrop(s) \/ CleanFails(s)

Next ==
  \/ Lifecycle
  \/ \E c \in Callers : Call(c) \/ Continue(c)
  \/ \E o \in Operations : FlightStep(o)
  \/ \E a \in Aliases : SetDefaultProvider(a) \/ UpdateProviderModel(a)
  \/ DispatchQuery
  \/ \E s \in SecretNames : DispatchStart(s) \/ CleanStep(s)

Spec == Init /\ [][Next]_vars

(***************************************************************************)
(* Goroutines run and Go's mutexes do not starve a waiter, so a flight and *)
(* a call that can go on for ever again do go on, and a stopping manager   *)
(* that has drained ends. Nothing makes a client call, a daemon stop, or a *)
(* stopped daemon boot.                                                    *)
(***************************************************************************)
FlightFairness ==
  /\ \A o \in Operations : SF_vars(FlightStep(o))
  /\ \A c \in Callers : SF_vars(Continue(c))

(***************************************************************************)
(* The dispatcher takes the longest due name first, so each queued name    *)
(* gets its turn, and a step of a cleanup that is retried for ever         *)
(* succeeds.                                                               *)
(***************************************************************************)
CleanupFairness ==
  \A s \in SecretNames :
    /\ SF_vars(DispatchQuery /\ s \in batch')
    /\ SF_vars(DispatchStart(s) /\ cleaning[s] = "idle" /\ cleaning'[s] = "check")
    /\ SF_vars(CleanCheck(s))
    /\ SF_vars(CleanDelete(s))
    /\ SF_vars(CleanDrop(s))

LiveSpec == Spec /\ FlightFairness /\ WF_vars(Exit) /\ CleanupFairness

-----------------------------------------------------------------------------
(***************************************************************************)
(* Type invariant.                                                         *)
(***************************************************************************)
TypeOK ==
  /\ op \in [Operations -> OperationRow]
  /\ row \in [Aliases -> ProviderRow]
  /\ queue \subseteq SecretNames
  /\ store \subseteq SecretNames
  /\ used \subseteq Versions
  /\ daemon \in Phases
  /\ flight \in [Operations -> Flight]
  /\ flights \in [Aliases -> Operations \cup {None}]
  /\ gate \in [Aliases -> Operations \cup Callers \cup {None}]
  /\ rowsMu \in Operations \cup Callers \cup {None}
  /\ caller \in [Callers -> Caller]
  /\ batch \subseteq SecretNames
  /\ cleaning \in [SecretNames -> {"idle", "check", "delete", "drop"}]
  /\ redacted \subseteq SecretNames
  /\ stale \subseteq Aliases

(***************************************************************************)
(* The secret behind every provider row and every applied operation can be *)
(* read, whatever the cleanup workers, removals, failed saves, crashes and *)
(* restarts around it do (cleanupSecret counts references outside any lock *)
(* and deletes afterwards).                                                *)
(***************************************************************************)
CredentialAvailable ==
  /\ \A a \in Aliases : row[a].secret \in store \cup {None}
  /\ \A o \in Operations :
       op[o].state = "applied" => op[o].secret \in store \cup {None}

(***************************************************************************)
(* A save reported FAILED left no trace: no provider row uses its secret.  *)
(* The recovery of a panicking flight and the restart both fail operations *)
(* without knowing how far the flight came.                                *)
(***************************************************************************)
FailedSaveHasNoEffect ==
  \A o \in Operations : op[o].state = "failed" /\ op[o].secret # None =>
    ~ReferencedByRow(op[o].secret)

(***************************************************************************)
(* While a flight finalizes, the row still is the one it saved: no removal,*)
(* default change or other save comes between applying and committing.     *)
(***************************************************************************)
FlightFinalizesItsRow ==
  \A o \in Operations : flight[o].pc \in {"refresh", "commit"} =>
    LET saved == row[op[o].alias] IN
    /\ saved.present
    /\ saved.default = flight[o].default
    /\ op[o].secret # None => saved.secret = op[o].secret

(***************************************************************************)
(* Saves, removals and default changes together never leave two defaults.  *)
(***************************************************************************)
AtMostOneDefault ==
  \A a, b \in Aliases : row[a].default /\ row[b].default => a = b

(***************************************************************************)
(* The registry can serve an outdated provider only while an operation on  *)
(* the alias waits to be finalized.                                        *)
(***************************************************************************)
StaleOnlyWhileApplied ==
  \A a \in stale : \E o \in Operations :
    op[o].alias = a /\ op[o].state = "applied"

(***************************************************************************)
(* A committed save's secret is known to the redactor, in the process that *)
(* committed it and after every restart.                                   *)
(***************************************************************************)
CommittedIsRedacted ==
  daemon # "down" => \A o \in Operations :
    op[o].state = "committed" /\ op[o].secret \in store =>
      op[o].secret \in redacted

(***************************************************************************)
(* Ownership: an operation in flight holds the gate of its alias, and two  *)
(* operations on one alias are never active together, so a save and a      *)
(* removal of one provider never overlap.                                  *)
(***************************************************************************)
FlightOwnsAlias ==
  /\ \A o \in Operations : flight[o].pc # "none" => gate[op[o].alias] = o
  /\ \A c \in Callers : caller[c].pc = "remove" => gate[caller[c].alias] = c
  /\ \A o, p \in Operations :
       op[o].state \in Active /\ op[p].state \in Active
         /\ op[o].alias = op[p].alias => o = p

(***************************************************************************)
(* Saves, removals and default changes of one provider exclude each other, *)
(* through the gate, the index of active operations and the row mutex: a   *)
(* save commits the row it wrote, and one default is left.                 *)
(***************************************************************************)
SavesAreExclusive == FlightOwnsAlias /\ FlightFinalizesItsRow /\ AtMostOneDefault

(***************************************************************************)
(* What the process keeps in memory follows its tables: the redactor knows *)
(* the secrets of committed saves, and the registry is behind only for an  *)
(* alias whose operation still waits to be finalized.                      *)
(***************************************************************************)
MemoryFollowsTables == CommittedIsRedacted /\ StaleOnlyWhileApplied

(***************************************************************************)
(* The life of an operation: first write wins, nothing leaves a terminal   *)
(* state but the pruning of a restart, an applied save never fails.        *)
(***************************************************************************)
LifecycleStep(from, to, starting) ==
  \/ from = to
  \/ from = "absent" /\ to = "pending"
  \/ from = "pending" /\ to \in {"applied", "failed"}
  \/ from = "applied" /\ to = "committed"
  \/ from \in Terminal /\ to = "absent" /\ starting

OperationLifecycle ==
  [][\A o \in Operations :
       LifecycleStep(op[o].state, op'[o].state, daemon = "recovered")]_vars

(***************************************************************************)
(* Only a name that nothing refers to is ever deleted from the store.      *)
(***************************************************************************)
OnlyUnreferencedDeleted == [][\A s \in store \ store' : ~Referenced(s)]_vars

(***************************************************************************)
(* A daemon that serves never loses sight of a secret it stores: something *)
(* refers to it or it waits for cleanup. No failed or panicking save, no   *)
(* replacement, removal, replay or restart orphans one (runFlight,         *)
(* failOperation, applyProviderLocked, reconcileStartup). Two steps can:   *)
(* a cleanup that found the name in use drops it from the queue after the  *)
(* use has ended, and an applied save is finalized after a removal has     *)
(* taken its row. The sweep of the next start finds what they leave.       *)
(***************************************************************************)
Tracked(s) == s \in store => Referenced(s) \/ s \in queue

DropsUsed(s) == cleaning[s] = "drop" /\ s \in queue \ queue'
FinalizesRemoved(s) ==
  /\ ~ReferencedByRow(s)
  /\ \E o \in Operations : /\ op[o].secret = s
                           /\ op[o].state = "applied" /\ op'[o].state = "committed"

SecretsStayTracked ==
  [][\A s \in SecretNames :
       /\ (Running /\ Tracked(s)) \/ (daemon = "recovered" /\ s \in Versions)
       /\ daemon' \in {"serving", "stopping"}
       => Tracked(s)' \/ DropsUsed(s) \/ FinalizesRemoved(s)]_vars

(***************************************************************************)
(* Every flight lands, whatever fails, panics, is removed or finalizes     *)
(* beside it: its alias never stays busy and its callers never wait on.    *)
(***************************************************************************)
FlightLands ==
  \A o \in Operations : flight[o].pc # "none" ~> flight[o].pc = "none"

(***************************************************************************)
(* Stop returns: every call, flight and cleanup worker drains.             *)
(***************************************************************************)
StopCompletes == daemon = "stopping" ~> daemon = "down"

(***************************************************************************)
(* Nothing that was admitted hangs: flights land and a stop completes.     *)
(***************************************************************************)
WorkEnds == FlightLands /\ StopCompletes

(***************************************************************************)
(* Cleanup makes progress: while the daemon serves, a queued name leaves   *)
(* the queue, because its secret is gone or because it is in use.          *)
(***************************************************************************)
QueuedNameSettles ==
  \A s \in SecretNames :
    s \in queue /\ daemon = "serving" ~> s \notin queue \/ daemon # "serving"

(***************************************************************************)
(* The daemon keeps the promise of ProviderSave: each of its steps is a    *)
(* step of a save as a client sees it, or invisible.                       *)
(***************************************************************************)
Promise ==
  INSTANCE ProviderSave WITH
    saves <- op, binding <- [a \in Aliases |-> row[a].secret], readable <- store

KeepsPromise == Promise!Spec

=============================================================================

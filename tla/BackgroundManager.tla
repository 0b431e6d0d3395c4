-------------------------- MODULE BackgroundManager --------------------------
(***************************************************************************)
(* The background drains of the daemon, internal/acpclient/background.go   *)
(* and background_audit.go, for one session: a client that acknowledges    *)
(* unattended execution starts a worker that drains the queue of the       *)
(* session, and stops it again; a daemon that starts resumes the policies  *)
(* that are enabled.                                                       *)
(*                                                                         *)
(* Every change of a policy is journaled, stored, put on the audit log and *)
(* taken off the journal, in four writes that may each fail or be the last *)
(* of the process. A write that fails may have reached the disk all the    *)
(* same (storeCommitUnconfirmed). A step is one write or one section under *)
(* m.mu; a file lock is released with the section that gave it up. Why a   *)
(* policy ended (stopped, completed, blocked, error) is left out.          *)
(***************************************************************************)
EXTENDS Naturals, Sequences, FiniteSets

CONSTANTS
  Callers,    \* RPC handlers of BackgroundDrainStart and BackgroundDrainStop
  Workers,    \* goroutines of launched workers
  Boot,       \* the process that calls Resume before the daemon serves
  None,
  MaxCalls,   \* bound on the calls of clients
  MaxBoots,   \* bound on the starts of the daemon
  MaxFaults   \* bound on the reads and writes that fail

Procs == Callers \cup Workers \cup {Boot}

(* A transition on the journal or the log, and a stored policy.            *)
Entry == [event : Nat, ends : BOOLEAN]
Policy == [enabled : BOOLEAN, degraded : BOOLEAN]

ASSUME BackgroundAssumption ==
  /\ Callers \cap Workers = {}
  /\ Boot \notin Callers \cup Workers
  /\ None \notin Procs /\ None \notin Entry /\ None \notin Policy
  /\ MaxCalls \in Nat /\ MaxBoots \in Nat /\ MaxFaults \in Nat

VARIABLES
  \* files
  policy,      \* background.json
  journal,     \* background-transitions.json
  audit,       \* background-audit.jsonl
  latched,     \* the cancellation latch of the session
  lease,       \* who holds the file lock of the session's worker
  admission,   \* who holds the file lock of the session's launches
  \* memory of one daemon process
  phase,       \* "down", "resuming", "up" or "closing"
  transition,  \* m.transitions, with the one that reserved it
  active,      \* m.active
  stopping,    \* m.stopping: the Stop that owns the end of the worker
  handoff,     \* what that Stop has put on its channel
  guard,       \* m.terminal: "none", "clean" or "degraded"
  proc,        \* what each goroutine does, and the record it persists
  run,         \* how a worker ended and whom it heard of a Stop from
  joins,       \* the worker that a Stop found active
  unlaunched,  \* history: a policy on record was not launched, and none since
  \* bounds
  drawn, calls, boots, faults

files == <<policy, journal, audit, latched>>
locks == <<lease, admission>>
maps == <<transition, active, stopping, handoff, guard>>
bounds == <<calls, boots, unlaunched>>   \* with the history
vars == <<files, locks, phase, maps, proc, run, joins, drawn, bounds, faults>>

-----------------------------------------------------------------------------
Idle == [at |-> "idle", ends |-> FALSE, failed |-> FALSE, stored |-> FALSE, ok |-> FALSE,
         entry |-> None]
NoRun == [canceled |-> FALSE, result |-> "none", owner |-> None, answer |-> "none"]

Init ==
  /\ policy = None /\ journal = None /\ audit = <<>>
  /\ latched = FALSE
  /\ phase = "down"
  /\ lease = None /\ admission = None
  /\ transition = None /\ active = None /\ stopping = None
  /\ handoff = "none" /\ guard = "none"
  /\ proc = [p \in Procs |-> Idle]
  /\ run = [w \in Workers |-> NoRun]
  /\ joins = [c \in Callers |-> None]
  /\ unlaunched = FALSE
  /\ drawn = 0 /\ calls = 0 /\ boots = 0 /\ faults = 0

(* The process ends, and its file locks with it. *)
Down ==
  /\ phase' = "down"
  /\ lease' = None /\ admission' = None
  /\ transition' = None /\ active' = None /\ stopping' = None
  /\ handoff' = "none" /\ guard' = "none"
  /\ proc' = [p \in Procs |-> Idle]
  /\ run' = [w \in Workers |-> NoRun]
  /\ joins' = [c \in Callers |-> None]
  /\ unlaunched' = FALSE
  /\ UNCHANGED <<files, drawn, calls, boots, faults>>

At(p, at) == proc[p].at = at
Goto(p, at) == proc' = [proc EXCEPT ![p].at = at]

(* Where persistBeforeLaunch and persistTerminal start, and where they end. *)
Persisting(ends) == [Idle EXCEPT !.at = "journal", !.ends = ends]
Persist(p, ends) == proc' = [proc EXCEPT ![p] = Persisting(ends)]
LaunchFails(p) == proc' = [proc EXCEPT ![p] = [Persisting(TRUE) EXCEPT !.failed = TRUE]]
Persisted(p, at, ok) ==
  proc' = [proc EXCEPT ![p] = [Idle EXCEPT !.at = at, !.ends = proc[p].ends,
                                           !.failed = proc[p].failed, !.ok = ok]]
Recorded(p, ok) == Persisted(p, "recorded", ok)

Fault == faults < MaxFaults /\ faults' = faults + 1
Stored(enabled, degraded) == [enabled |-> enabled, degraded |-> degraded]
Enabled == policy # None /\ policy.enabled

-----------------------------------------------------------------------------
(***************************************************************************)
(* The four writes. A launch that fails in one of them goes on to record   *)
(* an error; the record of an end that fails is left to the next daemon.   *)
(***************************************************************************)
PutTransition(p) ==
  LET entry == [event |-> drawn + 1, ends |-> proc[p].ends] IN
  /\ At(p, "journal")
  /\ drawn' = drawn + 1
  /\ \/ /\ journal' = entry
        /\ proc' = [proc EXCEPT ![p].at = "state", ![p].entry = entry]
        /\ UNCHANGED faults
     \/ /\ Fault
        /\ journal' \in {journal, entry}
        /\ IF proc[p].ends THEN Recorded(p, FALSE) ELSE LaunchFails(p)
  /\ UNCHANGED <<policy, audit, latched, locks, phase, maps, run, joins, bounds>>

(* Upsert: an end is stored as degraded until the log has it. *)
Upsert(p) ==
  LET record == Stored(~proc[p].ends, proc[p].ends) IN
  /\ At(p, "state")
  /\ \/ /\ policy' = record
        /\ proc' = [proc EXCEPT ![p].at = "audit", ![p].stored = TRUE]
        /\ UNCHANGED faults
     \/ /\ Fault
        /\ policy' \in {policy, record}
        /\ IF proc[p].ends THEN Goto(p, "audit") ELSE LaunchFails(p)
  /\ UNCHANGED <<journal, audit, latched, locks, phase, maps, run, joins, drawn, bounds>>

(* Append leaves the log alone when it has a record of the event. *)
Logged(event) == \E i \in DOMAIN audit : audit[i].event = event

AppendedAlways(p) ==   \* mutant of Appended: without the look at the log
  Append(audit, proc[p].entry)

Appended(p) ==
  IF Logged(proc[p].entry.event) THEN audit ELSE Append(audit, proc[p].entry)

AfterAudit(p) ==
  IF ~proc[p].ends THEN Goto(p, "clear")
  ELSE IF proc[p].stored THEN Goto(p, "final") ELSE Recorded(p, FALSE)

AppendAuditLenient(p) ==   \* mutant of AppendAudit: a launch goes on when it fails
  /\ At(p, "audit")
  /\ \/ /\ audit' = Appended(p)
        /\ AfterAudit(p)
        /\ UNCHANGED faults
     \/ /\ Fault
        /\ audit' \in {audit, Appended(p)}
        /\ IF proc[p].ends THEN Recorded(p, FALSE) ELSE Goto(p, "clear")
  /\ UNCHANGED <<policy, journal, latched, locks, phase, maps, run, joins, drawn, bounds>>

AppendAudit(p) ==
  /\ At(p, "audit")
  /\ \/ /\ audit' = Appended(p)
        /\ AfterAudit(p)
        /\ UNCHANGED faults
     \/ /\ Fault
        /\ audit' \in {audit, Appended(p)}
        /\ IF proc[p].ends THEN Recorded(p, FALSE) ELSE LaunchFails(p)
  /\ UNCHANGED <<policy, journal, latched, locks, phase, maps, run, joins, drawn, bounds>>

UpsertFinal(p) ==
  /\ At(p, "final")
  /\ \/ /\ policy' = Stored(FALSE, FALSE)
        /\ Goto(p, "clear")
        /\ UNCHANGED faults
     \/ /\ Fault
        /\ policy' \in {policy, Stored(FALSE, FALSE)}
        /\ Recorded(p, FALSE)
  /\ UNCHANGED <<journal, audit, latched, locks, phase, maps, run, joins, drawn, bounds>>

RemoveTransition(p) ==
  /\ At(p, "clear")
  /\ \/ /\ journal' = None
        /\ IF proc[p].ends THEN Recorded(p, TRUE) ELSE Persisted(p, "launch", TRUE)
        /\ UNCHANGED faults
     \/ /\ Fault
        /\ journal' \in {journal, None}
        /\ IF proc[p].ends THEN Goto(p, "mark") ELSE LaunchFails(p)
  /\ UNCHANGED <<policy, audit, latched, locks, phase, maps, run, joins, drawn, bounds>>

UpsertDegraded(p) ==
  /\ At(p, "mark")
  /\ \/ policy' = Stored(FALSE, TRUE) /\ UNCHANGED faults
     \/ policy' \in {policy, Stored(FALSE, TRUE)} /\ Fault
  /\ Recorded(p, FALSE)
  /\ UNCHANGED <<journal, audit, latched, locks, phase, maps, run, joins, drawn, bounds>>

Write(p) ==
  \/ PutTransition(p) \/ Upsert(p) \/ AppendAudit(p)
  \/ UpsertFinal(p) \/ RemoveTransition(p) \/ UpsertDegraded(p)

-----------------------------------------------------------------------------
(***************************************************************************)
(* launchPersistedPolicy: the latch is read again under the lock of the    *)
(* session's launches, and the worker takes the lease over.                *)
(***************************************************************************)
Launch(p) ==
  LET w == CHOOSE w \in Workers : At(w, "idle") IN
  /\ \E v \in Workers : At(v, "idle")
  /\ active' = w
  /\ transition' = None
  /\ lease' = w
  /\ guard' = "none"
  /\ run' = [run EXCEPT ![w] = NoRun]
  /\ proc' = [proc EXCEPT ![p] = Idle, ![w].at = "watch"]

(* rememberTerminal *)
Guard(ok) == guard' = IF ok THEN "clean" ELSE "degraded"

(* releaseTransition *)
Release(p) ==
  /\ transition' = None
  /\ lease' = IF lease = p THEN None ELSE lease

LaunchPersisted(p) ==
  /\ p \notin Workers
  /\ At(p, "launch")
  /\ admission = None
  /\ \/ /\ latched
        /\ Persist(p, TRUE)
        /\ UNCHANGED <<lease, phase, transition, active, guard, run>>
     \/ /\ ~latched
        /\ phase # "closing"
        /\ Launch(p)
        /\ phase' = "up"
     \/ /\ ~latched
        /\ phase = "closing"
        /\ Release(p)
        /\ proc' = [proc EXCEPT ![p] = Idle]
        /\ UNCHANGED <<phase, active, guard, run>>
  /\ UNCHANGED <<files, admission, stopping, handoff, joins, drawn, bounds, faults>>

(***************************************************************************)
(* The launch fails although the policy is on record: the lock of the      *)
(* launches or the session cannot be had, or the profile's lease cannot be *)
(* given back. Start returns the error and records nothing of it.          *)
(***************************************************************************)
LaunchUnadmitted(c) ==
  /\ At(c, "launch")
  /\ Fault
  /\ Release(c)
  /\ proc' = [proc EXCEPT ![c] = Idle]
  /\ unlaunched' = TRUE
  /\ UNCHANGED <<files, admission, phase, active, stopping, handoff, guard, run,
                 joins, drawn, calls, boots>>

-----------------------------------------------------------------------------
(***************************************************************************)
(* Start looks for a reservation and a worker under m.mu, and reserves the *)
(* session under m.mu again. The profile may be untrusted, or lose its     *)
(* trust before its lease is taken: then the policy is stored as blocked.  *)
(***************************************************************************)
Start(c) ==
  /\ phase = "up"
  /\ At(c, "idle")
  /\ calls < MaxCalls /\ calls' = calls + 1
  /\ ~latched
  /\ transition = None /\ active = None
  /\ Goto(c, "reserve")
  /\ UNCHANGED <<files, locks, phase, maps, run, joins, unlaunched, drawn, boots, faults>>

Refused(c) ==
  /\ proc' = [proc EXCEPT ![c] = Idle]
  /\ UNCHANGED <<lease, transition, unlaunched>>

ReserveUnleased(c) ==   \* mutant of Reserve: without the lease
  /\ At(c, "reserve")
  /\ \/ /\ phase = "closing" \/ transition # None
        /\ Refused(c)
     \/ /\ phase = "up" /\ transition = None
        /\ transition' = c
        /\ unlaunched' = FALSE
        /\ \E ends \in BOOLEAN : Persist(c, ends)
        /\ UNCHANGED lease
  /\ UNCHANGED <<files, admission, phase, active, stopping, handoff, guard,
                 run, joins, drawn, calls, boots, faults>>

Reserve(c) ==
  /\ At(c, "reserve")
  /\ \/ /\ phase = "closing" \/ transition # None \/ lease # None
        /\ Refused(c)
     \/ /\ phase = "up" /\ transition = None /\ lease = None
        /\ transition' = c
        /\ lease' = c
        /\ unlaunched' = FALSE
        /\ \E ends \in BOOLEAN : Persist(c, ends)
  /\ UNCHANGED <<files, admission, phase, active, stopping, handoff, guard,
                 run, joins, drawn, calls, boots, faults>>

StartRefused(c) ==
  /\ stopping # c
  /\ At(c, "recorded")
  /\ Guard(proc[c].ok)
  /\ Release(c)
  /\ proc' = [proc EXCEPT ![c] = Idle]
  /\ UNCHANGED <<files, admission, phase, active, stopping, handoff,
                 run, joins, drawn, bounds, faults>>

-----------------------------------------------------------------------------
(***************************************************************************)
(* Stop reserves the session and becomes the owner of the worker's end,    *)
(* reads the policy, records the end, and only then tells the worker: that *)
(* it may leave the record to Stop, or that it has to keep its own.        *)
(***************************************************************************)
Stop(c) ==
  /\ phase = "up"
  /\ At(c, "idle")
  /\ calls < MaxCalls /\ calls' = calls + 1
  /\ transition = None
  /\ active # None \/ lease = None
  /\ transition' = c
  /\ stopping' = c
  /\ handoff' = "none"
  /\ joins' = [joins EXCEPT ![c] = active]
  /\ lease' = IF active = None THEN c ELSE lease
  /\ Goto(c, "read")
  /\ UNCHANGED <<files, admission, phase, active, guard, run, unlaunched, drawn, boots,
                 faults>>

(* releaseStopTransition *)
ReleaseStop(c) ==
  /\ Release(c)
  /\ stopping' = None
  /\ handoff' = "none"
  /\ proc' = [proc EXCEPT ![c] = Idle]
  /\ joins' = [joins EXCEPT ![c] = None]

(* A worker that waits on the channel of this Stop hears from it. *)
Tell(c, answer) ==
  [w \in Workers |->
     IF run[w].owner = c /\ run[w].answer = "none"
     THEN [run[w] EXCEPT !.answer = answer] ELSE run[w]]

StopReads(c) ==
  /\ At(c, "read")
  /\ policy # None
  /\ Persist(c, TRUE)
  /\ UNCHANGED <<files, locks, phase, maps, run, joins, drawn, bounds, faults>>

(* Without a policy Stop returns, and so it does when it cannot read it:   *)
(* then nothing is ever put on the channel.                                *)
StopUnread(c) ==
  /\ At(c, "read")
  /\ \/ policy = None /\ UNCHANGED faults
     \/ policy # None /\ Fault
  /\ run' = Tell(c, "never")
  /\ ReleaseStop(c)
  /\ UNCHANGED <<files, admission, phase, active, guard, drawn, bounds>>

StopFailedSilent(c) ==   \* mutant of StopFailed: the worker is not told
  /\ stopping = c
  /\ At(c, "recorded")
  /\ ~proc[c].ok
  /\ Guard(FALSE)
  /\ ReleaseStop(c)
  /\ UNCHANGED <<files, admission, phase, active, run, drawn, bounds, faults>>

StopFailedUnguarded(c) ==   \* mutant of StopFailed: nothing tells the status
  /\ stopping = c
  /\ At(c, "recorded")
  /\ ~proc[c].ok
  /\ run' = Tell(c, "keep")
  /\ ReleaseStop(c)
  /\ UNCHANGED <<files, admission, phase, active, guard, drawn, bounds, faults>>

StopFailed(c) ==
  /\ stopping = c
  /\ At(c, "recorded")
  /\ ~proc[c].ok
  /\ Guard(FALSE)
  /\ run' = Tell(c, "keep")
  /\ ReleaseStop(c)
  /\ UNCHANGED <<files, admission, phase, active, drawn, bounds, faults>>

StopRecorded(c) ==
  /\ stopping = c
  /\ At(c, "recorded")
  /\ proc[c].ok
  /\ joins[c] # None
  /\ guard' = "none"
  /\ handoff' = "yield"
  /\ run' = [Tell(c, "yield") EXCEPT ![joins[c]].canceled = TRUE]
  /\ Goto(c, "join")
  /\ UNCHANGED <<files, locks, phase, transition, active, stopping, joins,
                 drawn, bounds, faults>>

(* No worker, or a second record: what a worker failed with since.         *)
StopDone(c) ==
  /\ stopping = c
  /\ At(c, "recorded")
  /\ joins[c] = None
  /\ guard' = IF proc[c].ok THEN "none" ELSE "degraded"
  /\ ReleaseStop(c)
  /\ UNCHANGED <<files, admission, phase, active, run, drawn, bounds, faults>>

Join(c) ==
  LET w == joins[c] IN
  /\ At(c, "join")
  /\ At(w, "idle")
  /\ \/ /\ run[w].result = "error"
        /\ Persist(c, TRUE)
        /\ joins' = [joins EXCEPT ![c] = None]
        /\ UNCHANGED <<lease, transition, stopping, handoff>>
     \/ /\ run[w].result # "error"
        /\ ReleaseStop(c)
  /\ UNCHANGED <<files, admission, phase, active, guard, run, drawn, bounds, faults>>

-----------------------------------------------------------------------------
(***************************************************************************)
(* watchWorker ends: with the context that Stop or Shutdown canceled, with *)
(* an error or a panic of its own, or because the queue is done or the     *)
(* session canceled. workerDone looks for a Stop, and reserves the session *)
(* when nobody else has.                                                   *)
(***************************************************************************)
Canceled(w) == run[w].canceled \/ phase = "closing"

Ends(w, result) ==
  /\ At(w, "watch")
  /\ result = "canceled" => Canceled(w)
  /\ transition' = IF transition = None THEN w ELSE transition
  /\ run' = [run EXCEPT ![w].result = result, ![w].owner = stopping,
                        ![w].answer = IF stopping = None THEN "keep" ELSE handoff]
  /\ Goto(w, "handoff")
  /\ UNCHANGED <<files, locks, phase, active, stopping, handoff, guard, joins,
                 drawn, bounds, faults>>

(* A worker that keeps its record takes the lock of the launches.          *)
Heard(w) ==
  /\ At(w, "handoff")
  /\ run[w].answer \in {"keep", "yield"}
  /\ Goto(w, IF run[w].answer = "keep" THEN "admit" ELSE "unlease")
  /\ UNCHANGED <<files, locks, phase, maps, run, joins, drawn, bounds, faults>>

(* A worker that only the end of the daemon canceled leaves its policy as  *)
(* it is, unless the session is canceled; one that cannot read the latch   *)
(* records an error.                                                       *)
Admit(w) ==
  /\ At(w, "admit")
  /\ admission = None
  /\ \/ /\ run[w].result = "canceled" /\ ~latched
        /\ Goto(w, "unlease")
        /\ UNCHANGED <<admission, run, faults>>
     \/ /\ run[w].result # "canceled" \/ latched
        /\ admission' = w
        /\ Persist(w, TRUE)
        /\ UNCHANGED <<run, faults>>
     \/ /\ Fault
        /\ admission' = w
        /\ Persist(w, TRUE)
        /\ run' = [run EXCEPT ![w].result = "error"]
  /\ UNCHANGED <<files, lease, phase, maps, joins, drawn, bounds>>

WorkerRecorded(w) ==
  /\ At(w, "recorded")
  /\ admission' = None
  /\ Goto(w, "unlease")
  /\ UNCHANGED <<files, lease, phase, maps, run, joins, drawn, bounds, faults>>

Unlease(w) ==
  /\ At(w, "unlease")
  /\ lease' = IF run[w].answer = "yield" THEN run[w].owner
              ELSE IF lease = w THEN None ELSE lease
  /\ Goto(w, "leave")
  /\ UNCHANGED <<files, admission, phase, maps, run, joins, drawn, bounds, faults>>

(* close(worker.done): what remains is the error that a Stop looks at. *)
Left(w) ==
  /\ proc' = [proc EXCEPT ![w] = Idle]
  /\ run' = [run EXCEPT ![w] = [NoRun EXCEPT !.result = run[w].result]]

LeaveUnguarded(w) ==   \* mutant of Leave: without the terminal guard
  /\ At(w, "leave")
  /\ active' = IF active = w THEN None ELSE active
  /\ transition' = IF transition = w THEN None ELSE transition
  /\ Left(w)
  /\ UNCHANGED <<files, locks, phase, stopping, handoff, guard, joins,
                 drawn, bounds, faults>>

Leave(w) ==
  /\ At(w, "leave")
  /\ active' = IF active = w THEN None ELSE active
  /\ transition' = IF transition = w THEN None ELSE transition
  /\ IF proc[w].ends THEN Guard(proc[w].ok) ELSE UNCHANGED guard
  /\ Left(w)
  /\ UNCHANGED <<files, locks, phase, stopping, handoff, joins,
                 drawn, bounds, faults>>

-----------------------------------------------------------------------------
(***************************************************************************)
(* NewDaemonService calls Resume before it serves: the last record of the  *)
(* log settles a policy that it ended, a journaled transition is recorded  *)
(* as an end whatever it was, and a policy that is still enabled starts    *)
(* again. The daemon does not start when a write fails.                    *)
(***************************************************************************)
Resume ==
  /\ phase = "down"
  /\ boots < MaxBoots /\ boots' = boots + 1
  /\ phase' = "resuming"
  /\ transition' = Boot
  /\ lease' = Boot
  /\ Goto(Boot, "settle")
  /\ UNCHANGED <<files, admission, active, stopping, handoff, guard, run, joins,
                 unlaunched, drawn, calls, faults>>

(* reconcileTerminalAudit *)
Settle ==
  LET settled == policy # None /\ audit # <<>> /\ audit[Len(audit)].ends IN
  /\ At(Boot, "settle")
  /\ policy' = IF settled THEN Stored(FALSE, FALSE) ELSE policy
  /\ guard' = IF settled THEN "clean" ELSE guard
  /\ Goto(Boot, "reconcile")
  /\ UNCHANGED <<journal, audit, latched, locks, phase, transition, active, stopping,
                 handoff, run, joins, drawn, bounds, faults>>

(* A launch or an end that could not be recorded makes Resume return an    *)
(* error. One of a read, of the write above or of a launch that is not     *)
(* admitted leaves what a crash leaves.                                    *)
ResumeFails ==
  /\ At(Boot, "recorded")
  /\ ~proc[Boot].ok \/ proc[Boot].failed
  /\ Down

ReconcileNone ==   \* mutant of Reconcile: the journal is not looked at
  /\ At(Boot, "reconcile")
  /\ Goto(Boot, "resume")
  /\ UNCHANGED <<files, locks, phase, maps, run, joins, drawn, bounds, faults>>

Reconcile ==
  /\ At(Boot, "reconcile")
  /\ proc' = [proc EXCEPT ![Boot] =
                IF journal = None THEN [Idle EXCEPT !.at = "resume"]
                ELSE [Idle EXCEPT !.at = "state", !.ends = TRUE, !.entry = journal]]
  /\ UNCHANGED <<files, locks, phase, maps, run, joins, drawn, bounds, faults>>

(* A policy of a canceled session, or of a profile that is no longer the   *)
(* trusted one, is ended.                                                  *)
ResumePolicy ==
  /\ At(Boot, "resume")
  /\ Enabled
  /\ \E ends \in BOOLEAN : (latched => ends) /\ Persist(Boot, ends)
  /\ UNCHANGED <<files, locks, phase, maps, run, joins, drawn, bounds, faults>>

ResumeRecorded ==
  /\ At(Boot, "recorded")
  /\ proc[Boot].ok /\ ~proc[Boot].failed
  /\ Guard(TRUE)
  /\ Goto(Boot, "resume")
  /\ UNCHANGED <<files, locks, phase, transition, active, stopping, handoff,
                 run, joins, drawn, bounds, faults>>

Serve ==
  /\ At(Boot, "resume")
  /\ ~Enabled
  /\ phase' = "up"
  /\ Release(Boot)
  /\ proc' = [proc EXCEPT ![Boot] = Idle]
  /\ UNCHANGED <<files, admission, active, stopping, handoff, guard, run, joins,
                 drawn, bounds, faults>>

-----------------------------------------------------------------------------
(***************************************************************************)
(* Shutdown cancels the workers and waits for calls and workers.           *)
(***************************************************************************)
Shutdown ==
  /\ phase = "up"
  /\ phase' = "closing"
  /\ UNCHANGED <<files, locks, maps, proc, run, joins, drawn, bounds, faults>>

Exit ==
  /\ phase = "closing"
  /\ \A p \in Procs : At(p, "idle")
  /\ Down

Crash ==
  /\ phase # "down"
  /\ Down

(* RequestCancel, in any process *)
Cancel ==
  /\ ~latched
  /\ admission = None
  /\ latched' = TRUE
  /\ UNCHANGED <<policy, journal, audit, locks, phase, maps, proc, run, joins,
                 drawn, bounds, faults>>

-----------------------------------------------------------------------------
Call(c) == Start(c) \/ Stop(c)

Handle(c) ==
  \/ Reserve(c) \/ StartRefused(c) \/ LaunchPersisted(c) \/ LaunchUnadmitted(c)
  \/ StopReads(c) \/ StopUnread(c) \/ StopFailed(c) \/ StopRecorded(c)
  \/ StopDone(c) \/ Join(c) \/ Write(c)

Work(w) ==
  \/ Ends(w, "canceled") \/ Heard(w) \/ Admit(w) \/ WorkerRecorded(w)
  \/ Unlease(w) \/ Leave(w) \/ Write(w)

Resuming ==
  \/ Settle \/ ResumeFails \/ Reconcile \/ ResumePolicy \/ ResumeRecorded \/ Serve
  \/ LaunchPersisted(Boot) \/ Write(Boot)

Next ==
  \/ Resume \/ Resuming \/ Shutdown \/ Exit \/ Crash \/ Cancel
  \/ \E c \in Callers : Call(c) \/ Handle(c)
  \/ \E w \in Workers : Work(w) \/ Ends(w, "clean") \/ Ends(w, "error")

Spec == Init /\ [][Next]_vars

(***************************************************************************)
(* Goroutines run, locks are handed over in the end, and a watcher returns *)
(* once its context is done. Nothing makes a daemon start or stop, a       *)
(* client call, or a watcher return before that.                           *)
(***************************************************************************)
FairSpec ==
  /\ Spec
  /\ WF_vars(Exit)
  /\ \A c \in Callers : WF_vars(Handle(c))
  /\ \A w \in Workers : WF_vars(Work(w))

-----------------------------------------------------------------------------
(***************************************************************************)
(* Type invariant.                                                         *)
(***************************************************************************)
TypeOK ==
  /\ policy \in Policy \cup {None}
  /\ journal \in Entry \cup {None}
  /\ audit \in Seq(Entry)
  /\ latched \in BOOLEAN
  /\ lease \in Procs \cup {None} /\ transition \in Procs \cup {None}
  /\ admission \in Workers \cup {None} /\ active \in Workers \cup {None}
  /\ stopping \in Callers \cup {None}
  /\ handoff \in {"none", "yield"}
  /\ guard \in {"none", "clean", "degraded"}
  /\ phase \in {"down", "resuming", "up", "closing"}
  /\ proc \in [Procs -> [at : {"idle", "settle", "reconcile", "resume", "reserve", "read",
       "journal", "state", "audit", "final", "clear", "mark", "recorded", "launch",
       "join", "watch", "handoff", "admit", "unlease", "leave"},
       ends : BOOLEAN, failed : BOOLEAN, stored : BOOLEAN, ok : BOOLEAN, entry : Entry \cup {None}]]
  /\ run \in [Workers -> [canceled : BOOLEAN,
       result : {"none", "canceled", "clean", "error"}, owner : Callers \cup {None},
       answer : {"none", "keep", "yield", "never"}]]
  /\ joins \in [Callers -> Workers \cup {None}]
  /\ unlaunched \in BOOLEAN
  /\ drawn \in Nat /\ calls \in Nat /\ boots \in Nat /\ faults \in Nat

(***************************************************************************)
(* Two workers never drain the session at a time: Start looks for a worker *)
(* before it reserves the session, and a worker gives up its lease before  *)
(* it leaves m.active.                                                     *)
(***************************************************************************)
OneWorker ==
  \A v, w \in Workers : At(v, "watch") /\ At(w, "watch") => v = w

(***************************************************************************)
(* No worker starts unless the log says so in its last record, the policy  *)
(* is stored as enabled and the journal is empty: whatever fails and       *)
(* wherever a process ended, nothing runs unattended off the record.       *)
(***************************************************************************)
LaunchIsOnRecord ==
  [][\A w \in Workers : At(w, "idle") /\ proc'[w].at = "watch" =>
       /\ policy = Stored(TRUE, FALSE)
       /\ journal = None
       /\ audit # <<>> /\ ~audit[Len(audit)].ends]_vars

(***************************************************************************)
(* A daemon resumes a policy only when the launch or the resume that       *)
(* enabled it was completed: one that a crash or a failed write cut short  *)
(* does not start on its own.                                              *)
(***************************************************************************)
ResumesCompleted ==
  At(Boot, "journal") /\ ~proc[Boot].ends =>
    journal = None /\ audit # <<>> /\ ~audit[Len(audit)].ends

(***************************************************************************)
(* While a worker may go on, its policy is stored as enabled, or a Stop is *)
(* about to cancel it, or the status says that the record is degraded. It  *)
(* takes two failing writes to hide it: then a worker that one failed Stop *)
(* left behind may report its own end after another Stop failed.           *)
(***************************************************************************)
DisabledRunsNothing ==
  faults <= 1 =>
    \A w \in Workers : At(w, "watch") /\ ~Canceled(w) =>
      Enabled \/ stopping # None \/ guard = "degraded"

(***************************************************************************)
(* A session that is reported as enabled and that no call works on has a   *)
(* worker, unless the last Start recorded the policy and then could not    *)
(* launch one: whatever else fails, status and worker agree.               *)
(***************************************************************************)
EnabledHasWorker ==
  phase = "up" /\ transition = None /\ guard = "none" /\ Enabled
    => active # None \/ unlaunched

(***************************************************************************)
(* What the policy says and what runs agree, through every combination of  *)
(* calls, failing writes, and workers that end while they are stopped.     *)
(***************************************************************************)
PolicyMatchesWorker == DisabledRunsNothing /\ EnabledHasWorker

(***************************************************************************)
(* An event is on the log once, though a daemon that starts appends the    *)
(* journaled one again.                                                    *)
(***************************************************************************)
LoggedOnce ==
  \A i, j \in DOMAIN audit : audit[i].event = audit[j].event => i = j

(***************************************************************************)
(* What a crash cut short is taken up exactly: its event is logged once,   *)
(* and its worker is not started unless its launch was on record.          *)
(***************************************************************************)
RecoveryIsExact == LoggedOnce /\ ResumesCompleted

(***************************************************************************)
(* Shutdown returns, but for a worker that a Stop left without an answer   *)
(* when it could not read the policy.                                      *)
(***************************************************************************)
ShutdownReturns ==
  phase = "closing" ~> \/ phase = "down"
                       \/ \E w \in Workers : run[w].answer = "never"

=============================================================================

-------------------------- MODULE BackgroundProofs --------------------------
(***************************************************************************)
(* Proofs about BackgroundManager: its inductive invariant and the         *)
(* properties that follow from it.                                         *)
(***************************************************************************)
EXTENDS BackgroundInvariant, TLAPS

Places == {"idle", "settle", "reconcile", "resume", "reserve", "read",
           "journal", "state", "audit", "final", "clear", "mark", "recorded", "launch",
           "join", "watch", "handoff", "admit", "unlease", "leave"}
Process == [at : Places, ends : BOOLEAN, failed : BOOLEAN, stored : BOOLEAN,
            ok : BOOLEAN, entry : Entry \cup {None}]
RunType == [canceled : BOOLEAN, result : {"none", "canceled", "clean", "error"},
            owner : Callers \cup {None}, answer : {"none", "keep", "yield", "never"}]

(* A Start that returns without a worker.                                  *)
StartEnds(c) == StartRefused(c) \/ LaunchUnadmitted(c)

(***************************************************************************)
(* The steps, by what they are about.                                      *)
(***************************************************************************)
LEMMA Steps ==
  ASSUME [Next]_vars
  PROVE  \/ UNCHANGED vars \/ Down
         \/ Resume \/ Settle \/ Reconcile \/ ResumePolicy \/ ResumeRecorded \/ Serve
         \/ Shutdown \/ Cancel
         \/ \E p \in Procs : Write(p)
         \/ \E p \in Callers \cup {Boot} : LaunchPersisted(p)
         \/ \E c \in Callers :
              \/ Start(c) \/ Stop(c) \/ Reserve(c) \/ StartEnds(c) \/ StopReads(c)
              \/ StopUnread(c) \/ StopFailed(c) \/ StopRecorded(c) \/ StopDone(c)
              \/ Join(c)
         \/ \E w \in Workers :
              \/ Ends(w, "canceled") \/ Ends(w, "clean") \/ Ends(w, "error")
              \/ Heard(w) \/ Admit(w) \/ WorkerRecorded(w) \/ Unlease(w) \/ Leave(w)
  BY DEF Next, Resuming, ResumeFails, Exit, Crash, Call, Handle, Work, Procs, StartEnds

(* A launch takes the reservation and the lease of its starter over.       *)
LEMMA Launches ==
  ASSUME TypeOK, NEW p \in Callers \cup {Boot}, Launch(p)
  PROVE  \E w \in Workers :
           /\ At(w, "idle") /\ p # w
           /\ active' = w /\ transition' = None /\ lease' = w /\ guard' = "none"
           /\ run' = [run EXCEPT ![w] = NoRun]
           /\ \A q \in Procs \ {p, w} : proc'[q] = proc[q]
           /\ proc'[p] = Idle
           /\ proc'[w] = [proc[w] EXCEPT !.at = "watch"]
           /\ proc' \in [Procs -> Process]
<1>1. PICK w \in Workers : w = CHOOSE v \in Workers : At(v, "idle")
  BY DEF Launch
<1>2. At(w, "idle")
  BY <1>1 DEF Launch
<1>3. p # w /\ p \in Procs /\ w \in Procs
  BY BackgroundAssumption DEF Procs
<1>4. proc' = [proc EXCEPT ![p] = Idle, ![w].at = "watch"]
  BY <1>1 DEF Launch
<1>5. Idle \in Process /\ [proc[w] EXCEPT !.at = "watch"] \in Process
  BY <1>3 DEF TypeOK, Process, Places, Idle
<1>6. proc' \in [Procs -> Process]
  BY <1>3, <1>4, <1>5 DEF TypeOK, Process, Places
<1> QED BY <1>1, <1>2, <1>3, <1>4, <1>6 DEF Launch, TypeOK

(***************************************************************************)
(* What a step of one goroutine makes of it, and leaves of the others.     *)
(***************************************************************************)
Becomes(p, at, ends, ok) ==
  /\ proc' \in [Procs -> Process]
  /\ \A q \in Procs \ {p} : proc'[q] = proc[q]
  /\ proc'[p].at = at /\ proc'[p].ends = ends /\ proc'[p].ok = ok

(* What each way of moving a process makes of it, and nobody else moves.   *)
LEMMA Moves ==
  ASSUME TypeOK, NEW p \in Procs
  PROVE  /\ \A at \in Places : Goto(p, at) =>
              Becomes(p, at, proc[p].ends, proc[p].ok)
              /\ proc'[p].stored = proc[p].stored /\ proc'[p].entry = proc[p].entry
              /\ proc'[p].failed = proc[p].failed
         /\ \A ends \in BOOLEAN : Persist(p, ends) =>
              Becomes(p, "journal", ends, FALSE) /\ proc'[p].stored = FALSE
         /\ LaunchFails(p) =>
              Becomes(p, "journal", TRUE, FALSE) /\ proc'[p].stored = FALSE
         /\ \A at \in Places, ok \in BOOLEAN : Persisted(p, at, ok) =>
              Becomes(p, at, proc[p].ends, ok)
         /\ \A at \in Places, entry \in Entry :
              proc' = [proc EXCEPT ![p].at = at, ![p].entry = entry] =>
                Becomes(p, at, proc[p].ends, proc[p].ok) /\ proc'[p].entry = entry
         /\ \A at \in Places, stored \in BOOLEAN :
              proc' = [proc EXCEPT ![p].at = at, ![p].stored = stored] =>
                Becomes(p, at, proc[p].ends, proc[p].ok) /\ proc'[p].entry = proc[p].entry
                /\ proc'[p].stored = stored
         /\ proc' = [proc EXCEPT ![p] = Idle] =>
              Becomes(p, "idle", FALSE, FALSE) /\ proc'[p] = Idle
<1>1. /\ proc \in [Procs -> Process] /\ proc[p] \in Process
  BY DEF TypeOK, Process, Places
<1>2. ASSUME NEW r \in Process, proc' = [proc EXCEPT ![p] = r]
      PROVE  /\ proc' \in [Procs -> Process] /\ proc'[p] = r
             /\ \A q \in Procs \ {p} : proc'[q] = proc[q]
  BY <1>1, <1>2
<1>3. ASSUME NEW at \in Places, Goto(p, at)
      PROVE  Becomes(p, at, proc[p].ends, proc[p].ok)
              /\ proc'[p].stored = proc[p].stored /\ proc'[p].entry = proc[p].entry
              /\ proc'[p].failed = proc[p].failed
  <2>1. [proc[p] EXCEPT !.at = at] \in Process
    BY <1>1 DEF Process
  <2>2. proc' = [proc EXCEPT ![p] = [proc[p] EXCEPT !.at = at]]
    BY <1>3 DEF Goto
  <2> QED BY <1>1, <1>2, <2>1, <2>2 DEF Becomes, Process
<1>4. ASSUME NEW ends \in BOOLEAN, Persist(p, ends)
      PROVE  Becomes(p, "journal", ends, FALSE) /\ proc'[p].stored = FALSE
  <2>1. Persisting(ends) \in Process /\ Persisting(ends).at = "journal"
        /\ Persisting(ends).ends = ends /\ Persisting(ends).ok = FALSE
        /\ Persisting(ends).stored = FALSE
    BY DEF Process, Persisting, Idle, Places
  <2> QED BY <1>2, <1>4, <2>1 DEF Becomes, Persist
<1>5. ASSUME LaunchFails(p)
      PROVE  Becomes(p, "journal", TRUE, FALSE) /\ proc'[p].stored = FALSE
  <2>1. PICK r : r = [Persisting(TRUE) EXCEPT !.failed = TRUE]
    OBVIOUS
  <2>2. r \in Process /\ r.at = "journal" /\ r.ends = TRUE /\ r.ok = FALSE
        /\ r.stored = FALSE
    BY <2>1 DEF Process, Persisting, Idle, Places
  <2>3. proc' = [proc EXCEPT ![p] = r]
    BY <1>5, <2>1 DEF LaunchFails
  <2> QED BY <1>2, <2>2, <2>3 DEF Becomes
<1>6. ASSUME NEW at \in Places, NEW ok \in BOOLEAN, Persisted(p, at, ok)
      PROVE  Becomes(p, at, proc[p].ends, ok)
  <2>1. PICK r : r = [Idle EXCEPT !.at = at, !.ends = proc[p].ends,
                                  !.failed = proc[p].failed, !.ok = ok]
    OBVIOUS
  <2>2. r \in Process /\ r.at = at /\ r.ends = proc[p].ends /\ r.ok = ok
    BY <1>1, <2>1 DEF Process, Idle, Places
  <2>3. proc' = [proc EXCEPT ![p] = r]
    BY <1>6, <2>1 DEF Persisted
  <2> QED BY <1>2, <2>2, <2>3 DEF Becomes
<1>7. ASSUME NEW at \in Places, NEW entry \in Entry,
             proc' = [proc EXCEPT ![p].at = at, ![p].entry = entry]
      PROVE  Becomes(p, at, proc[p].ends, proc[p].ok) /\ proc'[p].entry = entry
  <2>1. PICK r : r = [proc[p] EXCEPT !.at = at, !.entry = entry]
    OBVIOUS
  <2>2. /\ r \in Process /\ r.at = at /\ r.entry = entry /\ r.ends = proc[p].ends
        /\ r.ok = proc[p].ok
    BY <1>1, <2>1 DEF Process
  <2>3. proc' = [proc EXCEPT ![p] = r]
    BY <1>1, <1>7, <2>1 DEF Process
  <2> QED BY <1>2, <2>2, <2>3 DEF Becomes
<1>8. ASSUME NEW at \in Places, NEW stored \in BOOLEAN,
             proc' = [proc EXCEPT ![p].at = at, ![p].stored = stored]
      PROVE  Becomes(p, at, proc[p].ends, proc[p].ok) /\ proc'[p].entry = proc[p].entry
             /\ proc'[p].stored = stored
  <2>1. PICK r : r = [proc[p] EXCEPT !.at = at, !.stored = stored]
    OBVIOUS
  <2>2. /\ r \in Process /\ r.at = at /\ r.entry = proc[p].entry /\ r.ends = proc[p].ends
        /\ r.ok = proc[p].ok /\ r.stored = stored
    BY <1>1, <2>1 DEF Process
  <2>3. proc' = [proc EXCEPT ![p] = r]
    BY <1>1, <1>8, <2>1 DEF Process
  <2> QED BY <1>2, <2>2, <2>3 DEF Becomes
<1>9. ASSUME proc' = [proc EXCEPT ![p] = Idle]
      PROVE  Becomes(p, "idle", FALSE, FALSE) /\ proc'[p] = Idle
  <2>1. Idle \in Process /\ Idle.at = "idle" /\ Idle.ends = FALSE /\ Idle.ok = FALSE
    BY DEF Process, Idle, Places
  <2> QED BY <1>2, <1>9, <2>1 DEF Becomes
<1> QED BY <1>3, <1>4, <1>5, <1>6, <1>7, <1>8, <1>9

-----------------------------------------------------------------------------
(***************************************************************************)
(* The effects of the writes: on the files, the writer and the faults.     *)
(***************************************************************************)
WriteFrame(p) ==
  /\ UNCHANGED <<latched, lease, admission, phase, transition, active, stopping, handoff,
                 guard, run, joins, unlaunched, calls, boots>>
  /\ proc' \in [Procs -> Process]
  /\ \A q \in Procs \ {p} : proc'[q] = proc[q]

(* A write that fails: an end is given up, a launch becomes an end.        *)
GivesUp(p) ==
  \/ proc[p].ends = TRUE /\ Becomes(p, "recorded", TRUE, FALSE)
  \/ proc[p].ends = FALSE /\ Becomes(p, "journal", TRUE, FALSE) /\ proc'[p].stored = FALSE

(* The two ways in which a write that fails goes on.                       *)
LEMMA GivingUp ==
  ASSUME TypeOK, NEW p \in Procs,
         IF proc[p].ends THEN Recorded(p, FALSE) ELSE LaunchFails(p)
  PROVE  GivesUp(p)
<1>1. proc[p].ends \in BOOLEAN
  BY DEF TypeOK
<1>2. CASE proc[p].ends = TRUE
  <2>1. Persisted(p, "recorded", FALSE)
    BY <1>2 DEF Recorded
  <2> QED BY <1>2, <2>1, Moves DEF GivesUp, Places
<1>3. CASE proc[p].ends = FALSE
  BY <1>3, Moves DEF GivesUp
<1> QED BY <1>1, <1>2, <1>3

(* PutTransition                                                           *)
LEMMA JournalWritten ==
  ASSUME TypeOK, NEW p \in Procs, PutTransition(p)
  PROVE  /\ At(p, "journal") /\ WriteFrame(p)
         /\ policy' = policy /\ audit' = audit /\ drawn' = drawn + 1
         /\ \E entry \in Entry :
              /\ entry.event = drawn + 1 /\ entry.ends = proc[p].ends
              /\ \/ /\ journal' = entry /\ faults' = faults
                    /\ Becomes(p, "state", proc[p].ends, proc[p].ok)
                    /\ proc'[p].entry = entry /\ proc'[p].stored = proc[p].stored
                 \/ /\ journal' \in {journal, entry} /\ faults' = faults + 1
                    /\ GivesUp(p)
<1> DEFINE entry == [event |-> drawn + 1, ends |-> proc[p].ends]
<1>1. entry \in Entry /\ entry.event = drawn + 1 /\ entry.ends = proc[p].ends
  BY DEF TypeOK, Entry
<1>2. CASE journal' = entry /\ UNCHANGED faults
             /\ proc' = [proc EXCEPT ![p].at = "state", ![p].entry = entry]
  <2>1. Becomes(p, "state", proc[p].ends, proc[p].ok) /\ proc'[p].entry = entry
    <3> HIDE DEF entry
    <3> QED BY <1>1, <1>2, Moves DEF Places
  <2>2. proc'[p].stored = proc[p].stored
    BY <1>2 DEF TypeOK
  <2> HIDE DEF entry
  <2> QED BY <1>1, <1>2, <2>1, <2>2
      DEF PutTransition, WriteFrame, Becomes, locks, maps, bounds
<1>3. CASE Fault /\ journal' \in {journal, entry}
             /\ IF proc[p].ends THEN Recorded(p, FALSE) ELSE LaunchFails(p)
  <2>1. GivesUp(p)
    BY <1>3, GivingUp
  <2> HIDE DEF entry
  <2> QED BY <1>1, <1>3, <2>1
      DEF PutTransition, WriteFrame, GivesUp, Becomes, Fault, locks, maps, bounds
<1> QED BY <1>2, <1>3 DEF PutTransition

(* Upsert                                                                  *)
LEMMA StateWritten ==
  ASSUME TypeOK, NEW p \in Procs, Upsert(p)
  PROVE  /\ At(p, "state") /\ WriteFrame(p)
         /\ journal' = journal /\ audit' = audit /\ drawn' = drawn
         /\ \/ /\ policy' = Stored(~proc[p].ends, proc[p].ends) /\ faults' = faults
               /\ Becomes(p, "audit", proc[p].ends, proc[p].ok)
               /\ proc'[p].stored = TRUE /\ proc'[p].entry = proc[p].entry
            \/ /\ policy' \in {policy, Stored(~proc[p].ends, proc[p].ends)}
               /\ faults' = faults + 1
               /\ \/ /\ proc[p].ends = TRUE
                     /\ Becomes(p, "audit", TRUE, proc[p].ok)
                     /\ proc'[p].stored = proc[p].stored
                     /\ proc'[p].entry = proc[p].entry
                  \/ proc[p].ends = FALSE /\ GivesUp(p)
<1>1. proc[p].ends \in BOOLEAN
  BY DEF TypeOK
<1>2. CASE policy' = Stored(~proc[p].ends, proc[p].ends) /\ UNCHANGED faults
             /\ proc' = [proc EXCEPT ![p].at = "audit", ![p].stored = TRUE]
  <2>1. Becomes(p, "audit", proc[p].ends, proc[p].ok) /\ proc'[p].entry = proc[p].entry
        /\ proc'[p].stored = TRUE
    BY <1>2, Moves DEF Places
  <2> QED BY <1>2, <2>1 DEF Upsert, WriteFrame, Becomes, locks, maps, bounds
<1>3. CASE Fault /\ policy' \in {policy, Stored(~proc[p].ends, proc[p].ends)}
             /\ proc[p].ends = TRUE /\ Goto(p, "audit")
  <2>1. Becomes(p, "audit", proc[p].ends, proc[p].ok)
        /\ proc'[p].stored = proc[p].stored /\ proc'[p].entry = proc[p].entry
    BY <1>3, Moves DEF Places
  <2> QED BY <1>3, <2>1 DEF Upsert, WriteFrame, Becomes, Fault, locks, maps, bounds
<1>4. CASE Fault /\ policy' \in {policy, Stored(~proc[p].ends, proc[p].ends)}
             /\ proc[p].ends = FALSE /\ LaunchFails(p)
  <2>1. GivesUp(p)
    BY <1>4, GivingUp
  <2> QED BY <1>4, <2>1 DEF Upsert, WriteFrame, GivesUp, Becomes, Fault, locks, maps, bounds
<1> QED BY <1>1, <1>2, <1>3, <1>4 DEF Upsert

(* Append to the audit log                                                 *)
LEMMA LogWritten ==
  ASSUME TypeOK, NEW p \in Procs, AppendAudit(p)
  PROVE  /\ At(p, "audit") /\ WriteFrame(p)
         /\ policy' = policy /\ journal' = journal /\ drawn' = drawn
         /\ \/ /\ audit' = Appended(p) /\ faults' = faults
               /\ \/ proc[p].ends = FALSE /\ Becomes(p, "clear", FALSE, proc[p].ok)
                  \/ proc[p].ends = TRUE /\ proc[p].stored = TRUE
                     /\ Becomes(p, "final", TRUE, proc[p].ok)
                  \/ proc[p].ends = TRUE /\ proc[p].stored = FALSE
                     /\ Becomes(p, "recorded", TRUE, FALSE)
            \/ /\ audit' \in {audit, Appended(p)} /\ faults' = faults + 1
               /\ GivesUp(p)
<1>1. proc[p].ends \in BOOLEAN /\ proc[p].stored \in BOOLEAN
  BY DEF TypeOK
<1>2. CASE audit' = Appended(p) /\ AfterAudit(p) /\ UNCHANGED faults
  <2>1. CASE proc[p].ends = FALSE
    <3>1. Goto(p, "clear")
      BY <1>2, <2>1 DEF AfterAudit
    <3>2. Becomes(p, "clear", FALSE, proc[p].ok)
      BY <2>1, <3>1, Moves DEF Places, Becomes
    <3> QED BY <1>2, <2>1, <3>2 DEF AppendAudit, WriteFrame, Becomes, locks, maps, bounds
  <2>2. CASE proc[p].ends = TRUE /\ proc[p].stored = TRUE
    <3>1. Becomes(p, "final", TRUE, proc[p].ok)
      BY <1>2, <2>2, Moves DEF Places, AfterAudit
    <3> QED BY <1>2, <2>2, <3>1 DEF AppendAudit, WriteFrame, Becomes, locks, maps, bounds
  <2>3. CASE proc[p].ends = TRUE /\ proc[p].stored = FALSE
    <3>1. Becomes(p, "recorded", TRUE, FALSE)
      BY <1>2, <2>3, Moves DEF Places, AfterAudit, Recorded
    <3> QED BY <1>2, <2>3, <3>1 DEF AppendAudit, WriteFrame, Becomes, locks, maps, bounds
  <2> QED BY <1>1, <2>1, <2>2, <2>3
<1>3. CASE Fault /\ audit' \in {audit, Appended(p)}
             /\ IF proc[p].ends THEN Recorded(p, FALSE) ELSE LaunchFails(p)
  <2>1. GivesUp(p)
    BY <1>3, GivingUp
  <2> QED BY <1>3, <2>1
      DEF AppendAudit, WriteFrame, GivesUp, Becomes, Fault, locks, maps, bounds
<1> QED BY <1>2, <1>3 DEF AppendAudit

(* UpsertFinal                                                             *)
LEMMA FinalWritten ==
  ASSUME TypeOK, NEW p \in Procs, UpsertFinal(p)
  PROVE  /\ At(p, "final") /\ WriteFrame(p)
         /\ journal' = journal /\ audit' = audit /\ drawn' = drawn
         /\ \/ /\ policy' = Stored(FALSE, FALSE) /\ faults' = faults
               /\ Becomes(p, "clear", proc[p].ends, proc[p].ok)
            \/ /\ policy' \in {policy, Stored(FALSE, FALSE)} /\ faults' = faults + 1
               /\ Becomes(p, "recorded", proc[p].ends, FALSE)
<1>1. CASE policy' = Stored(FALSE, FALSE) /\ Goto(p, "clear") /\ UNCHANGED faults
  <2>1. Becomes(p, "clear", proc[p].ends, proc[p].ok)
    BY <1>1, Moves DEF Places
  <2> QED BY <1>1, <2>1 DEF UpsertFinal, WriteFrame, Becomes, locks, maps, bounds
<1>2. CASE Fault /\ policy' \in {policy, Stored(FALSE, FALSE)} /\ Recorded(p, FALSE)
  <2>1. Becomes(p, "recorded", proc[p].ends, FALSE)
    BY <1>2, Moves DEF Places, Recorded
  <2> QED BY <1>2, <2>1 DEF UpsertFinal, WriteFrame, Becomes, Fault, locks, maps, bounds
<1> QED BY <1>1, <1>2 DEF UpsertFinal

(* RemoveTransition                                                        *)
LEMMA JournalCleared ==
  ASSUME TypeOK, NEW p \in Procs, RemoveTransition(p)
  PROVE  /\ At(p, "clear") /\ WriteFrame(p)
         /\ policy' = policy /\ audit' = audit /\ drawn' = drawn
         /\ \/ /\ journal' = None /\ faults' = faults
               /\ \/ proc[p].ends = TRUE /\ Becomes(p, "recorded", TRUE, TRUE)
                  \/ proc[p].ends = FALSE /\ Becomes(p, "launch", FALSE, TRUE)
            \/ /\ journal' \in {journal, None} /\ faults' = faults + 1
               /\ \/ proc[p].ends = TRUE /\ Becomes(p, "mark", TRUE, proc[p].ok)
                  \/ proc[p].ends = FALSE /\ GivesUp(p)
<1>1. proc[p].ends \in BOOLEAN
  BY DEF TypeOK
<1>2. CASE proc[p].ends = TRUE
  <2>1. CASE journal' = None /\ Recorded(p, TRUE) /\ UNCHANGED faults
    <3>1. Becomes(p, "recorded", TRUE, TRUE)
      BY <1>2, <2>1, Moves DEF Places, Recorded
    <3> QED BY <1>2, <2>1, <3>1
        DEF RemoveTransition, WriteFrame, Becomes, locks, maps, bounds
  <2>2. CASE Fault /\ journal' \in {journal, None} /\ Goto(p, "mark")
    <3>1. Becomes(p, "mark", TRUE, proc[p].ok)
      BY <1>2, <2>2, Moves DEF Places
    <3> QED BY <1>2, <2>2, <3>1
        DEF RemoveTransition, WriteFrame, Becomes, Fault, locks, maps, bounds
  <2> QED BY <1>2, <2>1, <2>2 DEF RemoveTransition
<1>3. CASE proc[p].ends = FALSE
  <2>1. CASE journal' = None /\ Persisted(p, "launch", TRUE) /\ UNCHANGED faults
    <3>1. Becomes(p, "launch", FALSE, TRUE)
      BY <1>3, <2>1, Moves DEF Places, Becomes
    <3> QED BY <1>3, <2>1, <3>1
        DEF RemoveTransition, WriteFrame, Becomes, locks, maps, bounds
  <2>2. CASE Fault /\ journal' \in {journal, None} /\ LaunchFails(p)
    <3>1. GivesUp(p)
      BY <1>3, <2>2, GivingUp
    <3> QED BY <1>3, <2>2, <3>1
        DEF RemoveTransition, WriteFrame, GivesUp, Becomes, Fault, locks, maps, bounds
  <2> QED BY <1>3, <2>1, <2>2 DEF RemoveTransition
<1> QED BY <1>1, <1>2, <1>3

(* UpsertDegraded                                                          *)
LEMMA DegradedWritten ==
  ASSUME TypeOK, NEW p \in Procs, UpsertDegraded(p)
  PROVE  /\ At(p, "mark") /\ WriteFrame(p)
         /\ journal' = journal /\ audit' = audit /\ drawn' = drawn
         /\ policy' \in {policy, Stored(FALSE, TRUE)} /\ faults' \in {faults, faults + 1}
         /\ Becomes(p, "recorded", proc[p].ends, FALSE)
<1>1. Becomes(p, "recorded", proc[p].ends, FALSE)
  BY Moves DEF UpsertDegraded, Places, Recorded
<1> QED BY <1>1 DEF UpsertDegraded, WriteFrame, Becomes, Fault, locks, maps, bounds

(* A Start that returns without a worker was not stopping one.             *)
LEMMA StartEnding ==
  ASSUME StopInv, NEW c \in Callers, StartEnds(c)
  PROVE  stopping # c /\ proc[c].at \in {"recorded", "launch"}
<1>1. c # None
  BY BackgroundAssumption DEF Procs
<1> QED BY <1>1 DEF StartEnds, StartRefused, LaunchUnadmitted, StopInv, Recording, At

-----------------------------------------------------------------------------
(***************************************************************************)
(* What the other steps make of the goroutine that takes them.             *)
(***************************************************************************)
Keeps(p, at) == Becomes(p, at, proc[p].ends, proc[p].ok)
Ending(p) == Becomes(p, "journal", TRUE, FALSE) /\ proc'[p].stored = FALSE
Rests(p) == Becomes(p, "idle", FALSE, FALSE) /\ proc'[p] = Idle

(* Where the steps of a call leave it, and what they give back.            *)
LEMMA CallerMoves ==
  ASSUME TypeOK, NEW c \in Callers
  PROVE  /\ Start(c) => Keeps(c, "reserve")
         /\ Refused(c) => Rests(c) /\ lease' = lease /\ transition' = transition
         /\ \A ends \in BOOLEAN : Persist(c, ends) =>
              Becomes(c, "journal", ends, FALSE) /\ proc'[c].stored = FALSE
         /\ StartEnds(c) => Rests(c)
         /\ Stop(c) => Keeps(c, "read")
         /\ StopReads(c) => Ending(c)
         /\ ReleaseStop(c) =>
              /\ Rests(c)
              /\ joins' \in [Callers -> Workers \cup {None}] /\ joins'[c] = None
              /\ stopping' = None /\ handoff' = "none" /\ transition' = None
              /\ lease' = IF lease = c THEN None ELSE lease
         /\ StopRecorded(c) => Keeps(c, "join")
         /\ LaunchPersisted(c) =>
              \/ Launch(c)
              \/ Ending(c) /\ UNCHANGED <<lease, phase, transition, active, guard, run>>
              \/ Release(c) /\ Rests(c) /\ phase = "closing"
                 /\ UNCHANGED <<phase, active, guard, run>>
<1>1. c \in Procs
  BY DEF Procs
<1>2. \A ends \in BOOLEAN : Persist(c, ends) =>
              Becomes(c, "journal", ends, FALSE) /\ proc'[c].stored = FALSE
  BY <1>1, Moves
<1>3. Start(c) => Keeps(c, "reserve")
  BY <1>1, Moves DEF Start, Keeps, Places
<1>4. Refused(c) => Rests(c) /\ lease' = lease /\ transition' = transition
  BY <1>1, Moves DEF Refused, Rests
<1>5. StartEnds(c) => Rests(c)
  BY <1>1, Moves DEF StartEnds, StartRefused, LaunchUnadmitted, Rests
<1>6. Stop(c) => Keeps(c, "read")
  BY <1>1, Moves DEF Stop, Keeps, Places
<1>7. StopReads(c) => Ending(c)
  BY <1>1, Moves DEF StopReads, Ending
<1>8. ASSUME ReleaseStop(c)
      PROVE  /\ Rests(c)
             /\ joins' \in [Callers -> Workers \cup {None}] /\ joins'[c] = None
             /\ stopping' = None /\ handoff' = "none" /\ transition' = None
             /\ lease' = IF lease = c THEN None ELSE lease
  <2>1. Rests(c)
    BY <1>1, <1>8, Moves DEF ReleaseStop, Rests
  <2> QED BY <1>8, <2>1 DEF ReleaseStop, Release, TypeOK
<1>9. StopRecorded(c) => Keeps(c, "join")
  BY <1>1, Moves DEF StopRecorded, Keeps, Places
<1>10. ASSUME LaunchPersisted(c)
       PROVE  \/ Launch(c)
              \/ Ending(c) /\ UNCHANGED <<lease, phase, transition, active, guard, run>>
              \/ Release(c) /\ Rests(c) /\ phase = "closing"
                 /\ UNCHANGED <<phase, active, guard, run>>
  <2>1. Persist(c, TRUE) => Ending(c)
    BY <1>2 DEF Ending
  <2>2. proc' = [proc EXCEPT ![c] = Idle] => Rests(c)
    BY <1>1, Moves DEF Rests
  <2> QED BY <1>10, <2>1, <2>2 DEF LaunchPersisted
<1> QED BY <1>2, <1>3, <1>4, <1>5, <1>6, <1>7, <1>8, <1>9, <1>10

(* Where the steps of a worker leave it.                                   *)
LEMMA WorkerMoves ==
  ASSUME TypeOK, NEW w \in Workers
  PROVE  /\ \A result : Ends(w, result) => Keeps(w, "handoff")
         /\ Heard(w) => \/ run[w].answer = "keep" /\ Keeps(w, "admit")
                        \/ run[w].answer = "yield" /\ Keeps(w, "unlease")
         /\ Goto(w, "unlease") => Keeps(w, "unlease")
         /\ Persist(w, TRUE) => Ending(w)
         /\ WorkerRecorded(w) => Keeps(w, "unlease")
         /\ Unlease(w) => Keeps(w, "leave")
         /\ Left(w) => Rests(w)
<1>1. w \in Procs
  BY DEF Procs
<1>2. \A result : Ends(w, result) => Keeps(w, "handoff")
  BY <1>1, Moves DEF Ends, Keeps, Places
<1>3. Heard(w) => \/ run[w].answer = "keep" /\ Keeps(w, "admit")
                  \/ run[w].answer = "yield" /\ Keeps(w, "unlease")
  BY <1>1, Moves DEF Heard, Keeps, Places
<1>4. Goto(w, "unlease") => Keeps(w, "unlease")
  BY <1>1, Moves DEF Keeps, Places
<1>5. Persist(w, TRUE) => Ending(w)
  BY <1>1, Moves DEF Ending
<1>6. WorkerRecorded(w) => Keeps(w, "unlease")
  BY <1>4 DEF WorkerRecorded
<1>7. Unlease(w) => Keeps(w, "leave")
  BY <1>1, Moves DEF Unlease, Keeps, Places
<1>8. Left(w) => Rests(w)
  BY <1>1, Moves DEF Left, Rests
<1> QED BY <1>2, <1>3, <1>4, <1>5, <1>6, <1>7, <1>8

(* Where the steps of the start of a daemon leave it.                      *)
LEMMA BootMoves ==
  ASSUME TypeOK
  PROVE  /\ Resume => Keeps(Boot, "settle")
         /\ Settle => Keeps(Boot, "reconcile")
         /\ Reconcile =>
              \/ journal = None /\ Becomes(Boot, "resume", FALSE, FALSE)
              \/ /\ journal # None /\ Becomes(Boot, "state", TRUE, FALSE)
                 /\ proc'[Boot].stored = FALSE /\ proc'[Boot].entry = journal
         /\ \A ends \in BOOLEAN : Persist(Boot, ends) =>
              Becomes(Boot, "journal", ends, FALSE) /\ proc'[Boot].stored = FALSE
         /\ ResumeRecorded => Keeps(Boot, "resume")
         /\ Serve => Rests(Boot)
         /\ LaunchPersisted(Boot) =>
              \/ Launch(Boot)
              \/ Ending(Boot) /\ UNCHANGED <<lease, phase, transition, active, guard, run>>
              \/ Release(Boot) /\ Rests(Boot) /\ phase = "closing"
                 /\ UNCHANGED <<phase, active, guard, run>>
<1>1. Boot \in Procs
  BY DEF Procs
<1>2. Resume => Keeps(Boot, "settle")
  BY <1>1, Moves DEF Resume, Keeps, Places
<1>3. Settle => Keeps(Boot, "reconcile")
  BY <1>1, Moves DEF Settle, Keeps, Places
<1>4. ASSUME Reconcile
      PROVE  \/ journal = None /\ Becomes(Boot, "resume", FALSE, FALSE)
             \/ /\ journal # None /\ Becomes(Boot, "state", TRUE, FALSE)
                /\ proc'[Boot].stored = FALSE /\ proc'[Boot].entry = journal
  <2>1. PICK r : r = IF journal = None THEN [Idle EXCEPT !.at = "resume"]
                ELSE [Idle EXCEPT !.at = "state", !.ends = TRUE, !.entry = journal]
    OBVIOUS
  <2>2. proc' = [proc EXCEPT ![Boot] = r]
    BY <1>4, <2>1 DEF Reconcile
  <2>3. r \in Process
    BY <2>1 DEF TypeOK, Process, Places, Idle
  <2>4. \/ journal = None /\ r.at = "resume" /\ r.ends = FALSE /\ r.ok = FALSE
        \/ /\ journal # None /\ r.at = "state" /\ r.ends = TRUE /\ r.ok = FALSE
           /\ r.stored = FALSE /\ r.entry = journal
    BY <2>1 DEF Idle
  <2>5. proc \in [Procs -> Process]
    BY DEF TypeOK, Process, Places
  <2>6. proc' \in [Procs -> Process] /\ proc'[Boot] = r
        /\ \A q \in Procs \ {Boot} : proc'[q] = proc[q]
    BY <1>1, <2>2, <2>3, <2>5
  <2> QED BY <2>4, <2>6 DEF Becomes
<1>5. \A ends \in BOOLEAN : Persist(Boot, ends) =>
              Becomes(Boot, "journal", ends, FALSE) /\ proc'[Boot].stored = FALSE
  BY <1>1, Moves
<1>6. ResumeRecorded => Keeps(Boot, "resume")
  BY <1>1, Moves DEF ResumeRecorded, Keeps, Places
<1>7. Serve => Rests(Boot)
  BY <1>1, Moves DEF Serve, Rests
<1>8. ASSUME LaunchPersisted(Boot)
      PROVE  \/ Launch(Boot)
             \/ Ending(Boot) /\ UNCHANGED <<lease, phase, transition, active, guard, run>>
             \/ Release(Boot) /\ Rests(Boot) /\ phase = "closing"
                /\ UNCHANGED <<phase, active, guard, run>>
  <2>1. Persist(Boot, TRUE) => Ending(Boot)
    BY <1>5 DEF Ending
  <2>2. proc' = [proc EXCEPT ![Boot] = Idle] => Rests(Boot)
    BY <1>1, Moves DEF Rests
  <2> QED BY <1>8, <2>1, <2>2 DEF LaunchPersisted
<1> QED BY <1>2, <1>3, <1>4, <1>5, <1>6, <1>7, <1>8

(***************************************************************************)
(* What the steps make of run.                                             *)
(***************************************************************************)
Told(c, answer) ==
  /\ run' \in [Workers -> RunType]
  /\ \A w \in Workers :
       /\ run'[w].result = run[w].result /\ run'[w].owner = run[w].owner
       /\ \/ /\ run[w].owner = c /\ run[w].answer = "none"
             /\ run'[w].answer = answer
          \/ /\ ~(run[w].owner = c /\ run[w].answer = "none")
             /\ run'[w].answer = run[w].answer

RunBecomes(w, r) ==
  /\ run' \in [Workers -> RunType]
  /\ \A v \in Workers \ {w} : run'[v] = run[v]
  /\ run'[w] = r

(* An answer of a Stop reaches those that wait for it, and nobody else.    *)
LEMMA Telling ==
  ASSUME TypeOK, NEW c \in Callers, NEW answer \in {"keep", "yield", "never"}
  PROVE  /\ run' = Tell(c, answer) =>
              Told(c, answer) /\ \A w \in Workers : run'[w].canceled = run[w].canceled
         /\ \A v \in Workers : run' = [Tell(c, answer) EXCEPT ![v].canceled = TRUE] =>
              /\ Told(c, answer)
              /\ run'[v].canceled = TRUE
              /\ \A w \in Workers \ {v} : run'[w].canceled = run[w].canceled
<1>1. run \in [Workers -> RunType]
  BY DEF TypeOK, RunType
<1>2. PICK t : t = Tell(c, answer)
  OBVIOUS
<1>3. \A w \in Workers :
        /\ t[w] \in RunType
        /\ t[w].result = run[w].result /\ t[w].owner = run[w].owner
        /\ t[w].canceled = run[w].canceled
        /\ \/ run[w].owner = c /\ run[w].answer = "none" /\ t[w].answer = answer
           \/ ~(run[w].owner = c /\ run[w].answer = "none") /\ t[w].answer = run[w].answer
  BY <1>1, <1>2 DEF Tell, RunType
<1>4. t \in [Workers -> RunType]
  <2>1. \A w \in Workers : t[w] \in RunType
    BY <1>3
  <2> QED BY <1>2, <2>1 DEF Tell
<1>5. ASSUME run' = t
      PROVE  Told(c, answer) /\ \A w \in Workers : run'[w].canceled = run[w].canceled
  BY <1>3, <1>4, <1>5 DEF Told
<1>6. ASSUME NEW v \in Workers, run' = [t EXCEPT ![v].canceled = TRUE]
      PROVE  /\ Told(c, answer)
             /\ run'[v].canceled = TRUE
             /\ \A w \in Workers \ {v} : run'[w].canceled = run[w].canceled
  <2>1. PICK r : r = [t[v] EXCEPT !.canceled = TRUE]
    OBVIOUS
  <2>2. r \in RunType /\ r.canceled = TRUE /\ r.result = t[v].result
        /\ r.owner = t[v].owner /\ r.answer = t[v].answer
    BY <1>4, <2>1 DEF RunType
  <2>3. run' = [t EXCEPT ![v] = r]
    BY <1>4, <1>6, <2>1 DEF RunType
  <2>4. run' \in [Workers -> RunType] /\ run'[v] = r
        /\ \A w \in Workers \ {v} : run'[w] = t[w]
    BY <1>4, <2>2, <2>3
  <2>5. Told(c, answer)
    BY <1>3, <2>2, <2>4 DEF Told
  <2> QED BY <1>3, <2>2, <2>4, <2>5
<1> QED BY <1>2, <1>5, <1>6

(* What the end of a worker, its failure and its return write on its run.  *)
LEMMA Runs ==
  ASSUME TypeOK, NEW w \in Workers
  PROVE  /\ \A result \in {"canceled", "clean", "error"} : Ends(w, result) =>
              \E r \in RunType : RunBecomes(w, r) /\ r.result = result /\ r.owner = stopping
                /\ r.answer = (IF stopping = None THEN "keep" ELSE handoff)
                /\ r.canceled = run[w].canceled
         /\ run' = [run EXCEPT ![w] = NoRun] => RunBecomes(w, NoRun)
         /\ run' = [run EXCEPT ![w].result = "error"] =>
              \E r \in RunType : RunBecomes(w, r) /\ r.result = "error"
                /\ r.owner = run[w].owner /\ r.answer = run[w].answer
                /\ r.canceled = run[w].canceled
         /\ Left(w) => \E r \in RunType : RunBecomes(w, r)
<1>1. run \in [Workers -> RunType] /\ run[w] \in RunType
  BY DEF TypeOK, RunType
<1>2. \A r \in RunType : run' = [run EXCEPT ![w] = r] => RunBecomes(w, r)
  BY <1>1 DEF RunBecomes
<1>3. ASSUME NEW result \in {"canceled", "clean", "error"}, Ends(w, result)
      PROVE  \E r \in RunType : RunBecomes(w, r) /\ r.result = result /\ r.owner = stopping
                /\ r.answer = (IF stopping = None THEN "keep" ELSE handoff)
                /\ r.canceled = run[w].canceled
  <2>1. PICK r : r = [run[w] EXCEPT !.result = result, !.owner = stopping,
                        !.answer = IF stopping = None THEN "keep" ELSE handoff]
    OBVIOUS
  <2>2. r \in RunType /\ r.result = result /\ r.owner = stopping
        /\ r.answer = (IF stopping = None THEN "keep" ELSE handoff)
        /\ r.canceled = run[w].canceled
    BY <1>1, <2>1 DEF RunType, TypeOK
  <2>3. run' = [run EXCEPT ![w] = r]
    BY <1>1, <1>3, <2>1 DEF Ends, RunType
  <2> QED BY <1>2, <2>2, <2>3
<1>4. NoRun \in RunType
  BY DEF NoRun, RunType
<1>5. ASSUME run' = [run EXCEPT ![w].result = "error"]
      PROVE  \E r \in RunType : RunBecomes(w, r) /\ r.result = "error"
                /\ r.owner = run[w].owner /\ r.answer = run[w].answer
                /\ r.canceled = run[w].canceled
  <2>1. PICK r : r = [run[w] EXCEPT !.result = "error"]
    OBVIOUS
  <2>2. r \in RunType /\ r.result = "error" /\ r.owner = run[w].owner
        /\ r.answer = run[w].answer /\ r.canceled = run[w].canceled
    BY <1>1, <2>1 DEF RunType
  <2>3. run' = [run EXCEPT ![w] = r]
    BY <1>1, <1>5, <2>1 DEF RunType
  <2> QED BY <1>2, <2>2, <2>3
<1>6. ASSUME Left(w)
      PROVE  \E r \in RunType : RunBecomes(w, r)
  <2>1. PICK r : r = [NoRun EXCEPT !.result = run[w].result]
    OBVIOUS
  <2>2. r \in RunType
    BY <1>1, <2>1 DEF RunType, NoRun
  <2>3. run' = [run EXCEPT ![w] = r]
    BY <1>6, <2>1 DEF Left
  <2> QED BY <1>2, <2>2, <2>3
<1> QED BY <1>2, <1>3, <1>4, <1>5, <1>6

-----------------------------------------------------------------------------
(***************************************************************************)
(* Types.                                                                  *)
(***************************************************************************)
(* What a launch stores is enabled, and what an end stores is not.         *)
LEMMA StoredPolicy ==
  ASSUME TypeOK, NEW p \in Procs
  PROVE  /\ \A enabled, degraded \in BOOLEAN :
              Stored(enabled, degraded) \in Policy
         /\ proc[p].ends = TRUE =>
              Stored(~proc[p].ends, proc[p].ends) = Stored(FALSE, TRUE)
         /\ proc[p].ends = FALSE =>
              Stored(~proc[p].ends, proc[p].ends) = Stored(TRUE, FALSE)
         /\ proc[p].ends \in BOOLEAN
<1>1. proc[p].ends \in BOOLEAN
  BY DEF TypeOK
<1>2. CASE proc[p].ends = TRUE
  BY <1>2 DEF Stored, Policy
<1>3. CASE proc[p].ends = FALSE
  BY <1>3 DEF Stored, Policy
<1> QED BY <1>1, <1>2, <1>3 DEF Stored, Policy

(* Every write keeps the types.                                            *)
LEMMA TypeWrite ==
  ASSUME TypeOK, LogInv, NEW p \in Procs, Write(p)
  PROVE  TypeOK'
<1>1. WriteFrame(p) /\ faults' \in {faults, faults + 1} /\ drawn' \in {drawn, drawn + 1}
      /\ policy' \in Policy \cup {None}
      /\ journal' \in Entry \cup {None} /\ audit' \in Seq(Entry)
  <2>1. proc[p].ends \in BOOLEAN /\ policy \in Policy \cup {None}
        /\ journal \in Entry \cup {None} /\ audit \in Seq(Entry)
    BY DEF TypeOK
  <2>2. \A a, b \in BOOLEAN : Stored(a, b) \in Policy
    BY DEF Stored, Policy
  <2>3. CASE PutTransition(p)
    BY <2>1, <2>3, JournalWritten
  <2>4. CASE Upsert(p)
    <3>1. Stored(~proc[p].ends, proc[p].ends) \in Policy
      BY <2>2, StoredPolicy
    <3> QED BY <2>1, <2>4, <3>1, StateWritten
  <2>5. CASE AppendAudit(p)
    <3>1. At(p, "audit")
      BY <2>5 DEF AppendAudit
    <3>2. proc[p].entry \in Entry
      BY <3>1 DEF LogInv, TypeOK, At
    <3>3. Appended(p) \in Seq(Entry)
      BY <2>1, <3>2 DEF Appended
    <3> QED BY <2>1, <2>5, <3>3, LogWritten
  <2>6. CASE UpsertFinal(p)
    BY <2>1, <2>2, <2>6, FinalWritten
  <2>7. CASE RemoveTransition(p)
    BY <2>1, <2>7, JournalCleared
  <2>8. CASE UpsertDegraded(p)
    BY <2>1, <2>2, <2>8, DegradedWritten
  <2> QED BY <2>3, <2>4, <2>5, <2>6, <2>7, <2>8 DEF Write
<1> QED BY <1>1 DEF TypeOK, WriteFrame, Process, Places

(* A daemon that ends leaves nothing but its files.                        *)
LEMMA Downs ==
  ASSUME Down
  PROVE  /\ UNCHANGED <<policy, journal, audit, latched, drawn, calls, boots, faults>>
         /\ \A p \in Procs : proc'[p] = Idle
         /\ \A w \in Workers : run'[w] = NoRun
         /\ phase' = "down" /\ lease' = None /\ admission' = None /\ transition' = None
         /\ active' = None /\ stopping' = None /\ handoff' = "none" /\ guard' = "none"
         /\ unlaunched' = FALSE
         /\ proc' \in [Procs -> Process] /\ run' \in [Workers -> RunType]
<1>1. Idle \in Process /\ NoRun \in RunType
  BY DEF Idle, Process, Places, NoRun, RunType
<1> QED BY <1>1 DEF Down, files, bounds

(* Every step keeps the types.                                             *)
LEMMA TypeStep ==
  ASSUME TypeOK, StopInv, HandoffInv, LogInv, [Next]_vars
  PROVE  TypeOK'
<1> DEFINE Rest ==
     /\ policy \in Policy \cup {None}
     /\ journal \in Entry \cup {None} /\ audit \in Seq(Entry) /\ latched \in BOOLEAN
     /\ lease \in Procs \cup {None} /\ transition \in Procs \cup {None}
     /\ admission \in Workers \cup {None} /\ active \in Workers \cup {None}
     /\ stopping \in Callers \cup {None} /\ handoff \in {"none", "yield"}
     /\ guard \in {"none", "clean", "degraded"}
     /\ phase \in {"down", "resuming", "up", "closing"}
     /\ joins \in [Callers -> Workers \cup {None}] /\ unlaunched \in BOOLEAN
     /\ drawn \in Nat /\ calls \in Nat /\ boots \in Nat /\ faults \in Nat
<1>1. /\ TypeOK <=> Rest /\ proc \in [Procs -> Process] /\ run \in [Workers -> RunType]
      /\ TypeOK' <=> Rest' /\ proc' \in [Procs -> Process] /\ run' \in [Workers -> RunType]
  BY DEF TypeOK, Process, Places, RunType
<1>2. Rest /\ proc \in [Procs -> Process] /\ run \in [Workers -> RunType]
  BY <1>1
<1>3. CASE UNCHANGED vars
  BY <1>1, <1>2, <1>3 DEF vars, files, locks, maps, bounds
<1>4. CASE Down
  <2>1. joins' \in [Callers -> Workers \cup {None}]
    BY <1>4 DEF Down
  <2>2. Rest'
    BY <1>2, <1>4, <2>1, Downs
  <2> QED BY <1>1, <1>4, <2>2, Downs
<1>5. CASE \E p \in Procs : Write(p)
  BY <1>5, TypeWrite
<1>6. CASE Resume
  <2>1. proc' \in [Procs -> Process]
    BY <1>6, BootMoves DEF Keeps, Becomes
  <2> QED BY <1>1, <1>2, <1>6, <2>1 DEF Resume, files, Procs
<1>7. CASE Settle
  <2>1. proc' \in [Procs -> Process]
    BY <1>7, BootMoves DEF Keeps, Becomes
  <2>2. Stored(FALSE, FALSE) \in Policy
    BY DEF Stored, Policy
  <2>3. policy' \in Policy \cup {None} /\ guard' \in {"none", "clean", "degraded"}
    BY <1>2, <1>7, <2>2 DEF Settle
  <2>4. UNCHANGED <<locks, phase, transition, active, stopping, handoff, journal, audit,
                    latched, run, joins, drawn, bounds, faults>>
    BY <1>7 DEF Settle
  <2> QED BY <1>1, <1>2, <2>1, <2>3, <2>4 DEF locks, bounds
<1>8. CASE Reconcile
  <2>1. proc' \in [Procs -> Process]
    BY <1>8, BootMoves DEF Keeps, Becomes
  <2> QED BY <1>1, <1>2, <1>8, <2>1 DEF Reconcile, files, locks, maps, bounds
<1>9. CASE ResumePolicy
  <2>1. proc' \in [Procs -> Process]
    BY <1>9, BootMoves DEF ResumePolicy, Becomes
  <2> QED BY <1>1, <1>2, <1>9, <2>1 DEF ResumePolicy, files, locks, maps, bounds
<1>10. CASE ResumeRecorded
  <2>1. proc' \in [Procs -> Process]
    BY <1>10, BootMoves DEF Keeps, Becomes
  <2> QED BY <1>1, <1>2, <1>10, <2>1 DEF ResumeRecorded, Guard, files, locks, bounds
<1>11. CASE Serve
  <2>1. proc' \in [Procs -> Process]
    BY <1>11, BootMoves DEF Rests, Becomes
  <2> QED BY <1>1, <1>2, <1>11, <2>1 DEF Serve, Release, files, bounds
<1>12. CASE Shutdown
  BY <1>1, <1>2, <1>12 DEF Shutdown, files, locks, maps, bounds
<1>13. CASE Cancel
  BY <1>1, <1>2, <1>13 DEF Cancel, locks, maps, bounds
<1>14. ASSUME NEW p \in Callers \cup {Boot}, LaunchPersisted(p) PROVE TypeOK'
  <2>1. p \in Procs
    BY DEF Procs
  <2>2. CASE Launch(p)
    <3>1. PICK w \in Workers :
            /\ active' = w /\ transition' = None /\ lease' = w /\ guard' = "none"
            /\ run' = [run EXCEPT ![w] = NoRun] /\ proc' \in [Procs -> Process]
      BY <2>2, Launches
    <3>2. run' \in [Workers -> RunType]
      BY <3>1, Runs DEF RunBecomes
    <3>3. phase' \in {"down", "resuming", "up", "closing"}
      BY <1>2, <1>14 DEF LaunchPersisted
    <3> QED BY <1>1, <1>2, <1>14, <3>1, <3>2, <3>3 DEF LaunchPersisted, files, bounds, Procs
  <2>3. CASE /\ Ending(p)
             /\ UNCHANGED <<lease, phase, transition, active, guard, run>>
    BY <1>1, <1>2, <1>14, <2>3 DEF LaunchPersisted, Ending, Becomes, files, bounds
  <2>4. CASE Release(p) /\ Rests(p) /\ UNCHANGED <<phase, active, guard, run>>
    BY <1>1, <1>2, <1>14, <2>4 DEF LaunchPersisted, Release, Rests, Becomes, files, bounds
  <2> QED BY <1>14, <2>2, <2>3, <2>4, CallerMoves, BootMoves
<1>15. ASSUME NEW c \in Callers,
              \/ Start(c) \/ Stop(c) \/ Reserve(c) \/ StartEnds(c) \/ StopReads(c)
              \/ StopUnread(c) \/ StopFailed(c) \/ StopRecorded(c) \/ StopDone(c)
              \/ Join(c)
       PROVE  TypeOK'
  <2>1. c \in Procs
    BY DEF Procs
  <2>2. CASE Start(c)
    <3>1. proc' \in [Procs -> Process]
      BY <2>2, CallerMoves DEF Keeps, Becomes
    <3> QED BY <1>1, <1>2, <2>2, <3>1 DEF Start, files, locks, maps
  <2>3. CASE Stop(c)
    <3>1. joins' \in [Callers -> Workers \cup {None}]
      BY <1>2, <2>3 DEF Stop
    <3>2. proc' \in [Procs -> Process]
      BY <2>3, CallerMoves DEF Keeps, Becomes
    <3>3. lease' \in Procs \cup {None}
      BY <1>2, <2>1, <2>3 DEF Stop
    <3> QED BY <1>1, <1>2, <2>1, <2>3, <3>1, <3>2, <3>3 DEF Stop, files
  <2>4. CASE Reserve(c)
    <3>1. proc' \in [Procs -> Process] /\ lease' \in Procs \cup {None}
          /\ transition' \in Procs \cup {None}
      BY <1>2, <2>1, <2>4, CallerMoves DEF Reserve, Rests, Becomes
    <3>2. unlaunched' \in BOOLEAN
      BY <1>2, <2>4 DEF Reserve, Refused
    <3> QED BY <1>1, <1>2, <2>4, <3>1, <3>2 DEF Reserve, files
  <2>5. CASE StartEnds(c)
    <3>1. proc' \in [Procs -> Process]
      BY <2>5, CallerMoves DEF Rests, Becomes
    <3>2. lease' \in Procs \cup {None} /\ faults' \in Nat
      BY <1>2, <2>5 DEF StartEnds, StartRefused, LaunchUnadmitted, Release, Fault
    <3>3. unlaunched' \in BOOLEAN
      BY <1>2, <2>5 DEF StartEnds, StartRefused, LaunchUnadmitted, bounds
    <3> QED BY <1>1, <1>2, <2>5, <3>1, <3>2, <3>3
            DEF StartEnds, StartRefused, LaunchUnadmitted, Guard, Release, files, bounds
  <2>6. CASE StopReads(c)
    <3>1. proc' \in [Procs -> Process]
      BY <2>6, CallerMoves DEF Ending, Becomes
    <3> QED BY <1>1, <1>2, <2>6, <3>1 DEF StopReads, files, locks, maps, bounds
  <2>7. ASSUME ReleaseStop(c)
        PROVE  /\ proc' \in [Procs -> Process] /\ lease' \in Procs \cup {None}
               /\ joins' \in [Callers -> Workers \cup {None}]
               /\ stopping' = None /\ handoff' = "none" /\ transition' = None
    BY <1>2, <2>7, CallerMoves DEF Rests, Becomes
  <2>8. CASE StopUnread(c)
    <3>1. run' \in [Workers -> RunType]
      BY <2>8, Telling DEF StopUnread, Told
    <3>2. faults' \in Nat
      BY <1>2, <2>8 DEF StopUnread, Fault
    <3>3. ReleaseStop(c)
      BY <2>8 DEF StopUnread
    <3> QED BY <1>1, <1>2, <2>7, <2>8, <3>1, <3>2, <3>3 DEF StopUnread, files, bounds
  <2>9. CASE StopFailed(c)
    <3>1. run' \in [Workers -> RunType]
      BY <2>9, Telling DEF StopFailed, Told
    <3>2. ReleaseStop(c)
      BY <2>9 DEF StopFailed
    <3> QED BY <1>1, <1>2, <2>7, <2>9, <3>1, <3>2 DEF StopFailed, Guard, files, bounds
  <2>10. CASE StopRecorded(c)
    <3>1. joins[c] \in Workers
      BY <1>2, <2>10 DEF StopRecorded
    <3>2. run' \in [Workers -> RunType]
      BY <2>10, <3>1, Telling DEF StopRecorded, Told
    <3>3. proc' \in [Procs -> Process]
      BY <2>10, CallerMoves DEF Keeps, Becomes
    <3> QED BY <1>1, <1>2, <2>10, <3>2, <3>3 DEF StopRecorded, files, locks, bounds
  <2>11. CASE StopDone(c)
    <3>1. ReleaseStop(c)
      BY <2>11 DEF StopDone
    <3> QED BY <1>1, <1>2, <2>7, <2>11, <3>1 DEF StopDone, files, bounds
  <2>12. CASE Join(c)
    <3>1. CASE Persist(c, TRUE) /\ joins' = [joins EXCEPT ![c] = None]
               /\ UNCHANGED <<lease, transition, stopping, handoff>>
      <4>1. proc' \in [Procs -> Process]
        BY <3>1, CallerMoves DEF Becomes
      <4>2. joins' \in [Callers -> Workers \cup {None}]
        BY <1>2, <3>1
      <4> QED BY <1>1, <1>2, <2>12, <3>1, <4>1, <4>2 DEF Join, files, bounds
    <3>2. CASE ReleaseStop(c)
      BY <1>1, <1>2, <2>7, <2>12, <3>2 DEF Join, files, bounds
    <3> QED BY <2>12, <3>1, <3>2 DEF Join
  <2> QED BY <1>15, <2>2, <2>3, <2>4, <2>5, <2>6, <2>8, <2>9, <2>10, <2>11, <2>12
<1>16. ASSUME NEW w \in Workers,
              \/ Ends(w, "canceled") \/ Ends(w, "clean") \/ Ends(w, "error")
              \/ Heard(w) \/ Admit(w) \/ WorkerRecorded(w) \/ Unlease(w) \/ Leave(w)
       PROVE  TypeOK'
  <2>1. w \in Procs
    BY DEF Procs
  <2>2. CASE Ends(w, "canceled") \/ Ends(w, "clean") \/ Ends(w, "error")
    <3>1. run' \in [Workers -> RunType]
      BY <2>2, Runs DEF RunBecomes
    <3> QED BY <1>1, <1>2, <2>1, <2>2, <3>1, WorkerMoves
            DEF Ends, Keeps, Becomes, files, locks, bounds
  <2>3. CASE Heard(w)
    <3>1. proc' \in [Procs -> Process]
      BY <2>3, WorkerMoves DEF Keeps, Becomes
    <3> QED BY <1>1, <1>2, <2>3, <3>1 DEF Heard, files, locks, maps, bounds
  <2>4. CASE Admit(w)
    <3>1. run' \in [Workers -> RunType]
      BY <1>2, <2>4, Runs DEF Admit, RunBecomes
    <3>2. proc' \in [Procs -> Process]
      BY <2>4, WorkerMoves DEF Admit, Keeps, Ending, Becomes
    <3>3. admission' \in {admission, w} /\ faults' \in {faults, faults + 1}
      BY <2>4 DEF Admit, Fault
    <3> QED BY <1>1, <1>2, <2>4, <3>1, <3>2, <3>3 DEF Admit, files, maps, bounds
  <2>5. CASE WorkerRecorded(w)
    <3>1. proc' \in [Procs -> Process]
      BY <2>5, WorkerMoves DEF Keeps, Becomes
    <3> QED BY <1>1, <1>2, <2>5, <3>1 DEF WorkerRecorded, files, maps, bounds
  <2>6. CASE Unlease(w)
    <3>1. run[w].owner \in Callers \cup {None}
      BY DEF TypeOK
    <3>2. lease' \in Procs \cup {None}
      BY <1>2, <2>6, <3>1 DEF Unlease, Procs
    <3>3. proc' \in [Procs -> Process]
      BY <2>6, WorkerMoves DEF Keeps, Becomes
    <3> QED BY <1>1, <1>2, <2>6, <3>2, <3>3 DEF Unlease, files, maps, bounds
  <2>7. CASE Leave(w)
    <3>1. run' \in [Workers -> RunType]
      BY <2>7, Runs DEF Leave, RunBecomes
    <3>2. proc' \in [Procs -> Process]
      BY <2>7, WorkerMoves DEF Leave, Rests, Becomes
    <3>3. guard' \in {"none", "clean", "degraded"}
      BY <1>2, <2>7 DEF Leave, Guard
    <3>4. transition' \in Procs \cup {None} /\ active' \in Workers \cup {None}
      BY <1>2, <2>7 DEF Leave
    <3> QED BY <1>1, <1>2, <2>7, <3>1, <3>2, <3>3, <3>4 DEF Leave, files, locks, bounds
  <2> QED BY <1>16, <2>2, <2>3, <2>4, <2>5, <2>6, <2>7
<1> QED
  BY <1>3, <1>4, <1>5, <1>6, <1>7, <1>8, <1>9, <1>10, <1>11, <1>12, <1>13, <1>14,
     <1>15, <1>16, Steps

-----------------------------------------------------------------------------
(***************************************************************************)
(* Who may be busy, and when.                                              *)
(***************************************************************************)
LEMMA Kinds ==
  /\ \A c \in Callers : c \in Procs /\ c \notin Workers /\ c # Boot /\ c # None
  /\ \A w \in Workers : w \in Procs /\ w \notin Callers /\ w # Boot /\ w # None
  /\ Boot \in Procs /\ Boot # None
  /\ \A p \in Procs : p \in Callers \/ p \in Workers \/ p = Boot
  BY BackgroundAssumption DEF Procs

(* Calls and workers do not run before the start of the daemon is done.    *)
LEMMA Busy ==
  ASSUME TypeOK, PlaceInv
  PROVE  /\ \A p \in Callers \cup Workers :
              proc[p].at # "idle" => phase \in {"up", "closing"} /\ proc[Boot] = Idle
         /\ proc[Boot].at # "idle" =>
              /\ phase = "resuming" /\ stopping = None /\ active = None
              /\ \A p \in Callers \cup Workers : proc[p] = Idle
         /\ stopping # None \/ active # None =>
              phase \in {"up", "closing"} /\ proc[Boot] = Idle
         /\ Idle.at = "idle" /\ Idle.ends = FALSE /\ Idle.stored = FALSE /\ Idle.ok = FALSE
<1>1. Idle.at = "idle" /\ Idle.ends = FALSE /\ Idle.stored = FALSE /\ Idle.ok = FALSE
  BY DEF Idle
<1>2. phase \in {"down", "resuming", "up", "closing"}
  BY DEF TypeOK
<1>3. phase = "down" => proc[Boot] = Idle
  BY Kinds DEF PlaceInv
<1> QED BY <1>1, <1>2, <1>3 DEF PlaceInv

(* A starter is alone with workers that leave and calls that wait.         *)
LEMMA StarterAlone ==
  ASSUME TypeOK, PlaceInv, LeaseInv, StopInv, NEW p \in Starters
  PROVE  /\ stopping = None /\ transition = p /\ lease = p
         /\ p \in Procs /\ p \notin Workers
         /\ \A q \in Procs \ {p} : proc[q].at \in {"idle", "reserve", "leave"}
<1>1. lease = p /\ transition = p /\ p \in Callers \cup {Boot} /\ stopping # p
  BY DEF LeaseInv, Starters
<1>2. p \in Procs /\ p \notin Workers
  BY <1>1, Kinds
<1>3. stopping = None
  BY <1>1 DEF StopInv
<1>4. ASSUME NEW q \in Procs \ {p} PROVE proc[q].at \in {"idle", "reserve", "leave"}
  <2>1. CASE q \in Workers
    BY <1>1, <1>2, <2>1 DEF LeaseInv
  <2>2. CASE q \in Callers \cup {Boot}
    <3>1. q # None /\ q \notin Starters
      BY <1>1, <2>2, Kinds DEF LeaseInv
    <3> QED BY <1>3, <2>2, <3>1 DEF Starters
  <2> QED BY <2>1, <2>2, Kinds
<1> QED BY <1>1, <1>2, <1>3, <1>4

(* Who writes is a starter, the Stop, or a worker that keeps its record.   *)
LEMMA Writers ==
  ASSUME TypeOK, PlaceInv, LeaseInv, StopInv, HandoffInv, NEW p \in Procs,
         proc[p].at \in Recording
  PROVE  \/ p \in Starters
         \/ p = stopping /\ p \in Callers /\ transition = p /\ proc[p].ends = TRUE
         \/ /\ p \in Workers /\ lease = p /\ active = p /\ proc[p].ends = TRUE
            /\ run[p].answer = "keep"
<1>1. proc[p].ends \in BOOLEAN /\ (\A w \in Workers :
        run[w].answer \in {"none", "keep", "yield", "never"})
  BY DEF TypeOK
<1>2. proc[p].at \notin {"idle", "reserve", "watch", "handoff", "unlease", "leave"}
  BY DEF Recording
<1>3. CASE p \in Workers
  <2>1. lease = p /\ active = p
    BY <1>2, <1>3 DEF LeaseInv
  <2>2. run[p].answer = "keep" /\ proc[p].ends = TRUE
    BY <1>1, <1>2, <1>3 DEF HandoffInv, Handoff, At
  <2> QED BY <1>3, <2>1, <2>2
<1>4. CASE p \in Callers /\ stopping = p
  BY <1>1, <1>4, Kinds DEF StopInv
<1>5. CASE p \in Callers \cup {Boot} /\ stopping # p
  BY <1>2, <1>5 DEF Starters
<1>6. stopping # Boot
  BY Kinds DEF TypeOK
<1> QED BY <1>3, <1>4, <1>5, <1>6, Kinds

(* A write of an end is followed by another or by its report.              *)
LEMMA WriterStays ==
  ASSUME TypeOK, NEW p \in Procs, Write(p)
  PROVE  /\ WriteFrame(p) /\ proc[p].at \in Recording
         /\ proc'[p].at \in Recording \cup {"launch"}
         /\ proc[p].ends = TRUE => proc'[p].at \in Recording /\ proc'[p].ends = TRUE
         /\ faults' \in {faults, faults + 1}
<1>1. GivesUp(p) => /\ proc'[p].at \in Recording
                    /\ proc'[p].ends = TRUE
  BY DEF GivesUp, Becomes, Recording
<1>2. CASE PutTransition(p)
  BY <1>1, <1>2, JournalWritten DEF At, Becomes, Recording
<1>3. CASE Upsert(p)
  BY <1>1, <1>3, StateWritten DEF At, Becomes, Recording
<1>4. CASE AppendAudit(p)
  BY <1>1, <1>4, LogWritten DEF At, Becomes, Recording
<1>5. CASE UpsertFinal(p)
  BY <1>5, FinalWritten DEF At, Becomes, Recording
<1>6. CASE RemoveTransition(p)
  BY <1>1, <1>6, JournalCleared DEF At, Becomes, Recording
<1>7. CASE UpsertDegraded(p)
  BY <1>7, DegradedWritten DEF At, Becomes, Recording
<1> QED BY <1>2, <1>3, <1>4, <1>5, <1>6, <1>7 DEF Write

-----------------------------------------------------------------------------
(***************************************************************************)
(* Places.                                                                 *)
(***************************************************************************)
(* A step of a call or a worker while the daemon serves or closes.         *)
LEMMA PlaceKept ==
  ASSUME TypeOK, PlaceInv, NEW p \in Callers \cup Workers,
         phase \in {"up", "closing"}, phase' \in {"up", "closing"},
         \A q \in Procs \ {p} : proc'[q] = proc[q],
         p \in Callers => proc'[p].at \in CallerPlaces,
         p \in Workers => proc'[p].at \in WorkerPlaces
  PROVE  PlaceInv'
<1>1. proc'[Boot] = proc[Boot] /\ proc[Boot] = Idle
  BY Kinds DEF PlaceInv
<1>2. \A c \in Callers : proc'[c].at \in CallerPlaces
  BY Kinds DEF PlaceInv
<1>3. \A w \in Workers : proc'[w].at \in WorkerPlaces
  BY Kinds DEF PlaceInv
<1> QED BY <1>1, <1>2, <1>3 DEF PlaceInv

(* A step of the start of the daemon.                                      *)
LEMMA PlaceBoots ==
  ASSUME TypeOK, PlaceInv, \A q \in Procs \ {Boot} : proc'[q] = proc[q],
         \A q \in Callers \cup Workers : proc[q] = Idle,
         proc'[Boot].at \in BootPlaces,
         \/ phase' = "resuming" /\ stopping' = None /\ active' = None
         \/ phase' \in {"up", "closing"} /\ proc'[Boot] = Idle
  PROVE  PlaceInv'
<1>1. \A q \in Callers \cup Workers : proc'[q] = Idle
  BY Kinds
<1>2. Idle.at \in CallerPlaces /\ Idle.at \in WorkerPlaces
  BY DEF Idle, CallerPlaces, WorkerPlaces
<1> QED BY <1>1, <1>2 DEF PlaceInv

(* Every step keeps each kind of process to its places.                    *)
LEMMA PlaceStep ==
  ASSUME TypeOK, PlaceInv, LeaseInv, StopInv, HandoffInv, StartInv, [Next]_vars
  PROVE  PlaceInv'
<1>1. CASE UNCHANGED vars
  BY <1>1 DEF vars, maps, PlaceInv
<1>2. CASE Down
  <2>1. Idle.at \in CallerPlaces /\ Idle.at \in WorkerPlaces /\ Idle.at \in BootPlaces
    BY DEF Idle, CallerPlaces, WorkerPlaces, BootPlaces
  <2> QED BY <1>2, <2>1, Downs, Kinds DEF PlaceInv
<1>3. CASE \E p \in Procs : Write(p)
  <2>1. PICK p \in Procs : Write(p)
    BY <1>3
  <2>2. /\ WriteFrame(p) /\ proc[p].at \in Recording
        /\ proc'[p].at \in Recording \cup {"launch"}
        /\ proc[p].ends = TRUE => proc'[p].at \in Recording
    BY <2>1, WriterStays
  <2>3. proc[p].at # "idle"
    BY <2>2 DEF Recording
  <2>4. CASE p \in Callers \cup Workers
    <3>1. phase \in {"up", "closing"}
      BY <2>3, <2>4, Busy
    <3>2. p \in Workers => proc[p].ends = TRUE
      BY <2>2, Writers, Kinds DEF Starters
    <3> QED BY <2>2, <2>4, <3>1, <3>2, PlaceKept
            DEF WriteFrame, CallerPlaces, WorkerPlaces
  <2>5. CASE p = Boot
    <3>1. phase = "resuming" /\ stopping = None /\ active = None
          /\ \A q \in Callers \cup Workers : proc[q] = Idle
      BY <2>3, <2>5, Busy
    <3> QED BY <2>2, <2>5, <3>1, PlaceBoots DEF WriteFrame, BootPlaces
  <2> QED BY <2>4, <2>5, Kinds
<1>4. CASE Resume
  <2>1. Keeps(Boot, "settle") /\ phase' = "resuming" /\ stopping' = stopping
        /\ active' = active /\ phase = "down"
    BY <1>4, BootMoves DEF Resume
  <2>2. stopping = None /\ active = None /\ \A q \in Callers \cup Workers : proc[q] = Idle
    BY <2>1 DEF PlaceInv
  <2> QED BY <2>1, <2>2, PlaceBoots DEF Keeps, Becomes, BootPlaces
<1>5. CASE Settle \/ Reconcile \/ ResumePolicy \/ ResumeRecorded
  <2>1. /\ proc[Boot].at # "idle" /\ phase' = phase /\ stopping' = stopping
        /\ active' = active
    BY <1>5
    DEF Settle, Reconcile, ResumePolicy, ResumeRecorded, At, maps
  <2>2. \E at \in BootPlaces : \E ends, ok : Becomes(Boot, at, ends, ok)
    BY <1>5, BootMoves DEF Keeps, BootPlaces, ResumePolicy, Recording
  <2> QED BY <2>1, <2>2, Busy, PlaceBoots DEF Becomes
<1>6. CASE Serve
  <2>1. proc[Boot].at # "idle" /\ phase' = "up" /\ Rests(Boot)
    BY <1>6, BootMoves DEF Serve, At
  <2>2. Idle.at \in BootPlaces
    BY DEF Idle, BootPlaces
  <2> QED BY <2>1, <2>2, Busy, PlaceBoots DEF Rests, Becomes
<1>7. CASE Shutdown
  BY <1>7 DEF Shutdown, maps, PlaceInv
<1>8. CASE Cancel
  BY <1>8 DEF Cancel, maps, PlaceInv
<1>9. ASSUME NEW p \in Callers, LaunchPersisted(p) PROVE PlaceInv'
  <2>1. phase \in {"up", "closing"} /\ At(p, "launch") /\ phase' \in {phase, "up"}
    BY <1>9, Busy DEF LaunchPersisted, At
  <2>2. CASE Launch(p)
    <3>1. PICK w \in Workers :
            /\ \A q \in Procs \ {p, w} : proc'[q] = proc[q]
            /\ proc'[p] = Idle /\ proc'[w].at = "watch"
      <4>1. PICK w \in Workers :
              /\ \A q \in Procs \ {p, w} : proc'[q] = proc[q]
              /\ proc'[p] = Idle /\ proc'[w] = [proc[w] EXCEPT !.at = "watch"]
        BY <2>2, Launches
      <4>2. proc'[w].at = "watch"
        BY <4>1, Kinds DEF TypeOK
      <4> QED BY <4>1, <4>2
    <3>2. Idle.at \in CallerPlaces /\ "watch" \in WorkerPlaces
      BY DEF Idle, CallerPlaces, WorkerPlaces
    <3>3. \A c \in Callers : proc'[c].at \in CallerPlaces
      BY <3>1, <3>2, Kinds DEF PlaceInv
    <3>4. \A w2 \in Workers : proc'[w2].at \in WorkerPlaces
      BY <3>1, <3>2, Kinds DEF PlaceInv
    <3>5. proc'[Boot] = Idle /\ proc'[Boot].at \in BootPlaces
      BY <2>1, <3>1, Kinds DEF PlaceInv
    <3> QED BY <2>1, <3>3, <3>4, <3>5 DEF PlaceInv
  <2>3. CASE Ending(p) \/ Rests(p)
    <3>1. proc'[p].at \in CallerPlaces /\ \A q \in Procs \ {p} : proc'[q] = proc[q]
      BY <2>3 DEF Ending, Rests, Becomes, CallerPlaces, Recording
    <3> QED BY <2>1, <3>1, PlaceKept, Kinds
  <2> QED BY <1>9, <2>2, <2>3, CallerMoves
<1>10. CASE LaunchPersisted(Boot)
  <2>1. /\ phase = "resuming" /\ stopping = None /\ active = None
        /\ \A q \in Callers \cup Workers : proc[q] = Idle
    BY <1>10, Busy DEF LaunchPersisted, At
  <2>2. CASE Launch(Boot)
    <3>1. PICK w \in Workers :
              /\ active' = w
              /\ \A q \in Procs \ {Boot, w} : proc'[q] = proc[q]
              /\ proc'[Boot] = Idle /\ proc'[w] = [proc[w] EXCEPT !.at = "watch"]
      BY <2>2, Launches
    <3>2. proc'[w].at = "watch"
      BY <3>1, Kinds DEF TypeOK
    <3>3. Idle.at \in CallerPlaces /\ "watch" \in WorkerPlaces /\ Idle.at \in WorkerPlaces
          /\ Idle.at \in BootPlaces
      BY DEF Idle, CallerPlaces, WorkerPlaces, BootPlaces
    <3>4. \A c \in Callers : proc'[c].at \in CallerPlaces
      BY <2>1, <3>1, <3>3, Kinds
    <3>5. \A w2 \in Workers : proc'[w2].at \in WorkerPlaces
      BY <2>1, <3>1, <3>2, <3>3, Kinds
    <3>6. phase' = "up"
      BY <1>10, <2>1, <3>1, Kinds DEF LaunchPersisted
    <3> QED BY <3>1, <3>3, <3>4, <3>5, <3>6 DEF PlaceInv
  <2>3. CASE Ending(Boot) /\ UNCHANGED <<phase, active>>
    <3>1. proc'[Boot].at \in BootPlaces /\ (\A q \in Procs \ {Boot} : proc'[q] = proc[q])
      BY <2>3 DEF Ending, Becomes, BootPlaces, Recording
    <3>2. stopping' = None
      BY <1>10, <2>1 DEF LaunchPersisted
    <3> QED BY <2>1, <2>3, <3>1, <3>2, PlaceBoots
  <2> QED BY <1>10, <2>1, <2>2, <2>3, BootMoves
<1>11. ASSUME NEW c \in Callers,
              \/ Start(c) \/ Stop(c) \/ Reserve(c) \/ StartEnds(c) \/ StopReads(c)
              \/ StopUnread(c) \/ StopFailed(c) \/ StopRecorded(c) \/ StopDone(c)
              \/ Join(c)
       PROVE  PlaceInv'
  <2>1. phase \in {"up", "closing"} /\ phase' = phase
    BY <1>11, Busy
    DEF Start, Stop, Reserve, StartEnds, StartRefused, LaunchUnadmitted, StopReads, StopUnread, StopFailed,
        StopRecorded, StopDone, Join, At
  <2>2. \/ Keeps(c, "reserve") \/ Rests(c) \/ Keeps(c, "read") \/ Ending(c)
        \/ Keeps(c, "join") \/ \E ends \in BOOLEAN : Becomes(c, "journal", ends, FALSE)
    BY <1>11, CallerMoves
    DEF Reserve, StopUnread, StopFailed, StopDone, Join
  <2>3. proc'[c].at \in CallerPlaces /\ \A q \in Procs \ {c} : proc'[q] = proc[q]
    BY <2>2 DEF Keeps, Rests, Ending, Becomes, CallerPlaces, Recording
  <2> QED BY <2>1, <2>3, PlaceKept, Kinds
<1>12. ASSUME NEW w \in Workers,
              \/ Ends(w, "canceled") \/ Ends(w, "clean") \/ Ends(w, "error")
              \/ Heard(w) \/ Admit(w) \/ WorkerRecorded(w) \/ Unlease(w) \/ Leave(w)
       PROVE  PlaceInv'
  <2>1. phase \in {"up", "closing"} /\ phase' = phase
    BY <1>12, Busy
    DEF Ends, Heard, Admit, WorkerRecorded, Unlease, Leave, At
  <2>2. \/ Keeps(w, "handoff") \/ Keeps(w, "admit") \/ Keeps(w, "unlease") \/ Ending(w)
        \/ Keeps(w, "leave") \/ Rests(w)
    BY <1>12, WorkerMoves DEF Admit, Leave
  <2>3. proc'[w].at \in WorkerPlaces /\ \A q \in Procs \ {w} : proc'[q] = proc[q]
    BY <2>2 DEF Keeps, Rests, Ending, Becomes, WorkerPlaces, Recording
  <2> QED BY <2>1, <2>3, PlaceKept, Kinds
<1> QED
  BY <1>1, <1>2, <1>3, <1>4, <1>5, <1>6, <1>7, <1>8, <1>9, <1>10, <1>11, <1>12, Steps

-----------------------------------------------------------------------------
(***************************************************************************)
(* The lease and the reservation.                                          *)
(***************************************************************************)
(* Nobody starts while the reservation is free or belongs to somebody else *)
LEMMA NoStarters ==
  ASSUME TypeOK, PlaceInv, LeaseInv, StopInv
  PROVE  /\ transition \notin Starters => Starters = {}
         /\ stopping # None => Starters = {} /\ transition = stopping /\ stopping \in Callers
         /\ transition = None => Starters = {} /\ stopping = None
         /\ \A w \in Workers : proc[w].at \notin {"idle", "leave"} =>
              Starters = {} /\ lease = w /\ active = w
<1>1. \A p \in Starters : transition = p /\ stopping = None
  BY StarterAlone
<1>2. stopping # None => transition = stopping /\ stopping \in Callers
  BY DEF StopInv, TypeOK
<1>3. \A w \in Workers : proc[w].at \notin {"idle", "leave"} =>
              Starters = {} /\ lease = w /\ active = w
  BY StarterAlone, Kinds DEF LeaseInv
<1>4. \A p \in Starters : p # None
  BY Kinds DEF Starters
<1> QED BY <1>1, <1>2, <1>3, <1>4

(* A step that touches none of this, but for where one goroutine is.       *)
LEMMA LeaseKept ==
  ASSUME LeaseInv, NEW p \in Procs, \A q \in Procs \ {p} : proc'[q] = proc[q],
         UNCHANGED <<lease, active, transition, stopping>>,
         p \in Workers =>
           /\ proc'[p].at \notin {"idle", "leave"} => proc[p].at \notin {"idle", "leave"}
           /\ proc'[p].at = "watch" => proc[p].at = "watch",
         p \notin Workers /\ stopping # p =>
           (proc'[p].at \in {"idle", "reserve"} <=> proc[p].at \in {"idle", "reserve"}),
         p = Boot /\ proc'[p].at = "idle" => proc[p].at = "idle"
  PROVE  LeaseInv' /\ Starters' = Starters
<1>1. Starters' = Starters
  BY Kinds DEF Starters
<1>2. \A w \in Workers : proc'[w].at \notin {"idle", "leave"} => lease' = w /\ active' = w
  BY Kinds DEF LeaseInv
<1>3. \A w \in Workers : proc'[w].at = "watch" => proc[w].at = "watch"
  BY Kinds
<1>4. proc'[Boot].at = "idle" => proc[Boot].at = "idle"
  BY Kinds
<1> QED BY <1>1, <1>2, <1>3, <1>4 DEF LeaseInv, At

(* A Stop that returns gives up the reservation and what it has leased.    *)
LEMMA LeaseReleased ==
  ASSUME TypeOK, PlaceInv, LeaseInv, StopInv, NEW c \in Callers, stopping = c,
         ReleaseStop(c), active' = active
  PROVE  LeaseInv' /\ Starters' = {}
<1>1. Rests(c) /\ stopping' = None /\ transition' = None
      /\ lease' = IF lease = c THEN None ELSE lease
  BY CallerMoves
<1>2. proc'[c].at = "idle" /\ \A q \in Procs \ {c} : proc'[q] = proc[q]
  BY <1>1 DEF Rests, Becomes
<1>3. Starters = {}
  BY NoStarters, Kinds
<1>4. Starters' = {}
  BY <1>1, <1>2, <1>3, Kinds DEF Starters
<1>5. \A w \in Workers : proc'[w].at \notin {"idle", "leave"} => lease' = w /\ active' = w
  BY <1>1, <1>2, Kinds DEF LeaseInv
<1> QED BY <1>1, <1>4, <1>5, Kinds DEF LeaseInv

(* Every step leaves the lease and the reservation with who needs them.    *)
LEMMA LeaseStep ==
  ASSUME TypeOK, PlaceInv, LeaseInv, StopInv, HandoffInv, [Next]_vars
  PROVE  LeaseInv'
<1>1. CASE UNCHANGED vars
  BY <1>1 DEF vars, maps, locks, LeaseInv, Starters, At
<1>2. CASE Down
  <2>1. \A p \in Procs : proc'[p].at = "idle"
    BY <1>2, Downs DEF Idle
  <2> QED BY <1>2, <2>1, Downs, Kinds DEF LeaseInv, Starters, At
<1>3. CASE \E p \in Procs : Write(p)
  <2>1. PICK p \in Procs : Write(p)
    BY <1>3
  <2>2. /\ WriteFrame(p) /\ proc[p].at \in Recording
        /\ proc'[p].at \in Recording \cup {"launch"}
    BY <2>1, WriterStays
  <2> QED BY <2>2, LeaseKept, Kinds DEF WriteFrame, Recording
<1>4. CASE Resume
  <2>1. Keeps(Boot, "settle") /\ lease' = Boot /\ transition' = Boot /\ phase = "down"
        /\ UNCHANGED <<active, stopping>>
    BY <1>4, BootMoves DEF Resume
  <2>2. \A q \in Procs : proc[q].at = "idle"
    BY <2>1 DEF PlaceInv, Idle
  <2> QED BY <2>1, <2>2, Kinds DEF LeaseInv, Keeps, Becomes, Starters, At
<1>5. CASE Settle \/ Reconcile \/ ResumePolicy \/ ResumeRecorded
  <2>1. /\ proc[Boot].at \notin {"idle", "reserve"}
        /\ UNCHANGED <<lease, active, transition, stopping>>
    BY <1>5
    DEF Settle, Reconcile, ResumePolicy, ResumeRecorded, At, maps, locks
  <2>2. \E at \in Places \ {"idle", "reserve"} : \E ends, ok : Becomes(Boot, at, ends, ok)
    BY <1>5, BootMoves DEF Keeps, Places, ResumePolicy
  <2> QED BY <2>1, <2>2, LeaseKept, Kinds DEF Becomes
<1>6. CASE Serve
  <2>1. proc[Boot].at # "idle" /\ Rests(Boot) /\ transition' = None
        /\ UNCHANGED <<active, stopping>>
    BY <1>6, BootMoves DEF Serve, At, Release
  <2>2. \A q \in Procs : proc'[q].at = "idle"
    BY <2>1, Busy, Kinds DEF Rests, Becomes
  <2> QED BY <2>1, <2>2, Kinds DEF LeaseInv, Starters, At
<1>7. CASE Shutdown \/ Cancel
  BY <1>7 DEF Shutdown, Cancel, maps, locks, LeaseInv, Starters, At
<1>8. ASSUME NEW p \in Callers \cup {Boot}, LaunchPersisted(p) PROVE LeaseInv'
  <2>1. At(p, "launch") /\ stopping' = stopping
    BY <1>8 DEF LaunchPersisted
  <2>2. p \in Starters /\ p \in Procs
    BY <1>8, <2>1, Kinds DEF Starters, StopInv, Recording, At, TypeOK
  <2>3. stopping = None /\ \A q \in Procs \ {p} : proc[q].at \in {"idle", "reserve", "leave"}
    BY <2>2, StarterAlone
  <2>4. CASE Launch(p)
    <3>1. PICK w \in Workers :
            /\ active' = w /\ transition' = None /\ lease' = w
            /\ \A q \in Procs \ {p, w} : proc'[q] = proc[q]
            /\ proc'[p] = Idle
      BY <2>4, Launches
    <3>2. \A q \in Procs \ {w} : proc'[q].at \in {"idle", "reserve", "leave"}
      BY <2>3, <3>1 DEF Idle
    <3>3. \A q \in Workers \ {w} : proc'[q].at \in {"idle", "leave"}
      <4>1. \A q \in Workers : proc[q].at # "reserve"
        BY DEF PlaceInv, WorkerPlaces, Recording
      <4> QED BY <3>1, <3>2, <4>1, <2>2, Kinds DEF Idle
    <3>4. Starters' = {}
      <4>1. \A q \in Callers \cup {Boot} : proc'[q].at \in {"idle", "reserve"}
        <5>1. \A q \in Callers \cup {Boot} : proc[q].at # "leave"
          BY DEF PlaceInv, CallerPlaces, BootPlaces, Recording
        <5> QED BY <3>1, <3>2, <5>1, Kinds DEF Idle
      <4> QED BY <4>1 DEF Starters
    <3> QED BY <3>1, <3>3, <3>4, Kinds DEF LeaseInv
  <2>5. CASE Ending(p) /\ UNCHANGED <<lease, transition, active>>
    BY <2>1, <2>2, <2>5, LeaseKept DEF Ending, Becomes, At, Starters
  <2>6. CASE Release(p) /\ Rests(p) /\ UNCHANGED active
    <3>1. \A q \in Procs : proc'[q].at \in {"idle", "reserve", "leave"}
      BY <2>3, <2>6 DEF Rests, Becomes
    <3>2. \A q \in Callers \cup {Boot} : proc'[q].at \in {"idle", "reserve"}
      <4>1. \A q \in Callers \cup {Boot} : proc[q].at # "leave"
        BY DEF PlaceInv, CallerPlaces, BootPlaces, Recording
      <4> QED BY <2>6, <3>1, <4>1, Kinds DEF Rests, Becomes
    <3>3. \A q \in Workers : proc'[q].at \in {"idle", "leave"}
      <4>1. \A q \in Workers : proc[q].at # "reserve"
        BY DEF PlaceInv, WorkerPlaces, Recording
      <4> QED BY <2>2, <2>6, <3>1, <4>1, Kinds DEF Rests, Becomes, Starters
    <3>4. Starters' = {}
      BY <3>2 DEF Starters
    <3> QED BY <2>6, <3>3, <3>4, Kinds DEF LeaseInv, Release
  <2> QED BY <1>8, <2>4, <2>5, <2>6, CallerMoves, BootMoves
<1>9. ASSUME NEW c \in Callers,
             \/ Start(c) \/ Stop(c) \/ Reserve(c) \/ StartEnds(c) \/ StopReads(c)
             \/ StopUnread(c) \/ StopFailed(c) \/ StopRecorded(c) \/ StopDone(c)
             \/ Join(c)
      PROVE  LeaseInv'
  <2>1. c \in Procs /\ c \notin Workers /\ c # Boot /\ c # None
    BY Kinds
  <2>2. CASE Start(c)
    BY <2>1, <2>2, CallerMoves, LeaseKept DEF Start, Keeps, Becomes, At, locks, maps
  <2>3. CASE Stop(c)
    <3>1. Keeps(c, "read") /\ transition = None /\ transition' = c /\ stopping' = c
          /\ active' = active /\ lease' = IF active = None THEN c ELSE lease
      BY <2>3, CallerMoves DEF Stop
    <3>2. Starters = {} /\ stopping = None
      BY <3>1, NoStarters
    <3>3. Starters' = {}
      BY <2>1, <3>1, <3>2, Kinds DEF Starters, Keeps, Becomes
    <3>4. \A w \in Workers : proc'[w].at \notin {"idle", "leave"} => lease' = w /\ active' = w
      BY <2>1, <3>1, Kinds DEF LeaseInv, Keeps, Becomes
    <3> QED BY <2>1, <3>1, <3>3, <3>4 DEF LeaseInv
  <2>4. CASE Reserve(c)
    <3>1. CASE Rests(c) /\ lease' = lease /\ transition' = transition
      BY <2>1, <2>4, <3>1, LeaseKept DEF Reserve, Rests, Becomes, At
    <3>2. CASE /\ transition = None /\ lease = None /\ transition' = c /\ lease' = c
               /\ \E ends \in BOOLEAN : Persist(c, ends)
      <4>1. proc'[c].at = "journal" /\ \A q \in Procs \ {c} : proc'[q] = proc[q]
        BY <3>2, CallerMoves DEF Becomes
      <4>2. Starters = {} /\ stopping = None
        BY <3>2, NoStarters
      <4>3. stopping' = stopping
        BY <2>4 DEF Reserve
      <4>4. Starters' = {c}
        BY <2>1, <4>1, <4>2, <4>3, Kinds DEF Starters
      <4>5. \A w \in Workers : proc'[w].at \in {"idle", "leave"}
        BY <2>1, <3>2, <4>1, Kinds DEF LeaseInv
      <4> QED BY <2>1, <3>2, <4>4, <4>5 DEF LeaseInv
    <3> QED BY <2>4, <3>1, <3>2, CallerMoves DEF Reserve
  <2>5. CASE StartEnds(c)
    <3>1. Rests(c) /\ Release(c) /\ UNCHANGED <<active, stopping>> /\ stopping # c
          /\ proc[c].at \in {"recorded", "launch"}
      BY <2>5, CallerMoves, StartEnding DEF StartEnds, StartRefused, LaunchUnadmitted
    <3>2. c \in Starters
      BY <3>1 DEF Starters, At
    <3>3. transition = c /\ \A q \in Procs \ {c} : proc[q].at \in {"idle", "reserve", "leave"}
      BY <3>2, StarterAlone
    <3>4. \A q \in Procs : proc'[q].at \in {"idle", "reserve", "leave"}
      BY <3>1, <3>3 DEF Rests, Becomes
    <3>5. \A q \in Callers \cup {Boot} : proc'[q].at \in {"idle", "reserve"}
      <4>1. \A q \in Callers \cup {Boot} : proc[q].at # "leave"
        BY DEF PlaceInv, CallerPlaces, BootPlaces, Recording
      <4> QED BY <3>1, <3>4, <4>1, Kinds DEF Rests, Becomes
    <3>6. \A q \in Workers : proc'[q].at \in {"idle", "leave"}
      <4>1. \A q \in Workers : proc[q].at # "reserve"
        BY DEF PlaceInv, WorkerPlaces, Recording
      <4> QED BY <2>1, <3>1, <3>4, <4>1, Kinds DEF Rests, Becomes
    <3>7. Starters' = {}
      BY <3>5 DEF Starters
    <3> QED BY <3>1, <3>6, <3>7, Kinds DEF LeaseInv, Release
  <2>6. CASE StopReads(c)
    <3>1. stopping = c
      BY <2>6 DEF StopReads, StopInv, At
    <3> QED BY <2>1, <2>6, <3>1, CallerMoves, LeaseKept
            DEF StopReads, Ending, Becomes, locks, maps
  <2>7. CASE StopUnread(c)
    <3>1. stopping = c
      BY <2>7 DEF StopUnread, StopInv, At
    <3> QED BY <2>7, <3>1, LeaseReleased DEF StopUnread
  <2>8. CASE StopFailed(c)
    BY <2>8, LeaseReleased DEF StopFailed
  <2>9. CASE StopRecorded(c)
    BY <2>1, <2>9, CallerMoves, LeaseKept DEF StopRecorded, Keeps, Becomes, locks
  <2>10. CASE StopDone(c)
    BY <2>10, LeaseReleased DEF StopDone
  <2>11. CASE Join(c)
    <3>1. stopping = c
      BY <2>11 DEF Join, StopInv, At
    <3>2. CASE Persist(c, TRUE) /\ UNCHANGED <<lease, transition, stopping>>
      BY <2>1, <2>11, <3>1, <3>2, CallerMoves, LeaseKept DEF Join, Becomes
    <3>3. CASE ReleaseStop(c)
      BY <2>11, <3>1, <3>3, LeaseReleased DEF Join
    <3> QED BY <2>11, <3>2, <3>3 DEF Join
  <2> QED BY <1>9, <2>2, <2>3, <2>4, <2>5, <2>6, <2>7, <2>8, <2>9, <2>10, <2>11
<1>10. ASSUME NEW w \in Workers,
              \/ Ends(w, "canceled") \/ Ends(w, "clean") \/ Ends(w, "error")
              \/ Heard(w) \/ Admit(w) \/ WorkerRecorded(w) \/ Unlease(w) \/ Leave(w)
       PROVE  LeaseInv'
  <2>1. w \in Procs /\ w \notin Callers /\ w # Boot /\ w # None
    BY Kinds
  <2>2. CASE Ends(w, "canceled") \/ Ends(w, "clean") \/ Ends(w, "error")
    <3>1. At(w, "watch") /\ transition' = (IF transition = None THEN w ELSE transition)
          /\ UNCHANGED <<lease, active, stopping>> /\ Keeps(w, "handoff")
      BY <2>2, WorkerMoves DEF Ends, locks
    <3>2. Starters = {} /\ lease = w /\ active = w
      BY <3>1, NoStarters DEF At
    <3>3. Starters' = {}
      BY <2>1, <3>1, <3>2, Kinds DEF Starters, Keeps, Becomes
    <3>4. \A v \in Workers : proc'[v].at # "watch"
      BY <2>1, <3>1, <3>2, Kinds DEF LeaseInv, Keeps, Becomes
    <3>5. \A v \in Workers : proc'[v].at \notin {"idle", "leave"} => lease' = v /\ active' = v
      BY <2>1, <3>1, <3>2, Kinds DEF LeaseInv, Keeps, Becomes
    <3>6. transition' = Boot => proc'[Boot].at # "idle"
      BY <2>1, <3>1, Kinds DEF LeaseInv, Keeps, Becomes
    <3> QED BY <2>1, <3>1, <3>2, <3>3, <3>4, <3>5, <3>6 DEF LeaseInv, At
  <2>3. CASE Heard(w) \/ Admit(w) \/ WorkerRecorded(w)
    <3>1. proc[w].at \in {"handoff", "admit", "recorded"}
          /\ UNCHANGED <<lease, active, transition, stopping>>
      BY <2>3 DEF Heard, Admit, WorkerRecorded, At, locks, maps
    <3>2. Keeps(w, "admit") \/ Keeps(w, "unlease") \/ Ending(w)
      BY <2>3, WorkerMoves DEF Admit
    <3> QED BY <2>1, <3>1, <3>2, LeaseKept DEF Keeps, Ending, Becomes
  <2>4. CASE Unlease(w)
    <3>1. Keeps(w, "leave") /\ UNCHANGED <<active, transition, stopping>> /\ At(w, "unlease")
      BY <2>4, WorkerMoves DEF Unlease, maps
    <3>2. Starters = {} /\ active = w
      BY <3>1, NoStarters DEF At
    <3>3. Starters' = {}
      BY <2>1, <3>1, <3>2, Kinds DEF Starters, Keeps, Becomes
    <3>4. \A v \in Workers : proc'[v].at \in {"idle", "leave"}
      BY <2>1, <3>1, <3>2, Kinds DEF LeaseInv, Keeps, Becomes
    <3>5. transition' = Boot => proc'[Boot].at # "idle"
      BY <2>1, <3>1, Kinds DEF LeaseInv, Keeps, Becomes
    <3> QED BY <3>1, <3>2, <3>3, <3>4, <3>5 DEF LeaseInv, At
  <2>5. CASE Leave(w)
    <3>1. Rests(w) /\ UNCHANGED <<lease, stopping>> /\ At(w, "leave")
          /\ active' = (IF active = w THEN None ELSE active)
          /\ transition' = (IF transition = w THEN None ELSE transition)
      BY <2>5, WorkerMoves DEF Leave, locks
    <3>2. Starters' = Starters
      BY <2>1, <3>1, Kinds DEF Starters, Rests, Becomes
    <3>3. \A v \in Workers : proc'[v].at \notin {"idle", "leave"} => lease' = v /\ active' = v
      BY <2>1, <3>1, Kinds DEF LeaseInv, Rests, Becomes, At
    <3>4. \A p \in Starters' : lease' = p /\ transition' = p
      BY <2>1, <3>1, <3>2, Kinds DEF LeaseInv, Starters
    <3>5. transition' = Boot => proc'[Boot].at # "idle"
      BY <2>1, <3>1, Kinds DEF LeaseInv, Rests, Becomes
    <3>6. \A v \in Workers : proc'[v].at = "watch" => proc[v].at = "watch"
      BY <2>1, <3>1, Kinds DEF Rests, Becomes
    <3> QED BY <2>1, <3>1, <3>2, <3>3, <3>4, <3>5, <3>6, Kinds DEF LeaseInv, At
  <2> QED BY <1>10, <2>2, <2>3, <2>4, <2>5
<1> QED BY <1>1, <1>2, <1>3, <1>4, <1>5, <1>6, <1>7, <1>8, <1>9, <1>10, Steps

(***************************************************************************)
(* A starter comes from Reserve or Resume.                                 *)
(***************************************************************************)
LEMMA StarterOrigin ==
  ASSUME TypeOK, PlaceInv, LeaseInv, StopInv, HandoffInv, [Next]_vars, NEW p \in Starters'
  PROVE  p \in Starters \/ (p \in Callers /\ Reserve(p)) \/ (p = Boot /\ Resume)
<1>1. p \in Callers \cup {Boot} /\ stopping' # p /\ proc'[p].at \notin {"idle", "reserve"}
      /\ p \in Procs /\ p \notin Workers /\ p # None
  BY Kinds DEF Starters
<1>2. SUFFICES ASSUME p \notin Starters
               PROVE  (p \in Callers /\ Reserve(p)) \/ (p = Boot /\ Resume)
  OBVIOUS
<1>3. proc[p].at \in {"idle", "reserve"} \/ stopping = p
  BY <1>1, <1>2 DEF Starters
<1>4. stopping = p => proc[p].at \notin {"idle", "reserve"} /\ p \in Callers
  BY <1>1, Kinds DEF StopInv, Recording, TypeOK
<1>5. CASE UNCHANGED vars \/ Shutdown \/ Cancel
  BY <1>1, <1>3, <1>5 DEF vars, maps, Shutdown, Cancel
<1>6. CASE Down
  BY <1>1, <1>6, Downs DEF Idle
<1>7. CASE \E q \in Procs : Write(q)
  <2>1. PICK q \in Procs : Write(q)
    BY <1>7
  <2>2. WriteFrame(q) /\ proc[q].at \in Recording
    BY <2>1, WriterStays
  <2> QED BY <1>1, <1>3, <2>2 DEF WriteFrame, Recording
<1>8. CASE Settle \/ Reconcile \/ ResumePolicy \/ ResumeRecorded \/ Serve
  <2>1. proc[Boot].at \notin {"idle", "reserve"} /\ stopping' = stopping
    BY <1>8
    DEF Settle, Reconcile, ResumePolicy, ResumeRecorded, Serve, At, maps
  <2>2. \A q \in Procs \ {Boot} : proc'[q] = proc[q]
    BY <1>8, BootMoves DEF Keeps, Becomes, Rests, ResumePolicy
  <2> QED BY <1>1, <1>3, <2>1, <2>2
<1>9. CASE \E q \in Callers \cup {Boot} : LaunchPersisted(q)
  <2>1. PICK q \in Callers \cup {Boot} : LaunchPersisted(q)
    BY <1>9
  <2>2. At(q, "launch") /\ stopping' = stopping
    BY <2>1 DEF LaunchPersisted
  <2>3. \A o \in Procs \ ({q} \cup Workers) : proc'[o] = proc[o]
    <3>1. CASE Launch(q)
      BY <3>1, Launches
    <3>2. CASE Ending(q) \/ Rests(q)
      BY <3>2 DEF Ending, Rests, Becomes
    <3> QED BY <2>1, <3>1, <3>2, CallerMoves, BootMoves
  <2> QED BY <1>1, <1>3, <2>2, <2>3 DEF At
<1>10. ASSUME NEW c \in Callers,
              \/ Start(c) \/ Stop(c) \/ Reserve(c) \/ StartEnds(c) \/ StopReads(c)
              \/ StopUnread(c) \/ StopFailed(c) \/ StopRecorded(c) \/ StopDone(c)
              \/ Join(c)
       PROVE  c = p /\ Reserve(c)
  <2>1. \A q \in Procs \ {c} : proc'[q] = proc[q]
    BY <1>10, CallerMoves
    DEF Reserve, StopUnread, StopFailed, StopDone, Join, Keeps, Rests, Ending, Becomes
  <2>2. CASE Start(c)
    BY <1>1, <1>3, <2>1, <2>2, CallerMoves DEF Start, Keeps, Becomes, maps
  <2>3. CASE Stop(c)
    BY <1>1, <1>3, <2>1, <2>3 DEF Stop, StopInv
  <2>4. CASE Reserve(c)
    BY <1>1, <1>3, <2>1, <2>4 DEF Reserve
  <2>5. CASE StartEnds(c)
    BY <1>1, <1>3, <2>1, <2>5, CallerMoves DEF StartEnds, StartRefused, LaunchUnadmitted, Rests, Becomes
  <2>6. CASE StopReads(c) \/ StopRecorded(c)
    BY <1>1, <1>3, <2>1, <2>6 DEF StopReads, StopRecorded, At, maps
  <2>7. CASE ReleaseStop(c) /\ stopping = c
    BY <1>1, <1>3, <2>1, <2>7, CallerMoves DEF Rests, Becomes
  <2>8. CASE Join(c) /\ UNCHANGED stopping
    BY <1>1, <1>3, <2>1, <2>8 DEF Join, At
  <2>9. At(c, "read") \/ At(c, "join") => stopping = c
    BY DEF StopInv, At
  <2> QED BY <1>10, <2>2, <2>3, <2>4, <2>5, <2>6, <2>7, <2>8, <2>9
      DEF StopUnread, StopFailed, StopDone, Join
<1>11. ASSUME NEW w \in Workers,
              \/ Ends(w, "canceled") \/ Ends(w, "clean") \/ Ends(w, "error")
              \/ Heard(w) \/ Admit(w) \/ WorkerRecorded(w) \/ Unlease(w) \/ Leave(w)
       PROVE  FALSE
  <2>1. proc'[p] = proc[p]
    BY <1>1, <1>11, WorkerMoves DEF Admit, Leave, Keeps, Ending, Rests, Becomes
  <2>2. stopping' = stopping
    BY <1>11 DEF Ends, Heard, Admit, WorkerRecorded, Unlease, Leave, maps
  <2> QED BY <1>1, <1>3, <2>1, <2>2
<1>12. CASE Resume
  BY <1>1, <1>3, <1>12, BootMoves DEF Resume, Keeps, Becomes
<1> QED
  BY <1>1, <1>5, <1>6, <1>7, <1>8, <1>9, <1>10, <1>11, <1>12, Steps, Kinds

-----------------------------------------------------------------------------
(***************************************************************************)
(* The Stop that owns the end of a worker.                                 *)
(***************************************************************************)
(* Without a Stop nothing is asked but that no call is inside one.         *)
LEMMA StopNone ==
  ASSUME TypeOK, StopInv, stopping = None, stopping' = None, handoff' = handoff,
         \A c \in Callers : proc'[c].at \in {"read", "join"} => proc[c].at \in {"read", "join"}
  PROVE  StopInv'
<1>1. \A c \in Callers : proc'[c].at \notin {"read", "join"}
  BY Kinds DEF StopInv
<1>2. handoff' # "yield"
  BY DEF StopInv
<1> QED BY <1>1, <1>2, Kinds DEF StopInv, At

(* A step of one goroutine that leaves the Stop and its reservation alone. *)
LEMMA StopKept ==
  ASSUME TypeOK, StopInv, NEW p \in Procs, \A q \in Procs \ {p} : proc'[q] = proc[q],
         UNCHANGED <<stopping, handoff, joins>>,
         stopping # None => transition' = transition,
         p \in Workers => (proc'[p].at = "watch" => proc[p].at = "watch"),
         p \in Callers => proc'[p].at \notin {"read", "join"},
         p = stopping =>
           proc[p].at # "join" /\ proc'[p].at \in Recording /\ proc'[p].ends = TRUE
  PROVE  StopInv'
<1>1. \A c \in Callers : proc'[c].at \in {"read", "join"} => proc'[c] = proc[c]
  BY Kinds
<1>2. \A w \in Workers : proc'[w].at = "watch" => proc[w].at = "watch"
  BY Kinds
<1>3. CASE stopping = None
  BY <1>1, <1>3, StopNone
<1>4. CASE stopping # None /\ p = stopping
  <2>1. p \in Callers /\ transition = p
    BY <1>4 DEF StopInv, TypeOK
  <2> QED BY <1>1, <1>2, <1>4, <2>1, Kinds DEF StopInv, At, Recording
<1>5. CASE stopping # None /\ p # stopping
  <2>1. stopping \in Callers /\ proc'[stopping] = proc[stopping]
    BY <1>5, Kinds DEF TypeOK
  <2> QED BY <1>1, <1>2, <1>5, <2>1, Kinds DEF StopInv, At, Recording
<1> QED BY <1>3, <1>4, <1>5

(* A Stop that gives everything back owns no end any more.                 *)
LEMMA StopReleased ==
  ASSUME TypeOK, StopInv, NEW c \in Callers, stopping = c, ReleaseStop(c)
  PROVE  StopInv'
<1>1. Rests(c) /\ stopping' = None /\ handoff' = "none"
  BY CallerMoves
<1>2. \A d \in Callers : proc'[d].at \notin {"read", "join"}
  BY <1>1, Kinds DEF StopInv, Rests, Becomes
<1> QED BY <1>1, <1>2, Kinds DEF StopInv, At

(* Every step keeps the ownership of a worker's end.                       *)
LEMMA StopStep ==
  ASSUME TypeOK, PlaceInv, LeaseInv, StopInv, HandoffInv, [Next]_vars
  PROVE  StopInv'
<1>1. CASE UNCHANGED vars \/ Shutdown \/ Cancel
  BY <1>1 DEF vars, maps, Shutdown, Cancel, StopInv, At
<1>2. CASE Down
  <2>1. \A p \in Procs : proc'[p].at = "idle"
    BY <1>2, Downs DEF Idle
  <2> QED BY <1>2, <2>1, Downs, Kinds DEF StopInv, At
<1>3. CASE \E p \in Procs : Write(p)
  <2>1. PICK p \in Procs : Write(p)
    BY <1>3
  <2>2. /\ WriteFrame(p) /\ proc[p].at \in Recording
        /\ proc'[p].at \in Recording \cup {"launch"}
        /\ proc[p].ends = TRUE => proc'[p].at \in Recording /\ proc'[p].ends = TRUE
    BY <2>1, WriterStays
  <2>3. p = stopping => proc[p].ends = TRUE
    BY <2>2, Writers, Kinds DEF Starters, TypeOK
  <2> QED BY <2>2, <2>3, StopKept DEF WriteFrame, Recording
<1>4. CASE Resume \/ Settle \/ Reconcile \/ ResumePolicy \/ ResumeRecorded \/ Serve
  <2>1. /\ phase = "down" \/ proc[Boot].at # "idle"
        /\ UNCHANGED <<stopping, handoff>>
    BY <1>4
    DEF Resume, Settle, Reconcile, ResumePolicy, ResumeRecorded, Serve, At, maps
  <2>2. stopping = None
    BY <2>1, Busy DEF PlaceInv
  <2>3. \A q \in Procs \ {Boot} : proc'[q] = proc[q]
    BY <1>4, BootMoves DEF Keeps, Becomes, Rests, ResumePolicy
  <2> QED BY <2>1, <2>2, <2>3, StopNone, Kinds
<1>5. ASSUME NEW p \in Callers \cup {Boot}, LaunchPersisted(p) PROVE StopInv'
  <2>1. At(p, "launch") /\ UNCHANGED <<stopping, handoff>>
    BY <1>5 DEF LaunchPersisted
  <2>2. p \in Starters
    BY <1>5, <2>1, Kinds DEF Starters, StopInv, Recording, At, TypeOK
  <2>3. stopping = None
    BY <2>2, StarterAlone
  <2>4. \A o \in Callers \ {p} : proc'[o] = proc[o]
    <3>1. CASE Launch(p)
      BY <3>1, Launches, Kinds
    <3>2. CASE Ending(p) \/ Rests(p)
      BY <3>2, Kinds DEF Ending, Rests, Becomes
    <3> QED BY <1>5, <3>1, <3>2, CallerMoves, BootMoves
  <2>5. proc'[p].at \notin {"read", "join"}
    <3>1. CASE Launch(p)
      <4>1. proc'[p] = Idle
        BY <3>1, Launches
      <4> QED BY <4>1 DEF Idle
    <3>2. CASE Ending(p) \/ Rests(p)
      BY <3>2 DEF Ending, Rests, Becomes
    <3> QED BY <1>5, <3>1, <3>2, CallerMoves, BootMoves
  <2> QED BY <2>1, <2>3, <2>4, <2>5, StopNone
<1>6. ASSUME NEW c \in Callers,
             \/ Start(c) \/ Stop(c) \/ Reserve(c) \/ StartEnds(c) \/ StopReads(c)
             \/ StopUnread(c) \/ StopFailed(c) \/ StopRecorded(c) \/ StopDone(c)
             \/ Join(c)
      PROVE  StopInv'
  <2>1. c \in Procs /\ c \notin Workers /\ c # Boot /\ c # None
    BY Kinds
  <2>2. CASE Start(c)
    <3>1. stopping # c
      BY <2>1, <2>2 DEF Start, StopInv, At, Recording
    <3> QED BY <2>1, <2>2, <3>1, CallerMoves, StopKept DEF Start, Keeps, Becomes, maps
  <2>3. CASE Stop(c)
    <3>1. Keeps(c, "read") /\ transition = None /\ transition' = c /\ stopping' = c
          /\ joins' = [joins EXCEPT ![c] = active] /\ handoff' = "none"
      BY <2>3, CallerMoves DEF Stop
    <3>2. joins'[c] = active
      BY <3>1 DEF TypeOK
    <3>3. stopping = None
      BY <3>1, NoStarters
    <3>4. \A w \in Workers : proc'[w].at = "watch" => active = w
      BY <2>1, <3>1, Kinds DEF LeaseInv, Keeps, Becomes
    <3>5. \A d \in Callers \ {c} : proc'[d].at \notin {"read", "join"}
      BY <2>1, <3>1, <3>3, Kinds DEF StopInv, Keeps, Becomes
    <3>6. proc'[c].at = "read"
      BY <3>1 DEF Keeps, Becomes
    <3> QED BY <3>1, <3>2, <3>4, <3>5, <3>6, Kinds DEF StopInv, At, Recording
  <2>4. CASE Reserve(c)
    <3>1. stopping # c /\ UNCHANGED <<stopping, handoff, joins>>
      BY <2>1, <2>4 DEF Reserve, StopInv, At, Recording
    <3>2. CASE Rests(c) /\ transition' = transition
      BY <2>1, <3>1, <3>2, StopKept DEF Rests, Becomes
    <3>3. CASE /\ transition = None
               /\ \E ends \in BOOLEAN : Persist(c, ends)
      <4>1. proc'[c].at = "journal" /\ \A q \in Procs \ {c} : proc'[q] = proc[q]
        BY <3>3, CallerMoves DEF Becomes
      <4>2. stopping = None
        BY <3>3, NoStarters
      <4> QED BY <2>1, <3>1, <4>1, <4>2, StopKept
    <3> QED BY <2>4, <3>2, <3>3, CallerMoves DEF Reserve
  <2>5. CASE StartEnds(c)
    <3>1. Rests(c) /\ UNCHANGED <<stopping, handoff, joins>> /\ stopping # c
          /\ proc[c].at \in {"recorded", "launch"}
      BY <2>5, CallerMoves, StartEnding DEF StartEnds, StartRefused, LaunchUnadmitted
    <3>2. c \in Starters
      BY <3>1 DEF Starters, At
    <3>3. stopping = None
      BY <3>2, StarterAlone
    <3> QED BY <2>1, <3>1, <3>3, StopKept DEF Rests, Becomes
  <2>6. CASE StopReads(c)
    <3>1. Ending(c) /\ UNCHANGED <<stopping, handoff, joins, transition>> /\ At(c, "read")
      BY <2>6, CallerMoves DEF StopReads, maps
    <3> QED BY <2>1, <3>1, StopKept DEF Ending, Becomes, At, Recording
  <2>7. CASE StopUnread(c)
    BY <2>7, StopReleased DEF StopUnread, StopInv, At
  <2>8. CASE StopFailed(c)
    BY <2>8, StopReleased DEF StopFailed
  <2>9. CASE StopRecorded(c)
    <3>1. /\ Keeps(c, "join") /\ UNCHANGED <<stopping, joins, transition>> /\ stopping = c
          /\ joins[c] # None /\ handoff' = "yield"
      BY <2>9, CallerMoves DEF StopRecorded
    <3>2. proc'[c].at = "join" /\ \A q \in Procs \ {c} : proc'[q] = proc[q]
      BY <3>1 DEF Keeps, Becomes
    <3> QED BY <2>1, <3>1, <3>2, Kinds DEF StopInv, At, Recording
  <2>10. CASE StopDone(c)
    BY <2>10, StopReleased DEF StopDone
  <2>11. CASE Join(c)
    <3>1. stopping = c /\ At(c, "join") /\ At(joins[c], "idle") /\ joins[c] # None
      BY <2>11 DEF Join, StopInv, At
    <3>2. joins[c] \in Workers
      BY <3>1 DEF TypeOK
    <3>3. CASE /\ Persist(c, TRUE) /\ joins' = [joins EXCEPT ![c] = None]
               /\ UNCHANGED <<transition, stopping, handoff>>
      <4>1. proc'[c].at = "journal" /\ proc'[c].ends = TRUE
            /\ \A q \in Procs \ {c} : proc'[q] = proc[q]
        BY <3>3, CallerMoves DEF Becomes
      <4>2. joins'[c] = None
        BY <3>3 DEF TypeOK
      <4>3. \A w \in Workers : proc'[w].at # "watch"
        BY <3>1, <3>2, <4>1, Kinds DEF StopInv, At
      <4> QED BY <2>1, <3>1, <3>3, <4>1, <4>2, <4>3, Kinds DEF StopInv, At, Recording
    <3>4. CASE ReleaseStop(c)
      BY <3>1, <3>4, StopReleased
    <3> QED BY <2>11, <3>3, <3>4 DEF Join
  <2> QED BY <1>6, <2>2, <2>3, <2>4, <2>5, <2>6, <2>7, <2>8, <2>9, <2>10, <2>11
<1>7. ASSUME NEW w \in Workers,
             \/ Ends(w, "canceled") \/ Ends(w, "clean") \/ Ends(w, "error")
             \/ Heard(w) \/ Admit(w) \/ WorkerRecorded(w) \/ Unlease(w) \/ Leave(w)
      PROVE  StopInv'
  <2>1. w \in Procs /\ w \notin Callers /\ w # Boot /\ w # None /\ w # stopping
    BY Kinds DEF TypeOK
  <2>2. UNCHANGED <<stopping, handoff, joins>>
    BY <1>7 DEF Ends, Heard, Admit, WorkerRecorded, Unlease, Leave, maps
  <2>3. stopping # None => transition' = transition
    <3>1. stopping # None => transition # None /\ transition # w
      BY <2>1, NoStarters, Kinds
    <3> QED BY <1>7, <3>1 DEF Ends, Heard, Admit, WorkerRecorded, Unlease, Leave, maps
  <2>4. proc'[w].at # "watch" /\ \A q \in Procs \ {w} : proc'[q] = proc[q]
    BY <1>7, WorkerMoves DEF Admit, Leave, Keeps, Ending, Rests, Becomes
  <2> QED BY <2>1, <2>2, <2>3, <2>4, StopKept
<1> QED BY <1>1, <1>2, <1>3, <1>4, <1>5, <1>6, <1>7, Steps

-----------------------------------------------------------------------------
(***************************************************************************)
(* How a worker and a Stop hand its end over.                              *)
(***************************************************************************)
(* A worker that does not move, while its Stop stays.                      *)
LEMMA HandoffSame ==
  ASSUME TypeOK, NEW w \in Workers, Handoff(w), proc'[w] = proc[w], run'[w] = run[w],
         transition = w => transition' = w,
         phase = "closing" => phase' = "closing",
         stopping # None =>
           /\ stopping' = stopping /\ joins'[stopping] = joins[stopping]
           /\ proc[stopping].at = "join" => proc'[stopping].at = "join"
  PROVE  Handoff(w)'
<1>1. stopping = None => /\ proc[w].at \notin {"idle", "watch"} =>
                              run[w].answer \notin {"none", "yield"}
                         /\ ~(At(w, "watch") /\ run[w].canceled)
  BY DEF Handoff
<1>2. CASE stopping = None
  BY <1>1, <1>2 DEF Handoff, At
<1>3. CASE stopping # None
  BY <1>3 DEF Handoff, At
<1> QED BY <1>2, <1>3

(* A worker that does not move, when a Stop returns.                       *)
LEMMA HandoffReleased ==
  ASSUME TypeOK, StopInv, NEW w \in Workers, Handoff(w), NEW c \in Callers, stopping = c,
         proc'[w] = proc[w], phase' = phase,
         transition # w, proc[c].at = "join" => At(joins[c], "idle"),
         run'[w].owner = run[w].owner, run'[w].result = run[w].result,
         run'[w].canceled = run[w].canceled,
         \/ /\ run'[w].answer = run[w].answer
            /\ run[w].owner = c =>
                 run[w].answer # "none" \/ proc[w].at \in {"idle", "watch"}
         \/ run[w].owner = c /\ run[w].answer = "none" /\ run'[w].answer \in {"keep", "never"}
  PROVE  Handoff(w)'
<1>1. c # None
  BY Kinds
<1>2. ~(At(w, "watch") /\ run[w].canceled)
  BY <1>1 DEF Handoff, StopInv, At
<1>3. proc[w].at \notin {"idle", "watch"} => run[w].answer # "yield" /\ run[w].owner # None
  BY <1>1 DEF Handoff, At
<1>4. CASE At(w, "idle") \/ At(w, "watch")
  BY <1>1, <1>2, <1>4 DEF Handoff, At, Recording
<1>5. CASE ~At(w, "idle") /\ ~At(w, "watch") /\ run'[w].answer = run[w].answer
  <2>1. run[w].answer # "none"
    BY <1>5 DEF Handoff, At
  <2> QED BY <1>3, <1>5, <2>1 DEF Handoff, At
<1>6. CASE /\ ~At(w, "idle") /\ ~At(w, "watch")
           /\ run[w].owner = c /\ run[w].answer = "none" /\ run'[w].answer \in {"keep", "never"}
  BY <1>1, <1>3, <1>6 DEF Handoff, At, Recording
<1> QED BY <1>4, <1>5, <1>6

(* Every step keeps what a worker knows of the Stop that ended it.         *)
LEMMA HandoffStep ==
  ASSUME TypeOK, PlaceInv, LeaseInv, StopInv, HandoffInv, [Next]_vars, NEW w \in Workers
  PROVE  Handoff(w)'
<1> USE Kinds DEF HandoffInv
<1>0. Handoff(w) /\ w \in Procs /\ w # None /\ w \notin Callers /\ w # Boot /\ w # stopping
  BY DEF TypeOK
<1>1. CASE UNCHANGED vars \/ Shutdown \/ Cancel
  BY <1>0, <1>1, HandoffSame DEF vars, maps, Shutdown, Cancel
<1>2. CASE Down
  <2>1. proc'[w] = Idle
    BY <1>0, <1>2, Downs
  <2> QED BY <2>1 DEF Handoff, Idle, At, Recording
<1>3. CASE \E p \in Procs : Write(p)
  <2>1. PICK p \in Procs : Write(p)
    BY <1>3
  <2>2. /\ WriteFrame(p) /\ proc[p].at \in Recording
        /\ proc[p].ends = TRUE => proc'[p].at \in Recording /\ proc'[p].ends = TRUE
    BY <2>1, WriterStays
  <2>3. CASE p # w
    <3>1. proc[p].at # "join"
      BY <2>2 DEF Recording
    <3>2. stopping # None => proc'[stopping] = proc[stopping] \/ stopping = p
      BY <2>2 DEF WriteFrame, TypeOK
    <3> QED BY <1>0, <2>2, <2>3, <3>1, <3>2, HandoffSame DEF WriteFrame
  <2>4. CASE p = w
    <3>1. proc[w].ends = TRUE /\ run[w].answer = "keep"
      BY <1>0, <2>2, <2>4, Writers DEF Starters
    <3>2. proc'[w].at \in Recording /\ proc'[w].ends = TRUE
      BY <2>2, <2>4, <3>1
    <3>3. UNCHANGED <<run, transition, stopping, phase, joins>>
      BY <2>2 DEF WriteFrame
    <3>4. proc[w].at \notin {"idle", "watch"}
      BY <2>2, <2>4 DEF Recording
    <3> QED BY <1>0, <3>1, <3>2, <3>3, <3>4 DEF Handoff, At, Recording
  <2> QED BY <2>3, <2>4
<1>4. CASE Resume \/ Settle \/ Reconcile \/ ResumePolicy \/ ResumeRecorded \/ Serve
  <2>1. /\ phase = "down" \/ proc[Boot].at # "idle"
        /\ UNCHANGED <<stopping, run, joins>>
    BY <1>4
    DEF Resume, Settle, Reconcile, ResumePolicy, ResumeRecorded, Serve, At, maps
  <2>2. proc[w] = Idle
    BY <1>0, <2>1, Busy DEF PlaceInv
  <2>3. \A q \in Procs \ {Boot} : proc'[q] = proc[q]
    BY <1>4, BootMoves DEF Keeps, Becomes, Rests, ResumePolicy
  <2> QED BY <1>0, <2>2, <2>3 DEF Handoff, Idle, At, Recording
<1>5. ASSUME NEW p \in Callers \cup {Boot}, LaunchPersisted(p) PROVE Handoff(w)'
  <2>1. At(p, "launch") /\ UNCHANGED <<stopping, joins>>
    BY <1>5 DEF LaunchPersisted
  <2>2. p \in Starters
    BY <1>5, <2>1 DEF Starters, StopInv, Recording, At, TypeOK
  <2>3. stopping = None /\ transition # w
    BY <1>0, <2>2, StarterAlone
  <2>4. CASE Launch(p)
    <3>1. PICK v \in Workers :
            /\ At(v, "idle") /\ active' = v
            /\ run' = [run EXCEPT ![v] = NoRun]
            /\ \A q \in Procs \ {p, v} : proc'[q] = proc[q]
            /\ proc'[v] = [proc[v] EXCEPT !.at = "watch"]
      BY <2>4, Launches
    <3>2. RunBecomes(v, NoRun)
      BY <3>1, Runs
    <3>3. CASE v = w
      <4>1. proc'[w].at = "watch" /\ proc'[w].ends = proc[w].ends
        BY <1>0, <3>1, <3>3 DEF TypeOK
      <4>2. run'[w].owner = None /\ run'[w].answer = "none" /\ run'[w].canceled = FALSE
        BY <3>2, <3>3 DEF RunBecomes, NoRun
      <4> QED BY <1>0, <3>1, <3>3, <4>1, <4>2 DEF Handoff, At, Recording
    <3>4. CASE v # w
      <4>1. proc'[w] = proc[w] /\ run'[w] = run[w]
        BY <1>0, <1>5, <3>1, <3>2, <3>4 DEF RunBecomes
      <4>2. phase = "closing" => phase' = "closing"
        <5>1. active = v => lease = v \/ active' = active
          BY <3>1
        <5>2. CASE phase = "closing"
          BY <1>5, <5>2 DEF LaunchPersisted
        <5> QED BY <5>2
      <4> QED BY <1>0, <2>1, <2>3, <4>1, <4>2, HandoffSame
    <3> QED BY <3>3, <3>4
  <2>5. CASE (Ending(p) \/ Rests(p)) /\ UNCHANGED <<phase, run>>
    <3>1. proc'[w] = proc[w]
      BY <1>0, <1>5, <2>5 DEF Ending, Rests, Becomes
    <3> QED BY <1>0, <2>1, <2>3, <2>5, <3>1, HandoffSame
  <2> QED BY <1>5, <2>4, <2>5, CallerMoves, BootMoves
<1>6. ASSUME NEW c \in Callers,
             \/ Start(c) \/ Stop(c) \/ Reserve(c) \/ StartEnds(c) \/ StopReads(c)
             \/ StopUnread(c) \/ StopFailed(c) \/ StopRecorded(c) \/ StopDone(c)
             \/ Join(c)
      PROVE  Handoff(w)'
  <2>1. c \in Procs /\ c \notin Workers /\ c # Boot /\ c # None
    OBVIOUS
  <2>2. proc'[w] = proc[w] /\ phase' = phase /\ \A q \in Procs \ {c} : proc'[q] = proc[q]
    <3>1. \A q \in Procs \ {c} : proc'[q] = proc[q]
      BY <1>6, CallerMoves
      DEF Reserve, StopUnread, StopFailed, StopDone, Join, Keeps, Rests, Ending, Becomes
    <3> QED BY <1>0, <1>6, <2>1, <3>1
        DEF Start, Stop, Reserve, StartEnds, StartRefused, LaunchUnadmitted, StopReads, StopUnread, StopFailed,
            StopRecorded, StopDone, Join
  <2>3. stopping # None /\ stopping # c => proc'[stopping] = proc[stopping]
    BY <2>2 DEF TypeOK
  <2>4. stopping = c => transition # w
    BY <1>0, <2>1 DEF StopInv
  <2>5. At(c, "read") \/ At(c, "join") => stopping = c
    BY DEF StopInv, At
  <2>6. CASE Start(c) \/ Reserve(c) \/ StartEnds(c)
    <3>1. UNCHANGED <<stopping, joins, run>> /\ stopping # c
      BY <2>1, <2>6
      DEF Start, Reserve, StartEnds, StartRefused, LaunchUnadmitted, maps, StopInv, At, Recording
    <3>2. transition = w => transition' = w
      <4>1. StartEnds(c) => c \in Starters
        BY <3>1 DEF Starters, StartEnds, StartRefused, LaunchUnadmitted, At
      <4>2. StartEnds(c) => transition # w
        BY <1>0, <4>1, StarterAlone
      <4> QED BY <1>0, <2>6, <4>2 DEF Start, Reserve, Refused, maps
    <3> QED BY <1>0, <2>2, <2>3, <3>1, <3>2, HandoffSame
  <2>7. CASE Stop(c)
    <3>1. transition = None /\ run' = run
      BY <2>7 DEF Stop
    <3>2. stopping = None
      BY <3>1, NoStarters
    <3> QED BY <1>0, <2>2, <3>1, <3>2, HandoffSame
  <2>8. CASE StopReads(c)
    <3>1. UNCHANGED <<stopping, joins, run, transition>> /\ At(c, "read")
      BY <2>8 DEF StopReads, maps
    <3> QED BY <1>0, <2>2, <2>3, <3>1, HandoffSame DEF At
  <2>9. CASE StopUnread(c)
    <3>1. At(c, "read") /\ stopping = c /\ Told(c, "never") /\ run'[w].canceled = run[w].canceled
      BY <2>5, <2>9, Telling DEF StopUnread
    <3> QED BY <1>0, <2>2, <2>4, <3>1, HandoffReleased DEF Told, At
  <2>10. CASE StopFailed(c)
    <3>1. At(c, "recorded") /\ stopping = c /\ Told(c, "keep")
          /\ run'[w].canceled = run[w].canceled
      BY <2>10, Telling DEF StopFailed
    <3> QED BY <1>0, <2>2, <2>4, <3>1, HandoffReleased DEF Told, At
  <2>11. CASE StopRecorded(c)
    <3>1. /\ Keeps(c, "join") /\ UNCHANGED <<stopping, joins, transition>> /\ stopping = c
          /\ joins[c] # None /\ handoff' = "yield" /\ At(c, "recorded")
          /\ run' = [Tell(c, "yield") EXCEPT ![joins[c]].canceled = TRUE]
      BY <2>11, CallerMoves DEF StopRecorded
    <3>2. joins[c] \in Workers
      BY <3>1 DEF TypeOK
    <3>3. Told(c, "yield") /\ (joins[c] # w => run'[w].canceled = run[w].canceled)
      BY <3>1, <3>2, Telling
    <3>4. proc'[c].at = "join"
      BY <3>1 DEF Keeps, Becomes
    <3>5. CASE At(w, "watch")
      BY <1>0, <2>1, <2>2, <3>1, <3>3, <3>4, <3>5 DEF Told, Handoff, At, Recording
    <3>6. CASE ~At(w, "watch")
      <4>1. run[w].answer \in {"none", "keep", "yield", "never"} /\ proc[w].ends \in BOOLEAN
        BY DEF TypeOK
      <4>2. proc[w].at \notin {"idle", "watch"} => run[w].answer # "yield"
        BY <3>1 DEF Handoff, At
      <4>3. CASE run[w].owner = c /\ run[w].answer = "none"
        BY <1>0, <2>1, <2>2, <3>1, <3>3, <3>4, <3>6, <4>1, <4>3 DEF Told, Handoff, At, Recording
      <4>4. CASE ~(run[w].owner = c /\ run[w].answer = "none")
        BY <1>0, <2>1, <2>2, <3>1, <3>3, <3>6, <4>2, <4>4 DEF Told, Handoff, At
      <4> QED BY <4>3, <4>4
    <3> QED BY <3>5, <3>6
  <2>12. CASE StopDone(c)
    <3>1. At(c, "recorded") /\ stopping = c /\ run' = run /\ joins[c] = None
      BY <2>12 DEF StopDone
    <3>2. run[w].owner = c => run[w].answer # "none" \/ proc[w].at \in {"idle", "watch"}
      BY <1>0, <2>1, <3>1 DEF Handoff, At
    <3> QED BY <1>0, <2>2, <2>4, <3>1, <3>2, HandoffReleased DEF At
  <2>13. CASE Join(c)
    <3>1. stopping = c /\ At(c, "join") /\ At(joins[c], "idle") /\ run' = run
      BY <2>5, <2>13 DEF Join
    <3>2. run[w].owner = c => run[w].answer # "none" \/ proc[w].at \in {"idle", "watch"}
      BY <1>0, <2>1, <3>1 DEF Handoff, At
    <3> QED BY <1>0, <2>2, <2>4, <3>1, <3>2, HandoffReleased DEF At
  <2> QED BY <1>6, <2>6, <2>7, <2>8, <2>9, <2>10, <2>11, <2>12, <2>13
<1>7. ASSUME NEW v \in Workers,
             \/ Ends(v, "canceled") \/ Ends(v, "clean") \/ Ends(v, "error")
             \/ Heard(v) \/ Admit(v) \/ WorkerRecorded(v) \/ Unlease(v) \/ Leave(v)
      PROVE  Handoff(w)'
  <2>1. v # stopping /\ v \in Procs
    BY DEF TypeOK
  <2>2. UNCHANGED <<stopping, joins, phase>>
    BY <1>7 DEF Ends, Heard, Admit, WorkerRecorded, Unlease, Leave, maps
  <2>3. \A q \in Procs \ {v} : proc'[q] = proc[q]
    BY <1>7, WorkerMoves DEF Admit, Leave, Keeps, Ending, Rests, Becomes
  <2>4. CASE v # w
    <3>1. proc'[w] = proc[w] /\ (stopping # None => proc'[stopping] = proc[stopping])
      BY <1>0, <2>1, <2>3, <2>4 DEF TypeOK
    <3>2. run'[w] = run[w]
      <4>1. run' = run \/ \E x : RunBecomes(v, x)
        <5>1. CASE Ends(v, "canceled") \/ Ends(v, "clean") \/ Ends(v, "error")
          BY <5>1, Runs
        <5>2. CASE Admit(v)
          BY <5>2, Runs DEF Admit
        <5>3. CASE Leave(v)
          BY <5>3, Runs DEF Leave
        <5> QED BY <1>7, <5>1, <5>2, <5>3 DEF Heard, WorkerRecorded, Unlease
      <4> QED BY <1>0, <2>4, <4>1 DEF RunBecomes
    <3>3. transition = w => transition' = w
      BY <1>0, <1>7, <2>4 DEF Ends, Heard, Admit, WorkerRecorded, Unlease, Leave, maps
    <3> QED BY <1>0, <2>2, <3>1, <3>2, <3>3, HandoffSame
  <2>5. CASE v = w
    <3>1. CASE \E result \in {"canceled", "clean", "error"} : Ends(w, result)
      <4>1. PICK result \in {"canceled", "clean", "error"} : Ends(w, result)
        BY <3>1
      <4>2. /\ At(w, "watch") /\ Keeps(w, "handoff")
            /\ result = "canceled" => run[w].canceled \/ phase = "closing"
            /\ transition' = IF transition = None THEN w ELSE transition
        BY <4>1, WorkerMoves DEF Ends, Canceled
      <4>3. /\ run'[w].result = result /\ run'[w].owner = stopping
            /\ run'[w].answer = (IF stopping = None THEN "keep" ELSE handoff)
        BY <4>1, Runs DEF RunBecomes
      <4>4. proc'[w].at = "handoff" /\ proc'[w].ends = proc[w].ends
        BY <4>2 DEF Keeps, Becomes
      <4>5. stopping = None => transition \in {None, w}
        <5>1. Starters = {}
          BY <1>0, <4>2, NoStarters DEF At
        <5>2. transition \notin Workers
          BY <4>2 DEF LeaseInv
        <5>3. transition # Boot
          BY <5>1 DEF LeaseInv, Starters, PlaceInv, BootPlaces, Recording, TypeOK
        <5> QED BY <5>1, <5>2, <5>3 DEF LeaseInv, TypeOK
      <4>6. stopping # None => joins[stopping] = w /\ stopping \in Procs
                               /\ proc'[stopping] = proc[stopping]
        BY <1>0, <2>3, <4>2 DEF StopInv, TypeOK
      <4>7. handoff \in {"none", "yield"}
        BY DEF TypeOK
      <4>8. handoff = "yield" /\ stopping # None => At(stopping, "join")
        BY <1>0, <4>6 DEF StopInv
      <4>9. run[w].canceled => stopping # None /\ handoff = "yield"
        BY <4>2 DEF Handoff, StopInv, At, TypeOK
      <4> QED BY <1>0, <2>2, <4>2, <4>3, <4>4, <4>5, <4>6, <4>7, <4>8, <4>9
          DEF Handoff, At, Recording
    <3>2. CASE Heard(w)
      <4>1. At(w, "handoff") /\ UNCHANGED <<run, transition>>
        BY <3>2 DEF Heard, maps
      <4>2. stopping # None => proc'[stopping] = proc[stopping]
        BY <1>0, <2>3, <2>5 DEF TypeOK
      <4>3. \/ run[w].answer = "keep" /\ Keeps(w, "admit")
            \/ run[w].answer = "yield" /\ Keeps(w, "unlease")
        BY <3>2, WorkerMoves
      <4>4. \/ run[w].answer = "keep" /\ proc'[w].at = "admit"
            \/ run[w].answer = "yield" /\ proc'[w].at = "unlease"
        BY <4>3 DEF Keeps, Becomes
      <4>5. proc'[w].ends = proc[w].ends
        BY <4>3 DEF Keeps, Becomes
      <4> QED BY <1>0, <2>2, <4>1, <4>2, <4>4, <4>5 DEF Handoff, At, Recording
    <3>3. CASE Admit(w)
      <4>1. At(w, "admit") /\ UNCHANGED transition
        BY <3>3 DEF Admit, maps
      <4>2. run[w].answer = "keep"
        <5>1. run[w].answer \in {"none", "keep", "yield", "never"}
          BY DEF TypeOK
        <5> QED BY <4>1, <5>1 DEF Handoff, At
      <4>3. run'[w].owner = run[w].owner /\ run'[w].answer = run[w].answer
            /\ run'[w].result \in {run[w].result, "error"}
        <5>1. run' = run \/ run' = [run EXCEPT ![w].result = "error"]
          BY <3>3 DEF Admit
        <5>2. CASE run' = run
          BY <5>2
        <5>3. CASE run' = [run EXCEPT ![w].result = "error"]
          BY <5>3, Runs DEF RunBecomes
        <5> QED BY <5>1, <5>2, <5>3
      <4>4. \/ Keeps(w, "unlease") /\ run[w].result = "canceled"
            \/ Ending(w)
        BY <3>3, WorkerMoves DEF Admit
      <4>5. \/ proc'[w].at = "unlease" /\ run[w].result = "canceled"
            \/ proc'[w].at = "journal" /\ proc'[w].ends = TRUE
        BY <4>4 DEF Keeps, Ending, Becomes
      <4> QED BY <1>0, <2>2, <4>1, <4>2, <4>3, <4>5 DEF Handoff, At, Recording
    <3>4. CASE WorkerRecorded(w)
      <4>1. At(w, "recorded") /\ UNCHANGED <<run, transition>> /\ Keeps(w, "unlease")
        BY <3>4, WorkerMoves DEF WorkerRecorded, maps
      <4>2. proc'[w].at = "unlease" /\ proc'[w].ends = proc[w].ends
        BY <4>1 DEF Keeps, Becomes
      <4>3. run[w].answer = "keep" /\ proc[w].ends = TRUE
        BY <4>1, Writers DEF At, Recording, Starters
      <4> QED BY <1>0, <2>2, <4>1, <4>2, <4>3 DEF Handoff, At, Recording
    <3>5. CASE Unlease(w)
      <4>1. At(w, "unlease") /\ UNCHANGED <<run, transition>> /\ Keeps(w, "leave")
        BY <3>5, WorkerMoves DEF Unlease, maps
      <4>2. proc'[w].at = "leave" /\ proc'[w].ends = proc[w].ends
        BY <4>1 DEF Keeps, Becomes
      <4>3. stopping # None => proc'[stopping] = proc[stopping]
        BY <1>0, <2>3, <2>5 DEF TypeOK
      <4> QED BY <1>0, <2>2, <4>1, <4>2, <4>3 DEF Handoff, At, Recording
    <3>6. CASE Leave(w)
      <4>1. proc'[w] = Idle
        BY <3>6, WorkerMoves DEF Leave, Rests
      <4> QED BY <4>1 DEF Handoff, Idle, At, Recording
    <3> QED BY <1>7, <2>5, <3>1, <3>2, <3>3, <3>4, <3>5, <3>6
  <2> QED BY <2>4, <2>5
<1> QED BY <1>1, <1>2, <1>3, <1>4, <1>5, <1>6, <1>7, Steps

-----------------------------------------------------------------------------
(***************************************************************************)
(* What a launch has on record.                                            *)
(***************************************************************************)
LEMMA LaunchingKept ==
  ASSUME NEW p \in Procs, Launching(p), proc'[p] = proc[p],
         UNCHANGED <<policy, journal, audit>>
  PROVE  Launching(p)'
  BY DEF Launching, At, Logged, LastIsLaunch

(* A starter that is not at one of the writes has nothing on record yet.   *)
LEMMA LaunchingNothing ==
  ASSUME NEW p \in Procs,
         proc'[p].at \notin {"state", "audit", "final", "clear", "mark", "recorded", "launch"}
  PROVE  Launching(p)'
  BY DEF Launching, At

(* An enabled policy was written by a launch.                              *)
LEMMA StoredEnabled ==
  /\ Stored(TRUE, FALSE) \in Policy /\ Stored(TRUE, FALSE) # None
  /\ Stored(TRUE, FALSE).enabled = TRUE
  /\ Stored(FALSE, TRUE).enabled = FALSE /\ Stored(FALSE, FALSE).enabled = FALSE
<1>1. Stored(TRUE, FALSE) \in Policy
  BY DEF Stored, Policy
<1> QED BY <1>1, BackgroundAssumption DEF Stored

(* What Append leaves on the log.                                          *)
LEMMA Appends ==
  ASSUME TypeOK, NEW p \in Procs, proc[p].entry \in Entry
  PROVE  /\ Appended(p) \in Seq(Entry) /\ Len(audit) \in Nat
         /\ ~Logged(proc[p].entry.event) =>
              /\ Appended(p) # <<>> /\ Appended(p)[Len(Appended(p))] = proc[p].entry
              /\ DOMAIN Appended(p) = 1 .. Len(audit) + 1
              /\ \A i \in 1 .. Len(audit) : Appended(p)[i] = audit[i]
              /\ Appended(p)[Len(audit) + 1] = proc[p].entry
         /\ Logged(proc[p].entry.event) => Appended(p) = audit
         /\ DOMAIN audit = 1 .. Len(audit)
         /\ Logged(proc[p].entry.event) => audit # <<>>
<1>1. audit \in Seq(Entry)
  BY DEF TypeOK
<1>2. Appended(p) = audit \/ Appended(p) = Append(audit, proc[p].entry)
  BY DEF Appended
<1>3. CASE Logged(proc[p].entry.event)
  BY <1>1, <1>3 DEF Appended, Logged
<1>4. CASE ~Logged(proc[p].entry.event)
  <2>1. Appended(p) = Append(audit, proc[p].entry)
    BY <1>4 DEF Appended
  <2>2. Len(Append(audit, proc[p].entry)) = Len(audit) + 1
    BY <1>1
  <2> QED BY <1>1, <1>4, <2>1, <2>2
<1> QED BY <1>3, <1>4

(* The writes of a launch.                                                 *)
LEMMA LaunchingWrite ==
  ASSUME TypeOK, LogInv, NEW p \in Procs, Write(p), proc[p].ends = FALSE, Launching(p),
         proc'[p].ends = FALSE
  PROVE  Launching(p)'
<1>1. ~GivesUp(p)
  BY DEF GivesUp, Becomes
<1>2. CASE PutTransition(p)
  <2>1. PICK entry \in Entry :
          /\ entry.event = drawn + 1 /\ entry.ends = FALSE
          /\ journal' = entry /\ proc'[p].at = "state" /\ proc'[p].entry = entry
          /\ audit' = audit
    BY <1>1, <1>2, JournalWritten DEF Becomes
  <2>2. journal' # None
    BY <2>1, BackgroundAssumption
  <2>3. \A i \in DOMAIN audit : audit[i].event # drawn + 1
    BY DEF LogInv, TypeOK, Entry
  <2>4. ~Logged(proc[p].entry.event)'
    BY <2>1, <2>3 DEF Logged
  <2> QED BY <2>1, <2>2, <2>4 DEF Launching, At
<1>3. CASE Upsert(p)
  <2>1. /\ journal' = journal /\ audit' = audit /\ At(p, "state")
        /\ policy' = Stored(TRUE, FALSE)
        /\ proc'[p].at = "audit" /\ proc'[p].entry = proc[p].entry
    BY <1>1, <1>3, StateWritten, StoredPolicy DEF Becomes
  <2> QED BY <2>1 DEF Launching, At, Logged
<1>4. CASE AppendAudit(p)
  <2>1. /\ journal' = journal /\ policy' = policy /\ At(p, "audit")
        /\ audit' = Appended(p) /\ proc'[p].at = "clear"
    BY <1>1, <1>4, LogWritten DEF Becomes
  <2>2. proc[p].entry \in Entry /\ ~Logged(proc[p].entry.event) /\ ~proc[p].entry.ends
    BY <2>1 DEF LogInv, TypeOK, At, Launching
  <2>3. LastIsLaunch'
    BY <2>1, <2>2, Appends DEF LastIsLaunch
  <2> QED BY <2>1, <2>3 DEF Launching, At
<1>5. CASE UpsertFinal(p)
  BY <1>5, FinalWritten DEF Launching, At
<1>6. CASE RemoveTransition(p)
  <2>1. /\ journal' = None /\ policy' = policy /\ audit' = audit /\ At(p, "clear")
        /\ proc'[p].at = "launch"
    BY <1>1, <1>6, JournalCleared DEF Becomes
  <2> QED BY <2>1 DEF Launching, At, LastIsLaunch
<1>7. CASE UpsertDegraded(p)
  BY <1>7, DegradedWritten DEF Launching, At
<1> QED BY <1>2, <1>3, <1>4, <1>5, <1>6, <1>7 DEF Write

(* A launch has, at each of its writes, what it wrote before.              *)
LEMMA StartStep ==
  ASSUME TypeOK, PlaceInv, LeaseInv, StopInv, HandoffInv, StartInv, LogInv, [Next]_vars
  PROVE  StartInv'
<1> USE Kinds
<1> SUFFICES ASSUME NEW p \in Starters', ~proc'[p].ends
             PROVE  Launching(p)'
  BY DEF StartInv
<1>1. p \in Callers \cup {Boot} /\ p \in Procs /\ p \notin Workers
      /\ proc'[p].at \notin {"idle", "reserve"} /\ stopping' # p
  BY DEF Starters
<1>2. CASE p \in Callers /\ Reserve(p)
  <2>1. proc'[p].at \in {"idle", "journal"}
    BY <1>2, CallerMoves DEF Reserve, Rests, Becomes
  <2> QED BY <1>1, <2>1, LaunchingNothing
<1>3. CASE p = Boot /\ Resume
  BY <1>1, <1>3, BootMoves, LaunchingNothing DEF Keeps, Becomes
<1>4. CASE p \in Starters
  <2>1. /\ stopping = None /\ transition = p
        /\ \A q \in Procs \ {p} : proc[q].at \in {"idle", "reserve", "leave"}
    BY <1>4, StarterAlone
  <2>2. proc[p].ends = FALSE => Launching(p)
    BY <1>4 DEF StartInv
  <2>3. proc[p].ends \in BOOLEAN /\ proc'[p].ends = FALSE
    <3>1. TypeOK'
      BY TypeStep
    <3> QED BY <1>1, <3>1 DEF TypeOK
  <2>4. CASE UNCHANGED vars \/ Shutdown \/ Cancel
    BY <1>1, <2>2, <2>3, <2>4, LaunchingKept DEF vars, files, Shutdown, Cancel
  <2>5. CASE Down
    BY <1>1, <2>5, Downs DEF Idle
  <2>6. CASE \E q \in Procs : Write(q)
    <3>1. PICK q \in Procs : Write(q)
      BY <2>6
    <3>2. /\ proc[q].at \in Recording
          /\ proc[q].ends = TRUE => proc'[q].ends = TRUE
      BY <3>1, WriterStays
    <3>3. q = p
      BY <2>1, <3>2 DEF Recording
    <3>4. proc[p].ends = FALSE
      BY <2>3, <3>2, <3>3
    <3> QED BY <1>1, <2>2, <2>3, <3>1, <3>3, <3>4, LaunchingWrite
  <2>7. CASE Resume
    <3>1. proc[p] = Idle
      BY <1>1, <2>7 DEF Resume, PlaceInv
    <3> QED BY <1>4, <3>1 DEF Starters, Idle
  <2>8. CASE Settle \/ Reconcile \/ ResumePolicy \/ ResumeRecorded \/ Serve
    <3>1. proc[Boot].at \notin {"idle", "reserve", "leave"}
      BY <2>8 DEF Settle, Reconcile, ResumePolicy, ResumeRecorded, Serve, At
    <3>2. p = Boot
      BY <2>1, <3>1
    <3>3. proc'[Boot].at \in {"reconcile", "resume", "journal", "idle"} \/ proc'[Boot].ends = TRUE
      BY <2>8, BootMoves DEF Keeps, Becomes, Rests, ResumePolicy
    <3> QED BY <1>1, <2>3, <3>2, <3>3, LaunchingNothing
  <2>9. CASE \E q \in Callers \cup {Boot} : LaunchPersisted(q)
    <3>1. PICK q \in Callers \cup {Boot} : LaunchPersisted(q)
      BY <2>9
    <3>2. q = p
      BY <2>1, <3>1 DEF LaunchPersisted, At
    <3>3. CASE Launch(p)
      <4>1. proc'[p] = Idle
        BY <1>1, <3>3, Launches
      <4> QED BY <1>1, <4>1 DEF Idle
    <3>4. CASE Ending(p) \/ Rests(p)
      BY <1>1, <2>3, <3>4 DEF Ending, Rests, Becomes
    <3> QED BY <3>1, <3>2, <3>3, <3>4, CallerMoves, BootMoves
  <2>10. ASSUME NEW c \in Callers,
               \/ Start(c) \/ Stop(c) \/ Reserve(c) \/ StartEnds(c) \/ StopReads(c)
               \/ StopUnread(c) \/ StopFailed(c) \/ StopRecorded(c) \/ StopDone(c)
               \/ Join(c)
         PROVE  Launching(p)'
    <3>1. UNCHANGED <<policy, journal, audit>>
      BY <2>10
      DEF Start, Stop, Reserve, StartEnds, StartRefused, LaunchUnadmitted, StopReads, StopUnread, StopFailed,
          StopRecorded, StopDone, Join, files
    <3>2. \A q \in Procs \ {c} : proc'[q] = proc[q]
      BY <2>10, CallerMoves
      DEF Reserve, StopUnread, StopFailed, StopDone, Join, Keeps, Rests, Ending, Becomes
    <3>3. CASE c # p
      <4>1. proc'[p] = proc[p]
        BY <1>1, <3>2, <3>3
      <4> QED BY <1>1, <2>2, <2>3, <3>1, <4>1, LaunchingKept
    <3>4. CASE c = p
      <4>1. proc[c].at \notin {"idle", "reserve", "read", "join"} /\ stopping # c
        BY <1>4, <2>1, <3>4 DEF Starters, StopInv
      <4>2. StartEnds(c)
        BY <2>10, <4>1
        DEF Start, Stop, Reserve, StopReads, StopUnread, StopFailed, StopRecorded,
            StopDone, Join, At
      <4> QED BY <1>1, <3>4, <4>2, CallerMoves DEF Rests, Becomes
    <3> QED BY <3>3, <3>4
  <2>11. ASSUME NEW w \in Workers,
               \/ Ends(w, "canceled") \/ Ends(w, "clean") \/ Ends(w, "error")
               \/ Heard(w) \/ Admit(w) \/ WorkerRecorded(w) \/ Unlease(w) \/ Leave(w)
         PROVE  Launching(p)'
    <3>1. UNCHANGED <<policy, journal, audit>>
      BY <2>11 DEF Ends, Heard, Admit, WorkerRecorded, Unlease, Leave, files
    <3>2. proc'[p] = proc[p]
      BY <1>1, <2>11, WorkerMoves DEF Admit, Leave, Keeps, Ending, Rests, Becomes
    <3> QED BY <1>1, <2>2, <2>3, <3>1, <3>2, LaunchingKept
  <2> QED BY <2>4, <2>5, <2>6, <2>7, <2>8, <2>9, <2>10, <2>11, Steps
<1> QED BY <1>2, <1>3, <1>4, StarterOrigin

-----------------------------------------------------------------------------
(***************************************************************************)
(* The log and the journal.                                                *)
(***************************************************************************)
(* A step that leaves the journal, the log and the writers alone.          *)
LEMMA LogKept ==
  ASSUME TypeOK, LogInv, UNCHANGED <<journal, audit, drawn>>,
         policy' = policy \/ ~Enabled',
         \A p \in Procs : proc'[p].at \in {"state", "audit", "final", "clear"} =>
                             proc'[p] = proc[p]
  PROVE  LogInv'
<1>1. Enabled' => Enabled
  BY DEF Enabled
<1> QED BY <1>1 DEF LogInv, LoggedOnce, At

(* The four writes.                                                        *)
LEMMA LogWrite ==
  ASSUME TypeOK, PlaceInv, LeaseInv, StopInv, HandoffInv, StartInv, LogInv,
         NEW p \in Procs, Write(p)
  PROVE  LogInv'
<1>1. WriteFrame(p) /\ proc[p].at \in Recording
  BY WriterStays
<1>2. /\ \A i \in DOMAIN audit : audit[i].event <= drawn /\ audit[i].event \in Nat
      /\ journal # None => journal.event <= drawn /\ journal.event \in Nat
      /\ \A q \in Procs : proc[q].at \in {"state", "audit"} =>
           proc[q].entry # None /\ proc[q].entry.event <= drawn /\ proc[q].entry.event \in Nat
      /\ drawn \in Nat
  <2>1. \A entry \in Entry : entry.event \in Nat
    BY DEF Entry
  <2>2. \A i \in DOMAIN audit : audit[i] \in Entry
    BY DEF TypeOK
  <2>3. journal # None => journal \in Entry
    BY DEF TypeOK
  <2>4. \A q \in Procs : proc[q].entry # None => proc[q].entry \in Entry
    BY DEF TypeOK
  <2>5. drawn \in Nat
    BY DEF TypeOK
  <2> QED BY <2>1, <2>2, <2>3, <2>4, <2>5 DEF LogInv
<1>3. GivesUp(p) => proc'[p].at \in {"recorded", "journal"}
  BY DEF GivesUp, Becomes
<1>4. \A q \in Procs \ {p} : proc'[q] = proc[q]
  BY <1>1 DEF WriteFrame
<1>5. CASE PutTransition(p)
  <2>1. PICK entry \in Entry :
          /\ entry.event = drawn + 1 /\ policy' = policy /\ audit' = audit
          /\ drawn' = drawn + 1 /\ journal' \in {journal, entry}
          /\ \/ proc'[p].at = "state" /\ proc'[p].entry = entry
             \/ proc'[p].at \in {"recorded", "journal"}
    BY <1>3, <1>5, JournalWritten DEF Becomes
  <2>2. entry # None
    BY BackgroundAssumption
  <2>3. \A i \in DOMAIN audit' : audit'[i].event <= drawn'
    BY <1>2, <2>1
  <2>4. journal' # None => journal'.event <= drawn'
    BY <1>2, <2>1
  <2>5. \A q \in Procs : proc'[q].at \in {"state", "audit"} =>
           proc'[q].entry # None /\ proc'[q].entry.event <= drawn'
    <3>1. CASE ~(proc'[p].at = "state" /\ proc'[p].entry = entry)
      BY <1>2, <1>4, <2>1, <3>1
    <3>2. CASE proc'[p].at = "state" /\ proc'[p].entry = entry
      BY <1>2, <1>4, <2>1, <2>2, <3>2
    <3> QED BY <3>1, <3>2
  <2>6. Enabled' /\ journal' = None => audit' # <<>>
    BY <2>1, <2>2 DEF LogInv, Enabled
  <2>7. \A q \in Procs : proc'[q].at \in {"final", "clear"} => audit' # <<>>
    BY <1>4, <2>1 DEF LogInv
  <2> QED BY <2>1, <2>3, <2>4, <2>5, <2>6, <2>7 DEF LogInv, LoggedOnce
<1>6. CASE Upsert(p)
  <2>1. /\ At(p, "state") /\ journal' = journal /\ audit' = audit /\ drawn' = drawn
        /\ policy' \in {policy, Stored(~proc[p].ends, proc[p].ends)}
        /\ \/ proc'[p].at = "audit" /\ proc'[p].entry = proc[p].entry
           \/ proc'[p].at \in {"recorded", "journal"}
    BY <1>3, <1>6, StateWritten DEF Becomes
  <2>2. Enabled' => Enabled \/ journal # None
    <3>1. CASE proc[p].ends = TRUE
      BY <2>1, <3>1, StoredPolicy, StoredEnabled DEF Enabled
    <3>2. CASE proc[p].ends = FALSE
      <4>1. p \in Starters
        BY <1>1, <3>2, Writers
      <4> QED BY <2>1, <3>2, <4>1 DEF StartInv, Launching, At
    <3> QED BY <3>1, <3>2, StoredPolicy
  <2>3. \A q \in Procs : proc'[q].at \in {"state", "audit"} =>
           proc'[q].entry # None /\ proc'[q].entry.event <= drawn'
    BY <1>2, <1>4, <2>1 DEF At
  <2>4. \A q \in Procs : proc'[q].at \in {"final", "clear"} => audit' # <<>>
    BY <1>4, <2>1 DEF LogInv
  <2> QED BY <1>2, <2>1, <2>2, <2>3, <2>4 DEF LogInv, LoggedOnce
<1>7. CASE AppendAudit(p)
  <2>1. /\ At(p, "audit") /\ journal' = journal /\ policy' = policy /\ drawn' = drawn
        /\ audit' \in {audit, Appended(p)}
        /\ \/ proc'[p].at \in {"final", "clear"} /\ audit' = Appended(p)
           \/ proc'[p].at \in {"recorded", "journal"}
    BY <1>3, <1>7, LogWritten DEF Becomes
  <2>2. proc[p].entry \in Entry /\ proc[p].entry.event <= drawn
    BY <2>1 DEF LogInv, TypeOK, At
  <2>3. /\ \A i \in DOMAIN Appended(p) : Appended(p)[i].event <= drawn
        /\ \A i, j \in DOMAIN Appended(p) : Appended(p)[i].event = Appended(p)[j].event => i = j
        /\ Appended(p) # <<>>
    <3>1. CASE Logged(proc[p].entry.event)
      BY <1>2, <2>2, <3>1, Appends DEF LogInv, LoggedOnce
    <3>2. CASE ~Logged(proc[p].entry.event)
      <4>1. \A i \in DOMAIN audit : audit[i].event # proc[p].entry.event
        BY <3>2 DEF Logged
      <4>2. \A i, j \in DOMAIN audit : audit[i].event = audit[j].event => i = j
        BY DEF LogInv, LoggedOnce
      <4>3. /\ Appended(p) # <<>> /\ Len(audit) \in Nat /\ DOMAIN audit = 1 .. Len(audit)
            /\ DOMAIN Appended(p) = 1 .. Len(audit) + 1
            /\ \A i \in 1 .. Len(audit) : Appended(p)[i] = audit[i]
            /\ Appended(p)[Len(audit) + 1] = proc[p].entry
        BY <2>2, <3>2, Appends
      <4>4. \A i \in DOMAIN Appended(p) :
              \/ i \in DOMAIN audit /\ Appended(p)[i] = audit[i]
              \/ i = Len(audit) + 1 /\ Appended(p)[i] = proc[p].entry
        <5>1. \A n \in Nat : \A i \in 1 .. n + 1 : i \in 1 .. n \/ i = n + 1
          OBVIOUS
        <5>2. \A i \in 1 .. Len(audit) + 1 : i \in 1 .. Len(audit) \/ i = Len(audit) + 1
          BY <4>3, <5>1
        <5> SUFFICES ASSUME NEW i \in DOMAIN Appended(p)
                     PROVE  \/ i \in DOMAIN audit /\ Appended(p)[i] = audit[i]
                            \/ i = Len(audit) + 1 /\ Appended(p)[i] = proc[p].entry
          OBVIOUS
        <5>3. i \in 1 .. Len(audit) + 1
          BY <4>3
        <5>4. CASE i \in 1 .. Len(audit)
          BY <4>3, <5>4
        <5>5. CASE i = Len(audit) + 1
          BY <4>3, <5>5
        <5> QED BY <5>2, <5>3, <5>4, <5>5
      <4>5. \A i \in DOMAIN Appended(p) : Appended(p)[i].event <= drawn
        BY <1>2, <2>2, <4>4
      <4>6. \A i, j \in DOMAIN Appended(p) :
              Appended(p)[i].event = Appended(p)[j].event => i = j
        BY <4>1, <4>2, <4>4
      <4> QED BY <4>3, <4>5, <4>6
    <3> QED BY <3>1, <3>2
  <2>4. audit # <<>> => audit' # <<>>
    BY <2>1, <2>3
  <2>5. \A q \in Procs : proc'[q].at \in {"state", "audit"} => proc'[q] = proc[q]
    BY <1>4, <2>1
  <2>6. \A q \in Procs : proc'[q].at \in {"final", "clear"} => audit' # <<>>
    BY <1>4, <2>1, <2>3, <2>4 DEF LogInv
  <2>7. (\A i \in DOMAIN audit' : audit'[i].event <= drawn') /\ LoggedOnce'
    BY <1>2, <2>1, <2>3 DEF LogInv, LoggedOnce
  <2>8. Enabled' /\ journal' = None => audit' # <<>>
    BY <2>1, <2>4 DEF LogInv, Enabled
  <2> QED BY <1>2, <2>1, <2>5, <2>6, <2>7, <2>8 DEF LogInv
<1>8. CASE UpsertFinal(p)
  <2>1. /\ At(p, "final") /\ journal' = journal /\ audit' = audit /\ drawn' = drawn
        /\ policy' \in {policy, Stored(FALSE, FALSE)}
        /\ proc'[p].at \in {"recorded", "clear"}
    BY <1>8, FinalWritten DEF Becomes
  <2>2. Enabled' => Enabled
    BY <2>1, StoredEnabled DEF Enabled
  <2>3. \A q \in Procs : proc'[q].at \in {"state", "audit"} => proc'[q] = proc[q]
    BY <1>4, <2>1
  <2>4. \A q \in Procs : proc'[q].at \in {"final", "clear"} => audit' # <<>>
    BY <1>4, <2>1 DEF LogInv, At
  <2> QED BY <1>2, <2>1, <2>2, <2>3, <2>4 DEF LogInv, LoggedOnce
<1>9. CASE RemoveTransition(p)
  <2>1. /\ At(p, "clear") /\ journal' \in {journal, None} /\ audit' = audit /\ drawn' = drawn
        /\ policy' = policy
        /\ proc'[p].at \in {"recorded", "journal", "mark", "launch"}
    BY <1>3, <1>9, JournalCleared DEF Becomes
  <2>2. audit # <<>>
    BY <2>1 DEF LogInv, At
  <2>3. \A q \in Procs : proc'[q].at \in {"state", "audit"} => proc'[q] = proc[q]
    BY <1>4, <2>1
  <2> QED BY <1>2, <2>1, <2>2, <2>3 DEF LogInv, LoggedOnce
<1>10. CASE UpsertDegraded(p)
  <2>1. /\ journal' = journal /\ audit' = audit /\ drawn' = drawn
        /\ policy' \in {policy, Stored(FALSE, TRUE)} /\ proc'[p].at = "recorded"
    BY <1>10, DegradedWritten DEF Becomes
  <2>2. policy' = policy \/ ~Enabled'
    BY <2>1, StoredEnabled DEF Enabled
  <2>3. \A q \in Procs : proc'[q].at \in {"state", "audit", "final", "clear"} =>
          proc'[q] = proc[q]
    BY <1>4, <2>1
  <2> QED BY <2>1, <2>2, <2>3, LogKept
<1> QED BY <1>5, <1>6, <1>7, <1>8, <1>9, <1>10 DEF Write

(* Every step keeps the log, the journal and the numbers drawn in order.   *)
LEMMA LogStep ==
  ASSUME TypeOK, PlaceInv, LeaseInv, StopInv, HandoffInv, StartInv, LogInv, [Next]_vars
  PROVE  LogInv'
<1>1. CASE UNCHANGED vars \/ Shutdown \/ Cancel
  BY <1>1, LogKept DEF vars, files, maps, Shutdown, Cancel
<1>2. CASE Down
  <2>1. \A p \in Procs : proc'[p].at = "idle"
    BY <1>2, Downs DEF Idle
  <2> QED BY <1>2, <2>1, Downs, LogKept
<1>3. CASE \E p \in Procs : Write(p)
  BY <1>3, LogWrite
<1>4. CASE Resume \/ Settle \/ ResumePolicy \/ ResumeRecorded \/ Serve
  <2>1. UNCHANGED <<journal, audit, drawn>>
    BY <1>4 DEF Resume, Settle, ResumePolicy, ResumeRecorded, Serve, files
  <2>2. policy' = policy \/ ~Enabled'
    BY <1>4, StoredEnabled
    DEF Resume, Settle, ResumePolicy, ResumeRecorded, Serve, files, Enabled
  <2>3. proc'[Boot].at \in {"settle", "reconcile", "resume", "journal", "idle"}
        /\ \A q \in Procs \ {Boot} : proc'[q] = proc[q]
    BY <1>4, BootMoves DEF Keeps, Becomes, Rests, ResumePolicy
  <2> QED BY <2>1, <2>2, <2>3, LogKept
<1>5. CASE Reconcile
  <2>1. UNCHANGED <<journal, audit, drawn, policy>>
    BY <1>5 DEF Reconcile, files
  <2>2. /\ \A q \in Procs \ {Boot} : proc'[q] = proc[q]
        /\ \/ proc'[Boot].at = "resume"
           \/ journal # None /\ proc'[Boot].at = "state" /\ proc'[Boot].entry = journal
    BY <1>5, BootMoves DEF Becomes
  <2>3. \A q \in Procs : proc'[q].at \in {"state", "audit"} =>
           proc'[q].entry # None /\ proc'[q].entry.event <= drawn
    BY <2>2 DEF LogInv
  <2>4. \A q \in Procs : proc'[q].at \in {"final", "clear"} => audit # <<>>
    BY <2>2 DEF LogInv
  <2> QED BY <2>1, <2>3, <2>4 DEF LogInv, LoggedOnce, Enabled
<1>6. ASSUME NEW p \in Callers \cup {Boot}, LaunchPersisted(p) PROVE LogInv'
  <2>1. UNCHANGED <<journal, audit, drawn, policy>>
    BY <1>6 DEF LaunchPersisted, files
  <2>2. \A q \in Procs : proc'[q].at \in {"idle", "journal", "watch"} \/ proc'[q] = proc[q]
    <3>1. CASE Launch(p)
      <4>1. PICK v \in Workers :
            /\ \A q \in Procs \ {p, v} : proc'[q] = proc[q]
            /\ proc'[v] = [proc[v] EXCEPT !.at = "watch"] /\ proc'[p] = Idle
        BY <3>1, Launches
      <4>2. proc'[v].at = "watch" /\ proc'[p].at = "idle"
        BY <4>1, Kinds DEF TypeOK, Idle
      <4> QED BY <4>1, <4>2
    <3>2. CASE Ending(p) \/ Rests(p)
      BY <3>2 DEF Ending, Rests, Becomes
    <3> QED BY <1>6, <3>1, <3>2, CallerMoves, BootMoves
  <2> QED BY <2>1, <2>2, LogKept
<1>7. ASSUME NEW c \in Callers,
             \/ Start(c) \/ Stop(c) \/ Reserve(c) \/ StartEnds(c) \/ StopReads(c)
             \/ StopUnread(c) \/ StopFailed(c) \/ StopRecorded(c) \/ StopDone(c)
             \/ Join(c)
      PROVE  LogInv'
  <2>1. UNCHANGED <<policy, journal, audit, drawn>>
    BY <1>7
    DEF Start, Stop, Reserve, StartEnds, StartRefused, LaunchUnadmitted, StopReads, StopUnread, StopFailed,
        StopRecorded, StopDone, Join, files, bounds
  <2>2. /\ \A q \in Procs \ {c} : proc'[q] = proc[q]
        /\ proc'[c].at \in {"idle", "reserve", "read", "journal", "join"}
    BY <1>7, CallerMoves
    DEF Reserve, StopUnread, StopFailed, StopDone, Join, Keeps, Rests, Ending, Becomes
  <2> QED BY <2>1, <2>2, LogKept
<1>8. ASSUME NEW w \in Workers,
             \/ Ends(w, "canceled") \/ Ends(w, "clean") \/ Ends(w, "error")
             \/ Heard(w) \/ Admit(w) \/ WorkerRecorded(w) \/ Unlease(w) \/ Leave(w)
      PROVE  LogInv'
  <2>1. UNCHANGED <<policy, journal, audit, drawn>>
    BY <1>8 DEF Ends, Heard, Admit, WorkerRecorded, Unlease, Leave, files
  <2>2. /\ \A q \in Procs \ {w} : proc'[q] = proc[q]
        /\ proc'[w].at \in {"handoff", "admit", "unlease", "journal", "leave", "idle"}
    BY <1>8, WorkerMoves DEF Admit, Leave, Keeps, Ending, Rests, Becomes
  <2> QED BY <2>1, <2>2, LogKept
<1> QED BY <1>1, <1>2, <1>3, <1>4, <1>5, <1>6, <1>7, <1>8, Steps

-----------------------------------------------------------------------------
(***************************************************************************)
(* What a recorded end has done to the policy.                             *)
(***************************************************************************)
(* A process that stays where it is, while nobody enables the policy.      *)
LEMMA EndKept ==
  ASSUME NEW p \in Procs, Ended(p), proc'[p] = proc[p], Enabled' => Enabled
  PROVE  Ended(p)'
  BY DEF Ended, At

(* A process that is at none of the places of a record.                    *)
LEMMA EndNothing ==
  ASSUME NEW p \in Procs,
         proc'[p].at \notin {"state", "audit", "final", "clear", "recorded", "launch", "join"},
         proc'[p].at = "journal" => ~proc'[p].stored
  PROVE  Ended(p)'
  BY DEF Ended, At

(* A write by the process itself.                                          *)
LEMMA EndWrite ==
  ASSUME TypeOK, PlaceInv, LeaseInv, StopInv, HandoffInv, StartInv,
         NEW p \in Procs, Ended(p), Write(p)
  PROVE  Ended(p)'
<1> USE StoredEnabled
<1>1. WriteFrame(p) /\ proc[p].at \in Recording
  BY WriterStays
<1>2. proc[p].ends \in BOOLEAN /\ proc[p].stored \in BOOLEAN
  BY DEF TypeOK
<1>3. proc[p].at \in {"final", "mark", "recorded"} => proc[p].ends = TRUE
  <2>1. CASE proc[p].ends = FALSE
    <3>1. p \in Starters
      BY <1>1, <2>1, Writers
    <3>2. Launching(p)
      BY <2>1, <3>1 DEF StartInv
    <3> QED BY <3>2 DEF Launching
  <2> QED BY <1>2, <2>1
<1>4. GivesUp(p) => Ended(p)'
  BY EndNothing DEF GivesUp, Becomes, Ended, At
<1>5. CASE PutTransition(p)
  <2>1. CASE proc'[p].at = "state" /\ proc'[p].stored = proc[p].stored /\ At(p, "journal")
    BY <2>1 DEF Ended, At
  <2> QED BY <1>4, <1>5, <2>1, JournalWritten DEF Becomes
<1>6. CASE Upsert(p)
  <2>1. CASE /\ proc'[p].at = "audit" /\ proc'[p].ends = proc[p].ends
             /\ policy' = Stored(~proc[p].ends, proc[p].ends)
    <3>1. CASE proc[p].ends = TRUE
      <4>1. ~Enabled'
        BY <2>1, <3>1, StoredPolicy DEF Enabled
      <4> QED BY <2>1, <4>1 DEF Ended, At
    <3>2. CASE proc[p].ends = FALSE
      BY <2>1, <3>2 DEF Ended, At
    <3> QED BY <1>2, <3>1, <3>2
  <2>2. CASE proc'[p].at = "audit" /\ proc'[p].stored = proc[p].stored /\ At(p, "state")
    BY <2>2 DEF Ended, At
  <2> QED BY <1>4, <1>6, <2>1, <2>2, StateWritten DEF Becomes
<1>7. CASE AppendAudit(p)
  <2>1. policy' = policy /\ At(p, "audit")
    BY <1>7, LogWritten
  <2>2. Enabled' = Enabled
    BY <2>1 DEF Enabled
  <2>3. CASE proc'[p].at = "clear" /\ proc'[p].ends = FALSE
    BY <2>3 DEF Ended, At
  <2>4. CASE proc'[p].at = "final" /\ proc[p].ends = TRUE /\ proc[p].stored = TRUE
    BY <2>1, <2>2, <2>4 DEF Ended, At
  <2>5. CASE proc'[p].at = "recorded" /\ proc'[p].ends = TRUE /\ proc'[p].ok = FALSE
    BY <2>5 DEF Ended, At
  <2> QED BY <1>4, <1>7, <2>3, <2>4, <2>5, LogWritten DEF Becomes
<1>8. CASE UpsertFinal(p)
  <2>1. At(p, "final")
    BY <1>8, FinalWritten
  <2>2. CASE policy' = Stored(FALSE, FALSE) /\ proc'[p].at = "clear"
    <3>1. ~Enabled'
      BY <2>2 DEF Enabled
    <3> QED BY <2>2, <3>1 DEF Ended, At
  <2>3. CASE proc'[p].at = "recorded" /\ proc'[p].ends = proc[p].ends /\ proc'[p].ok = FALSE
    BY <1>3, <2>1, <2>3 DEF Ended, At
  <2> QED BY <1>8, <2>2, <2>3, FinalWritten DEF Becomes
<1>9. CASE RemoveTransition(p)
  <2>1. policy' = policy /\ At(p, "clear")
    BY <1>9, JournalCleared
  <2>2. Enabled' = Enabled
    BY <2>1 DEF Enabled
  <2>3. CASE proc[p].ends = TRUE /\ proc'[p].at = "recorded" /\ proc'[p].ends = TRUE
    BY <2>1, <2>2, <2>3 DEF Ended, At
  <2>4. CASE proc'[p].at = "launch" /\ proc'[p].ends = FALSE
    BY <2>4 DEF Ended, At
  <2>5. CASE proc'[p].at = "mark"
    BY <2>5 DEF Ended, At
  <2> QED BY <1>4, <1>9, <2>3, <2>4, <2>5, JournalCleared DEF Becomes
<1>10. CASE UpsertDegraded(p)
  <2>1. /\ At(p, "mark") /\ proc'[p].at = "recorded" /\ proc'[p].ends = proc[p].ends
        /\ proc'[p].ok = FALSE
    BY <1>10, DegradedWritten DEF Becomes
  <2> QED BY <1>3, <2>1 DEF Ended, At
<1> QED BY <1>5, <1>6, <1>7, <1>8, <1>9, <1>10 DEF Write

(* Only a launch enables the policy.                                       *)
LEMMA Enabling ==
  ASSUME TypeOK, PlaceInv, LeaseInv, StopInv, HandoffInv, StartInv,
         NEW p \in Procs, Write(p), Enabled'
  PROVE  Enabled \/ (p \in Starters /\ proc[p].ends = FALSE)
<1> USE StoredEnabled
<1>1. proc[p].at \in Recording /\ proc[p].ends \in BOOLEAN
  BY WriterStays, StoredPolicy
<1>2. CASE policy' = policy
  BY <1>2 DEF Enabled
<1>3. CASE policy' \in {Stored(FALSE, FALSE), Stored(FALSE, TRUE)}
  BY <1>3 DEF Enabled
<1>4. CASE policy' = Stored(~proc[p].ends, proc[p].ends)
  <2>1. CASE proc[p].ends = TRUE
    BY <1>4, <2>1, StoredPolicy DEF Enabled
  <2>2. CASE proc[p].ends = FALSE
    BY <1>1, <2>2, Writers
  <2> QED BY <1>1, <2>1, <2>2
<1> QED BY <1>2, <1>3, <1>4, JournalWritten, StateWritten, LogWritten, FinalWritten,
           JournalCleared, DegradedWritten DEF Write

(* At each place of a record, the policy is what the record made it.       *)
LEMMA EndStep ==
  ASSUME TypeOK, PlaceInv, LeaseInv, StopInv, HandoffInv, StartInv, LogInv, EndInv,
         [Next]_vars, NEW p \in Procs
  PROVE  Ended(p)'
<1> USE Kinds
<1>0. Ended(p)
  BY DEF EndInv
<1>1. CASE UNCHANGED vars \/ Shutdown \/ Cancel
  BY <1>0, <1>1, EndKept DEF vars, files, Shutdown, Cancel, Enabled
<1>2. CASE Down
  BY <1>2, Downs, EndNothing DEF Idle
<1>3. CASE \E q \in Procs : Write(q)
  <2>1. PICK q \in Procs : Write(q)
    BY <1>3
  <2>2. CASE q = p
    BY <1>0, <2>1, <2>2, EndWrite
  <2>3. CASE q # p
    <3>1. proc'[p] = proc[p]
      BY <2>1, <2>3, WriterStays DEF WriteFrame
    <3>2. CASE Enabled' => Enabled
      BY <1>0, <3>1, <3>2, EndKept
    <3>3. CASE ~(Enabled' => Enabled)
      <4>1. q \in Starters
        BY <2>1, <3>3, Enabling
      <4>2. proc[p].at \in {"idle", "reserve", "leave"}
        BY <2>3, <4>1, StarterAlone
      <4> QED BY <3>1, <4>2, EndNothing
    <3> QED BY <3>2, <3>3
  <2> QED BY <2>2, <2>3
<1>4. CASE Resume \/ Settle \/ Reconcile \/ ResumePolicy \/ ResumeRecorded \/ Serve
  <2>1. Enabled' => Enabled
    BY <1>4, StoredEnabled
    DEF Resume, Settle, Reconcile, ResumePolicy, ResumeRecorded, Serve, files, Enabled
  <2>2. /\ \A q \in Procs \ {Boot} : proc'[q] = proc[q]
        /\ proc'[Boot].at \in {"settle", "reconcile", "resume", "journal", "state", "idle"}
        /\ proc'[Boot].at \in {"journal", "state"} => proc'[Boot].stored = FALSE
    BY <1>4, BootMoves DEF Keeps, Becomes, Rests, ResumePolicy
  <2>3. CASE p = Boot
    BY <2>2, <2>3 DEF Ended, At
  <2> QED BY <1>0, <2>1, <2>2, <2>3, EndKept
<1>5. ASSUME NEW q \in Callers \cup {Boot}, LaunchPersisted(q) PROVE Ended(p)'
  <2>1. Enabled' = Enabled
    BY <1>5 DEF LaunchPersisted, files, Enabled
  <2>2. CASE Launch(q)
    <3>1. PICK v \in Workers :
            /\ \A r \in Procs \ {q, v} : proc'[r] = proc[r]
            /\ proc'[v] = [proc[v] EXCEPT !.at = "watch"] /\ proc'[q] = Idle
      BY <2>2, Launches
    <3>2. proc'[v].at = "watch" /\ proc'[q].at = "idle"
      BY <3>1 DEF TypeOK, Idle
    <3> QED BY <1>0, <2>1, <3>1, <3>2, EndKept, EndNothing
  <2>3. CASE Ending(q) \/ Rests(q)
    <3>1. /\ \A r \in Procs \ {q} : proc'[r] = proc[r]
          /\ proc'[q].at \in {"journal", "idle"}
          /\ proc'[q].at = "journal" => proc'[q].stored = FALSE
      BY <2>3 DEF Ending, Rests, Becomes
    <3> QED BY <1>0, <2>1, <3>1, EndKept, EndNothing
  <2> QED BY <1>5, <2>2, <2>3, CallerMoves, BootMoves
<1>6. ASSUME NEW c \in Callers,
             \/ Start(c) \/ Stop(c) \/ Reserve(c) \/ StartEnds(c) \/ StopReads(c)
             \/ StopUnread(c) \/ StopFailed(c) \/ StopRecorded(c) \/ StopDone(c)
             \/ Join(c)
      PROVE  Ended(p)'
  <2>1. Enabled' = Enabled
    BY <1>6
    DEF Start, Stop, Reserve, StartEnds, StartRefused, LaunchUnadmitted, StopReads, StopUnread, StopFailed,
        StopRecorded, StopDone, Join, files, Enabled
  <2>2. /\ \A q \in Procs \ {c} : proc'[q] = proc[q]
        /\ proc'[c].at \in {"idle", "reserve", "read", "journal", "join"}
        /\ proc'[c].at = "journal" => proc'[c].stored = FALSE
        /\ proc'[c].at = "join" => StopRecorded(c)
    BY <1>6, CallerMoves
    DEF Reserve, StopUnread, StopFailed, StopDone, Join, Keeps, Rests, Ending, Becomes
  <2>3. CASE p = c
    <3>1. CASE StopRecorded(c)
      <4>1. ~Enabled
        BY <1>0, <2>3, <3>1 DEF StopRecorded, Ended
      <4>2. proc'[c].at = "join"
        BY <3>1, CallerMoves DEF Keeps, Becomes
      <4> QED BY <2>1, <2>3, <4>1, <4>2 DEF Ended, At
    <3> QED BY <2>2, <2>3, <3>1, EndNothing
  <2> QED BY <1>0, <2>1, <2>2, <2>3, EndKept
<1>7. ASSUME NEW w \in Workers,
             \/ Ends(w, "canceled") \/ Ends(w, "clean") \/ Ends(w, "error")
             \/ Heard(w) \/ Admit(w) \/ WorkerRecorded(w) \/ Unlease(w) \/ Leave(w)
      PROVE  Ended(p)'
  <2>1. Enabled' = Enabled
    BY <1>7 DEF Ends, Heard, Admit, WorkerRecorded, Unlease, Leave, files, Enabled
  <2>2. /\ \A q \in Procs \ {w} : proc'[q] = proc[q]
        /\ proc'[w].at \in {"handoff", "admit", "unlease", "journal", "leave", "idle"}
        /\ proc'[w].at = "journal" => proc'[w].stored = FALSE
    BY <1>7, WorkerMoves DEF Admit, Leave, Keeps, Ending, Rests, Becomes
  <2> QED BY <1>0, <2>1, <2>2, EndKept, EndNothing
<1> QED BY <1>1, <1>2, <1>3, <1>4, <1>5, <1>6, <1>7, Steps

-----------------------------------------------------------------------------
(***************************************************************************)
(* What the start of a daemon knows of the files.                          *)
(***************************************************************************)
(* A start that is elsewhere, or about to record an end.                   *)
LEMMA BootNothing ==
  ASSUME proc'[Boot].at \notin {"reconcile", "resume"},
         proc'[Boot].at = "journal" => proc'[Boot].ends = TRUE
  PROVE  BootInv'
  BY DEF BootInv, ResumesCompleted, At

(* A write leaves a process at its journal only to record an end.          *)
LEMMA WriterEnds ==
  ASSUME TypeOK, NEW p \in Procs, Write(p)
  PROVE  proc'[p].at = "journal" => proc'[p].ends = TRUE
<1>1. GivesUp(p) => (proc'[p].at = "journal" => proc'[p].ends = TRUE)
  BY DEF GivesUp, Becomes
<1> QED BY <1>1, JournalWritten, StateWritten, LogWritten, FinalWritten, JournalCleared,
           DegradedWritten DEF Write, Becomes

(* A start that goes on with an enabled policy has its launch on record.   *)
LEMMA BootStep ==
  ASSUME TypeOK, PlaceInv, LeaseInv, StopInv, HandoffInv, StartInv, LogInv, EndInv,
         BootInv, [Next]_vars
  PROVE  BootInv'
<1> USE Kinds
<1>0. Idle.at = "idle"
  BY DEF Idle
<1>1. CASE UNCHANGED vars \/ Shutdown \/ Cancel
  BY <1>1 DEF vars, files, Shutdown, Cancel, Enabled, BootInv, ResumesCompleted,
              LastIsLaunch, At
<1>2. CASE Down
  BY <1>0, <1>2, Downs, BootNothing
<1>3. CASE \E p \in Procs : Write(p)
  <2>1. PICK p \in Procs : Write(p)
    BY <1>3
  <2>2. /\ WriteFrame(p) /\ proc[p].at \in Recording
        /\ proc'[p].at \in Recording \cup {"launch"}
    BY <2>1, WriterStays
  <2>3. CASE p = Boot
    BY <2>1, <2>2, <2>3, WriterEnds, BootNothing DEF Recording
  <2>4. CASE p # Boot
    <3>1. proc'[Boot] = Idle
      BY <2>2, <2>4, Busy DEF WriteFrame, Recording
    <3> QED BY <1>0, <3>1, BootNothing
  <2> QED BY <2>3, <2>4
<1>4. CASE Resume \/ Serve
  BY <1>4, BootMoves, BootNothing DEF Keeps, Rests, Becomes
<1>5. CASE Settle
  <2>1. UNCHANGED <<journal, audit>> /\ proc'[Boot].at = "reconcile"
    BY <1>5, BootMoves DEF Settle, Keeps, Becomes
  <2>2. Enabled' => audit = <<>> \/ LastIsLaunch
    BY <1>5, StoredEnabled DEF Settle, Enabled, LastIsLaunch
  <2> QED BY <2>1, <2>2 DEF BootInv, ResumesCompleted, LastIsLaunch, At
<1>6. CASE Reconcile
  <2>1. UNCHANGED <<policy, journal, audit>> /\ At(Boot, "reconcile")
    BY <1>6 DEF Reconcile, files
  <2>2. CASE proc'[Boot].at = "state"
    BY <2>2, BootNothing
  <2>3. CASE journal = None /\ proc'[Boot].at = "resume"
    <3>1. Enabled => LastIsLaunch
      BY <2>1, <2>3 DEF LogInv, BootInv
    <3> QED BY <2>1, <2>3, <3>1 DEF BootInv, ResumesCompleted, LastIsLaunch, At, Enabled
  <2> QED BY <1>6, <2>2, <2>3, BootMoves DEF Becomes
<1>7. CASE ResumePolicy
  <2>1. /\ UNCHANGED <<policy, journal, audit>> /\ At(Boot, "resume") /\ Enabled
        /\ proc'[Boot].at = "journal"
    BY <1>7, BootMoves DEF ResumePolicy, files, Becomes
  <2> QED BY <2>1 DEF BootInv, ResumesCompleted, LastIsLaunch, At
<1>8. CASE ResumeRecorded
  <2>1. /\ UNCHANGED <<policy, journal, audit>> /\ proc'[Boot].at = "resume" /\ ~Enabled
    BY <1>8, BootMoves DEF ResumeRecorded, files, Keeps, Becomes, EndInv, Ended
  <2> QED BY <2>1 DEF BootInv, ResumesCompleted, At, Enabled
<1>9. ASSUME NEW p \in Callers \cup {Boot}, LaunchPersisted(p) PROVE BootInv'
  <2>1. proc[p].at # "idle"
    BY <1>9 DEF LaunchPersisted, At
  <2>2. p # Boot => proc[Boot] = Idle
    BY <2>1, Busy
  <2>3. CASE Launch(p)
    <3>1. PICK v \in Workers :
            (\A r \in Procs \ {p, v} : proc'[r] = proc[r]) /\ proc'[p] = Idle
      BY <2>3, Launches
    <3>2. proc'[Boot] = Idle
      BY <2>2, <3>1
    <3> QED BY <1>0, <3>2, BootNothing
  <2>4. CASE Ending(p) \/ Rests(p)
    <3>1. /\ \A r \in Procs \ {p} : proc'[r] = proc[r]
          /\ \/ proc'[p].at = "journal" /\ proc'[p].ends = TRUE
             \/ proc'[p].at = "idle"
      BY <2>4 DEF Ending, Rests, Becomes
    <3> QED BY <1>0, <2>2, <3>1, BootNothing
  <2> QED BY <1>9, <2>3, <2>4, CallerMoves, BootMoves
<1>10. ASSUME NEW c \in Callers,
             \/ Start(c) \/ Stop(c) \/ Reserve(c) \/ StartEnds(c) \/ StopReads(c)
             \/ StopUnread(c) \/ StopFailed(c) \/ StopRecorded(c) \/ StopDone(c)
             \/ Join(c)
      PROVE  BootInv'
  <2>1. \A q \in Procs \ {c} : proc'[q] = proc[q]
    BY <1>10, CallerMoves
    DEF Reserve, StopUnread, StopFailed, StopDone, Join, Keeps, Rests, Ending, Becomes
  <2>2. proc[c].at # "idle" \/ phase = "up"
    BY <1>10
    DEF Start, Stop, Reserve, StartEnds, StartRefused, LaunchUnadmitted, StopReads, StopUnread, StopFailed,
        StopRecorded, StopDone, Join, At
  <2>3. proc'[Boot] = Idle
    BY <2>1, <2>2, Busy DEF PlaceInv
  <2> QED BY <1>0, <2>3, BootNothing
<1>11. ASSUME NEW w \in Workers,
             \/ Ends(w, "canceled") \/ Ends(w, "clean") \/ Ends(w, "error")
             \/ Heard(w) \/ Admit(w) \/ WorkerRecorded(w) \/ Unlease(w) \/ Leave(w)
      PROVE  BootInv'
  <2>1. \A q \in Procs \ {w} : proc'[q] = proc[q]
    BY <1>11, WorkerMoves DEF Admit, Leave, Keeps, Ending, Rests, Becomes
  <2>2. proc[w].at # "idle"
    BY <1>11 DEF Ends, Heard, Admit, WorkerRecorded, Unlease, Leave, At
  <2>3. proc'[Boot] = Idle
    BY <2>1, <2>2, Busy
  <2> QED BY <1>0, <2>3, BootNothing
<1> QED BY <1>1, <1>2, <1>3, <1>4, <1>5, <1>6, <1>7, <1>8, <1>9, <1>10, <1>11, Steps

-----------------------------------------------------------------------------
(***************************************************************************)
(* What the status reports.                                                *)
(***************************************************************************)
(* A session that was not reported as enabled without a worker, or that    *)
(* nobody works on, is not so after a step that leaves all of it alone.    *)
LEMMA ReportKept ==
  ASSUME ReportInv, LeaseInv, transition \notin Starters,
         Enabled' => Enabled, UNCHANGED <<phase, guard, active, unlaunched>>
  PROVE  ReportInv'
  BY DEF ReportInv

(* A write keeps it: only who starts a worker enables the policy.          *)
LEMMA ReportWrite ==
  ASSUME TypeOK, PlaceInv, LeaseInv, StopInv, HandoffInv, StartInv, ReportInv,
         NEW p \in Procs, Write(p)
  PROVE  ReportInv'
<1>1. /\ WriteFrame(p) /\ proc[p].at \in Recording
      /\ proc'[p].at \in Recording \cup {"launch"}
  BY WriterStays
<1>2. Starters \subseteq Starters'
  BY <1>1 DEF Starters, WriteFrame, Recording, Procs
<1>3. Enabled' => Enabled \/ transition \in Starters
  BY Enabling, StarterAlone
<1> QED BY <1>1, <1>2, <1>3 DEF ReportInv, WriteFrame

(* No step reports an enabled session without a worker or a start.         *)
LEMMA ReportStep ==
  ASSUME TypeOK, PlaceInv, LeaseInv, StopInv, HandoffInv, StartInv, EndInv, ReportInv,
         [Next]_vars
  PROVE  ReportInv'
<1> USE Kinds
<1>1. CASE UNCHANGED vars \/ Cancel
  BY <1>1 DEF vars, files, maps, bounds, Cancel, Enabled, ReportInv, Starters
<1>2. CASE Down \/ Resume \/ Shutdown
  BY <1>2, Downs DEF Resume, Shutdown, ReportInv
<1>3. CASE \E p \in Procs : Write(p)
  BY <1>3, ReportWrite
<1>4. CASE Settle \/ Reconcile \/ ResumePolicy \/ ResumeRecorded
  <2>1. phase' = phase /\ proc[Boot].at # "idle"
    BY <1>4 DEF Settle, Reconcile, ResumePolicy, ResumeRecorded, At
  <2> QED BY <2>1, Busy DEF ReportInv
<1>5. CASE Serve
  BY <1>5 DEF Serve, Enabled, files, bounds, ReportInv
<1>6. ASSUME NEW p \in Callers \cup {Boot}, LaunchPersisted(p) PROVE ReportInv'
  <2>1. At(p, "launch") /\ stopping' = stopping /\ Enabled' = Enabled
        /\ unlaunched' = unlaunched
    BY <1>6 DEF LaunchPersisted, files, bounds, Enabled
  <2>2. CASE Launch(p)
    BY <2>2, Launches DEF ReportInv
  <2>3. CASE Ending(p) /\ UNCHANGED <<phase, transition, active, guard>>
    <3>1. Starters \subseteq Starters'
      BY <2>1, <2>3 DEF Starters, Ending, Becomes
    <3> QED BY <2>1, <2>3, <3>1 DEF ReportInv
  <2>4. CASE phase = "closing" /\ phase' = phase
    BY <2>4 DEF ReportInv
  <2> QED BY <1>6, <2>2, <2>3, <2>4, CallerMoves, BootMoves
<1>7. ASSUME NEW c \in Callers,
             \/ Start(c) \/ Stop(c) \/ Reserve(c) \/ StartEnds(c) \/ StopReads(c)
             \/ StopUnread(c) \/ StopFailed(c) \/ StopRecorded(c) \/ StopDone(c)
             \/ Join(c)
      PROVE  ReportInv'
  <2>1. phase' = phase /\ active' = active /\ Enabled' = Enabled
    BY <1>7
    DEF Start, Stop, Reserve, StartEnds, StartRefused, LaunchUnadmitted, StopReads, StopUnread, StopFailed,
        StopRecorded, StopDone, Join, files, maps, Enabled
  <2>2. CASE Start(c) \/ Stop(c)
    <3>1. transition \notin Starters /\ guard' = guard /\ unlaunched' = unlaunched
      BY <2>2, NoStarters DEF Start, Stop, maps
    <3> QED BY <2>1, <3>1, ReportKept
  <2>3. CASE Reserve(c)
    <3>1. CASE /\ transition = None /\ transition' = c
               /\ \E ends \in BOOLEAN : Persist(c, ends)
      <4>1. stopping' = None /\ proc'[c].at = "journal"
        BY <2>3, <3>1, NoStarters, CallerMoves DEF Reserve, Becomes
      <4>2. transition' \in Starters'
        BY <3>1, <4>1 DEF Starters
      <4> QED BY <4>2 DEF ReportInv
    <3>2. CASE Refused(c)
      <4>1. Rests(c) /\ transition' = transition /\ stopping' = stopping /\ guard' = guard
            /\ unlaunched' = unlaunched
        BY <2>3, <3>2, CallerMoves DEF Reserve, Refused
      <4>2. Starters \subseteq Starters'
        BY <2>3, <4>1 DEF Starters, Rests, Becomes, Reserve, At
      <4> QED BY <2>1, <4>1, <4>2 DEF ReportInv
    <3> QED BY <2>3, <3>1, <3>2 DEF Reserve
  <2>4. CASE StartEnds(c) \/ StopFailed(c)
    BY <2>4 DEF StartEnds, StartRefused, LaunchUnadmitted, StopFailed, Guard, ReportInv
  <2>5. CASE StopReads(c) \/ StopUnread(c) \/ Join(c)
    <3>1. stopping = c /\ guard' = guard /\ unlaunched' = unlaunched
      BY <2>5 DEF StopReads, StopUnread, Join, maps, bounds, StopInv, At
    <3>2. transition \notin Starters
      BY <3>1, NoStarters
    <3> QED BY <2>1, <3>1, <3>2, ReportKept
  <2>6. CASE StopRecorded(c)
    <3>1. ~Enabled
      BY <2>6 DEF StopRecorded, EndInv, Ended
    <3> QED BY <2>1, <3>1 DEF ReportInv
  <2>7. CASE StopDone(c)
    <3>1. guard' = "none" => ~Enabled
      BY <2>7 DEF StopDone, EndInv, Ended
    <3> QED BY <2>1, <3>1 DEF ReportInv
  <2> QED BY <1>7, <2>2, <2>3, <2>4, <2>5, <2>6, <2>7
<1>8. ASSUME NEW w \in Workers,
             \/ Ends(w, "canceled") \/ Ends(w, "clean") \/ Ends(w, "error")
             \/ Heard(w) \/ Admit(w) \/ WorkerRecorded(w) \/ Unlease(w)
      PROVE  ReportInv'
  <2>1. proc[w].at \notin {"idle", "leave"} /\ active' = active
    BY <1>8 DEF Ends, Heard, Admit, WorkerRecorded, Unlease, At, maps
  <2> QED BY <2>1 DEF LeaseInv, ReportInv
<1>9. ASSUME NEW w \in Workers, Leave(w) PROVE ReportInv'
  <2>1. phase' = phase /\ Enabled' = Enabled /\ At(w, "leave")
    BY <1>9 DEF Leave, files, Enabled
  <2>2. CASE proc[w].ends = TRUE
    BY <1>9, <2>2 DEF Leave, Guard, ReportInv
  <2>3. CASE proc[w].ends = FALSE
    <3>1. phase = "closing" \/ (At(stopping, "join") /\ stopping \in Procs)
      BY <2>1, <2>3 DEF HandoffInv, Handoff, At, TypeOK
    <3>2. At(stopping, "join") /\ stopping \in Procs => ~Enabled
      BY DEF EndInv, Ended
    <3> QED BY <2>1, <3>1, <3>2 DEF ReportInv
  <2> QED BY <2>2, <2>3 DEF TypeOK
<1> QED BY <1>1, <1>2, <1>3, <1>4, <1>5, <1>6, <1>7, <1>8, <1>9, Steps

-----------------------------------------------------------------------------
(***************************************************************************)
(* What failing writes leave behind.                                       *)
(***************************************************************************)
(* Failures are counted.                                                   *)
LEMMA FaultsGrow ==
  ASSUME TypeOK, [Next]_vars
  PROVE  faults \in Nat /\ faults' \in {faults, faults + 1}
<1>0. faults \in Nat
  BY DEF TypeOK
<1>1. CASE UNCHANGED vars \/ Shutdown \/ Cancel \/ Down
  BY <1>0, <1>1, Downs DEF vars, Shutdown, Cancel
<1>2. CASE \E p \in Procs : Write(p)
  BY <1>0, <1>2, WriterStays
<1>3. CASE Resume \/ Settle \/ Reconcile \/ ResumePolicy \/ ResumeRecorded \/ Serve
  BY <1>0, <1>3 DEF Resume, Settle, Reconcile, ResumePolicy, ResumeRecorded, Serve
<1>4. CASE \E p \in Callers \cup {Boot} : LaunchPersisted(p)
  BY <1>0, <1>4 DEF LaunchPersisted
<1>5. ASSUME NEW c \in Callers,
             \/ Start(c) \/ Stop(c) \/ Reserve(c) \/ StartEnds(c) \/ StopReads(c)
             \/ StopUnread(c) \/ StopFailed(c) \/ StopRecorded(c) \/ StopDone(c)
             \/ Join(c)
      PROVE  faults' \in {faults, faults + 1}
  BY <1>5
  DEF Start, Stop, Reserve, StartEnds, StartRefused, LaunchUnadmitted, StopReads, StopUnread, StopFailed,
      StopRecorded, StopDone, Join, Fault
<1>6. ASSUME NEW w \in Workers,
             \/ Ends(w, "canceled") \/ Ends(w, "clean") \/ Ends(w, "error")
             \/ Heard(w) \/ Admit(w) \/ WorkerRecorded(w) \/ Unlease(w) \/ Leave(w)
      PROVE  faults' \in {faults, faults + 1}
  BY <1>6 DEF Ends, Heard, Admit, WorkerRecorded, Unlease, Leave, Fault
<1> QED BY <1>0, <1>1, <1>2, <1>3, <1>4, <1>5, <1>6, Steps

(* Who launched a worker, and left everybody else alone.                   *)
Launched(p, w) ==
  /\ LaunchPersisted(p) /\ Launch(p)
  /\ At(w, "idle") /\ proc'[w].at = "watch"
  /\ \A q \in Procs \ {p, w} : proc'[q] = proc[q]
  /\ run' = [run EXCEPT ![w] = NoRun]

(* How a worker came to where it is.                                       *)
WorkerCame(w) ==
  \/ proc'[w] = proc[w]
  \/ proc'[w].at = "idle"
  \/ /\ proc[w].at \notin {"idle", "watch", "leave"}
     /\ proc'[w].at \notin {"idle", "watch", "leave"}
  \/ At(w, "watch") /\ proc'[w].at = "handoff"
     /\ (Ends(w, "canceled") \/ Ends(w, "clean") \/ Ends(w, "error"))
  \/ Unlease(w) /\ proc'[w].at = "leave"
  \/ \E p \in Callers \cup {Boot} : Launched(p, w)

(* A step of one process moves no other, but a launch its worker.          *)
LEMMA WorkersCome ==
  ASSUME TypeOK, PlaceInv, LeaseInv, StopInv, HandoffInv, [Next]_vars, NEW w \in Workers
  PROVE  WorkerCame(w)
<1> USE Kinds
<1>0. Idle.at = "idle"
  BY DEF Idle
<1>1. CASE UNCHANGED vars \/ Shutdown \/ Cancel
  BY <1>1 DEF vars, Shutdown, Cancel, WorkerCame
<1>2. CASE Down
  BY <1>0, <1>2, Downs DEF WorkerCame
<1>3. CASE \E p \in Procs : Write(p)
  <2>1. PICK p \in Procs : Write(p)
    BY <1>3
  <2>2. /\ WriteFrame(p) /\ proc[p].at \in Recording
        /\ proc'[p].at \in Recording \cup {"launch"}
    BY <2>1, WriterStays
  <2>3. CASE p = w
    BY <2>2, <2>3 DEF WorkerCame, Recording
  <2> QED BY <2>2, <2>3 DEF WorkerCame, WriteFrame
<1>4. CASE Resume \/ Settle \/ Reconcile \/ ResumePolicy \/ ResumeRecorded \/ Serve
  <2>1. \A q \in Procs \ {Boot} : proc'[q] = proc[q]
    BY <1>4, BootMoves DEF Keeps, Becomes, Rests, ResumePolicy
  <2> QED BY <2>1 DEF WorkerCame
<1>5. ASSUME NEW p \in Callers \cup {Boot}, LaunchPersisted(p) PROVE WorkerCame(w)
  <2>1. CASE Launch(p)
    <3>1. PICK v \in Workers :
            /\ At(v, "idle") /\ \A q \in Procs \ {p, v} : proc'[q] = proc[q]
            /\ run' = [run EXCEPT ![v] = NoRun]
            /\ proc'[v] = [proc[v] EXCEPT !.at = "watch"]
      BY <2>1, Launches
    <3>2. proc'[v].at = "watch"
      BY <3>1 DEF TypeOK
    <3>3. Launched(p, v)
      BY <1>5, <2>1, <3>1, <3>2 DEF Launched
    <3> QED BY <1>5, <3>1, <3>3 DEF WorkerCame
  <2>2. CASE Ending(p) \/ Rests(p)
    BY <1>5, <2>2 DEF Ending, Rests, Becomes, WorkerCame
  <2> QED BY <1>5, <2>1, <2>2, CallerMoves, BootMoves
<1>6. ASSUME NEW c \in Callers,
             \/ Start(c) \/ Stop(c) \/ Reserve(c) \/ StartEnds(c) \/ StopReads(c)
             \/ StopUnread(c) \/ StopFailed(c) \/ StopRecorded(c) \/ StopDone(c)
             \/ Join(c)
      PROVE  WorkerCame(w)
  <2>1. \A q \in Procs \ {c} : proc'[q] = proc[q]
    BY <1>6, CallerMoves
    DEF Reserve, StopUnread, StopFailed, StopDone, Join, Keeps, Rests, Ending, Becomes
  <2> QED BY <2>1 DEF WorkerCame
<1>7. ASSUME NEW v \in Workers,
             \/ Ends(v, "canceled") \/ Ends(v, "clean") \/ Ends(v, "error")
             \/ Heard(v) \/ Admit(v) \/ WorkerRecorded(v) \/ Unlease(v) \/ Leave(v)
      PROVE  WorkerCame(w)
  <2>1. CASE v # w
    <3>1. \A q \in Procs \ {v} : proc'[q] = proc[q]
      BY <1>7, WorkerMoves DEF Admit, Leave, Keeps, Ending, Rests, Becomes
    <3> QED BY <2>1, <3>1 DEF WorkerCame
  <2>2. CASE v = w /\ (Ends(w, "canceled") \/ Ends(w, "clean") \/ Ends(w, "error"))
    <3>1. At(w, "watch") /\ proc'[w].at = "handoff"
      BY <2>2, WorkerMoves DEF Ends, Keeps, Becomes
    <3> QED BY <2>2, <3>1 DEF WorkerCame
  <2>3. CASE v = w /\ (Heard(w) \/ Admit(w) \/ WorkerRecorded(w))
    <3>1. proc'[w].at \in {"admit", "unlease", "journal"}
      BY <2>3, WorkerMoves DEF Admit, Keeps, Ending, Becomes
    <3>2. proc[w].at \in {"handoff", "admit", "recorded"}
      BY <2>3 DEF Heard, Admit, WorkerRecorded, At
    <3> QED BY <3>1, <3>2 DEF WorkerCame
  <2>4. CASE v = w /\ Unlease(w)
    BY <2>4, WorkerMoves DEF WorkerCame, Keeps, Becomes
  <2>5. CASE v = w /\ Leave(w)
    BY <2>5, WorkerMoves DEF WorkerCame, Leave, Rests, Becomes
  <2> QED BY <1>7, <2>1, <2>2, <2>3, <2>4, <2>5
<1> QED BY <1>1, <1>2, <1>3, <1>4, <1>5, <1>6, <1>7, Steps

(* A worker leaves with a record of its own after a Stop only when that    *)
(* Stop had a failing write.                                               *)
LEMMA LeavingKept ==
  ASSUME TypeOK, HandoffInv, FaultInv, NEW v \in Workers, Leaving(v), transition # v
  PROVE  faults >= 1
<1>1. Handoff(v) /\ KeptInv(v) /\ proc[v].at = "leave"
  BY DEF HandoffInv, FaultInv, Leaving, At
<1>2. run[v].answer \notin {"none", "never", "yield"} /\ run[v].owner # None
  BY <1>1 DEF Handoff, At, Leaving
<1>3. run[v].answer = "keep"
  BY <1>2 DEF TypeOK
<1> QED BY <1>1, <1>2, <1>3 DEF KeptInv

(* A worker that heard nothing new is where it was, or further.            *)
LEMMA KeptSame ==
  ASSUME TypeOK, NEW w \in Workers, KeptInv(w), WorkerCame(w),
         run'[w].owner = run[w].owner,
         run'[w].answer = "keep" => run[w].answer = "keep",
         ~(Ends(w, "canceled") \/ Ends(w, "clean") \/ Ends(w, "error")),
         faults' \in {faults, faults + 1}
  PROVE  KeptInv(w)'
<1>1. faults \in Nat
  BY DEF TypeOK
<1>2. CASE proc'[w].at \in {"idle", "watch"}
  BY <1>2 DEF KeptInv
<1>3. CASE proc'[w].at \notin {"idle", "watch"}
  <2>1. proc[w].at \notin {"idle", "watch"}
    BY <1>3 DEF WorkerCame, Launched, Unlease, At
  <2> QED BY <1>1, <2>1 DEF KeptInv
<1> QED BY <1>2, <1>3

(* A worker keeps its record beside a Stop only after a failing write.     *)
LEMMA KeptStep ==
  ASSUME TypeOK, PlaceInv, LeaseInv, StopInv, HandoffInv, FaultInv, [Next]_vars,
         NEW w \in Workers
  PROVE  KeptInv(w)'
<1> USE Kinds
<1>0. KeptInv(w) /\ WorkerCame(w) /\ faults \in Nat /\ faults' \in {faults, faults + 1}
  BY FaultsGrow, WorkersCome DEF FaultInv
<1>1. ASSUME NEW result \in {"canceled", "clean", "error"}, Ends(w, result)
      PROVE  KeptInv(w)'
  <2>1. /\ run'[w].owner = stopping
        /\ run'[w].answer = (IF stopping = None THEN "keep" ELSE handoff)
    BY <1>1, Runs DEF RunBecomes
  <2>2. handoff # "keep"
    BY DEF TypeOK
  <2> QED BY <2>1, <2>2 DEF KeptInv
<1>2. CASE run' = run
  BY <1>0, <1>1, <1>2, KeptSame
<1>3. CASE Down
  BY <1>3, Downs DEF KeptInv, Idle
<1>4. ASSUME NEW p \in Callers \cup {Boot}, LaunchPersisted(p) PROVE KeptInv(w)'
  <2>1. CASE Launch(p)
    <3>1. PICK v \in Workers :
            run' = [run EXCEPT ![v] = NoRun] /\ proc'[v] = [proc[v] EXCEPT !.at = "watch"]
      BY <2>1, Launches
    <3>2. CASE v = w
      <4>1. proc'[w].at = "watch"
        BY <3>1, <3>2 DEF TypeOK
      <4> QED BY <4>1 DEF KeptInv
    <3>3. CASE v # w
      <4>1. run'[w] = run[w]
        BY <3>1, <3>3 DEF TypeOK
      <4> QED BY <1>0, <1>1, <4>1, KeptSame
    <3> QED BY <3>2, <3>3
  <2> QED BY <1>2, <1>4, <2>1 DEF LaunchPersisted
<1>5. ASSUME NEW c \in Callers, StopUnread(c) \/ StopFailed(c) \/ StopRecorded(c)
      PROVE  KeptInv(w)'
  <2>1. CASE StopUnread(c) \/ StopRecorded(c)
    <3>1. Told(c, "never") \/ Told(c, "yield")
      <4>1. StopRecorded(c) => joins[c] \in Workers
        BY DEF StopRecorded, TypeOK
      <4> QED BY <2>1, <4>1, Telling DEF StopUnread, StopRecorded
    <3>2. run'[w].owner = run[w].owner /\ (run'[w].answer = "keep" => run[w].answer = "keep")
      BY <3>1 DEF Told
    <3> QED BY <1>0, <1>1, <3>2, KeptSame
  <2>2. CASE StopFailed(c)
    <3>1. faults >= 1
      BY <2>2 DEF StopFailed, FaultInv, SpoiledInv, Spoiled
    <3> QED BY <1>0, <3>1 DEF KeptInv
  <2> QED BY <1>5, <2>1, <2>2
<1>6. ASSUME NEW v \in Workers, Admit(v) \/ Leave(v) PROVE KeptInv(w)'
  <2>1. CASE v = w /\ Leave(w)
    <3>1. proc'[w].at = "idle"
      BY <2>1, WorkerMoves DEF Leave, Rests, Becomes
    <3> QED BY <3>1 DEF KeptInv
  <2>2. CASE run'[w].owner = run[w].owner /\ run'[w].answer = run[w].answer
    BY <1>0, <1>1, <2>2, KeptSame
  <2>3. Admit(v) => run'[w].owner = run[w].owner /\ run'[w].answer = run[w].answer
    <3>1. CASE run' = run
      BY <3>1
    <3>2. CASE run' = [run EXCEPT ![v].result = "error"]
      <4>1. PICK r \in RunType : /\ RunBecomes(v, r) /\ r.owner = run[v].owner
                                 /\ r.answer = run[v].answer
        BY <3>2, Runs
      <4> QED BY <4>1 DEF RunBecomes
    <3> QED BY <3>1, <3>2 DEF Admit
  <2>4. v # w /\ Leave(v) => run'[w] = run[w]
    BY Runs DEF Leave, RunBecomes
  <2> QED BY <1>6, <2>1, <2>2, <2>3, <2>4
<1>7. ASSUME NEW v \in Workers, NEW result \in {"canceled", "clean", "error"},
             Ends(v, result)
      PROVE  KeptInv(w)'
  <2>1. CASE v # w
    <3>1. run'[w] = run[w]
      BY <1>7, <2>1, Runs DEF RunBecomes
    <3> QED BY <1>0, <1>1, <3>1, KeptSame
  <2> QED BY <1>1, <1>7, <2>1
<1>8. CASE \/ UNCHANGED vars \/ Resume \/ Settle \/ Reconcile \/ ResumePolicy
           \/ ResumeRecorded \/ Serve \/ Shutdown \/ Cancel
  <2>1. run' = run
    BY <1>8 DEF vars, Resume, Settle, Reconcile, ResumePolicy, ResumeRecorded, Serve,
                Shutdown, Cancel
  <2> QED BY <1>2, <2>1
<1>9. CASE \E p \in Procs : Write(p)
  BY <1>2, <1>9, WriterStays DEF WriteFrame
<1>10. ASSUME NEW c \in Callers,
             \/ Start(c) \/ Stop(c) \/ Reserve(c) \/ StartEnds(c) \/ StopReads(c)
             \/ StopDone(c) \/ Join(c)
       PROVE  KeptInv(w)'
  <2>1. run' = run
    BY <1>10 DEF Start, Stop, Reserve, StartEnds, StartRefused, LaunchUnadmitted, StopReads, StopDone, Join
  <2> QED BY <1>2, <2>1
<1>11. ASSUME NEW v \in Workers, Heard(v) \/ WorkerRecorded(v) \/ Unlease(v)
       PROVE  KeptInv(w)'
  <2>1. run' = run
    BY <1>11 DEF Heard, WorkerRecorded, Unlease
  <2> QED BY <1>2, <2>1
<1> QED BY <1>3, <1>4, <1>5, <1>6, <1>7, <1>8, <1>9, <1>10, <1>11, Steps

(* Beside a worker that runs, nobody comes to leave.                       *)
LEMMA LeavingCame ==
  ASSUME TypeOK, LeaseInv, NEW w \in Workers, At(w, "watch"), WorkerCame(w),
         NEW v \in Workers, v # w, WorkerCame(v), Leaving(v)'
  PROVE  Leaving(v)
<1>1. active = w /\ (proc[v].at \notin {"idle", "leave"} => active = v)
  BY DEF LeaseInv, At
<1>2. ~Unlease(v)
  BY <1>1 DEF Unlease, At
<1> QED BY <1>2 DEF WorkerCame, Leaving, Launched, At

(* Who leaves beside a running worker was left by a Stop that failed.      *)
LEMMA LeftStep ==
  ASSUME TypeOK, PlaceInv, LeaseInv, StopInv, HandoffInv, FaultInv, [Next]_vars,
         NEW w \in Workers
  PROVE  LeftInv(w)'
<1> USE Kinds
<1>0. LeftInv(w) /\ faults \in Nat /\ faults' \in {faults, faults + 1}
  BY FaultsGrow DEF FaultInv
<1>1. \A v \in Workers : WorkerCame(v)
  BY WorkersCome
<1> SUFFICES ASSUME At(w, "watch")', NEW v \in Workers, v # w, Leaving(v)'
             PROVE  faults' >= 1
  BY DEF LeftInv, OthersLeaving
<1>2. CASE At(w, "watch")
  <2>1. Leaving(v)
    BY <1>1, <1>2, LeavingCame
  <2> QED BY <1>0, <1>2, <2>1 DEF LeftInv, OthersLeaving
<1>3. CASE ~At(w, "watch")
  <2>1. PICK p \in Callers \cup {Boot} : Launched(p, w)
    BY <1>1, <1>3 DEF WorkerCame, Unlease, At
  <2>2. p # v /\ proc'[v] = proc[v] /\ Leaving(v)
    BY <2>1 DEF Launched, Leaving, At
  <2>3. p \in Starters
    BY <2>1, Kinds DEF Launched, LaunchPersisted, Starters, StopInv, At, Recording
  <2>4. transition = p
    BY <2>3 DEF LeaseInv
  <2>5. faults >= 1
    BY <2>2, <2>4, LeavingKept
  <2> QED BY <1>0, <2>5
<1> QED BY <1>2, <1>3

(* A write that spoils a record fails.                                     *)
LEMMA SpoilingWrite ==
  ASSUME TypeOK, NEW p \in Procs, Write(p), proc[p].ends = TRUE, Spoiled(p)'
  PROVE  Spoiled(p) \/ faults' = faults + 1
<1>1. CASE PutTransition(p)
  BY <1>1, JournalWritten DEF Spoiled, At, Becomes
<1>2. CASE Upsert(p)
  BY <1>2, StateWritten DEF Spoiled, At, Becomes
<1>3. CASE AppendAudit(p)
  BY <1>3, LogWritten DEF Spoiled, At, Becomes
<1>4. CASE UpsertFinal(p)
  BY <1>4, FinalWritten DEF Spoiled, At, Becomes
<1>5. CASE RemoveTransition(p)
  BY <1>5, JournalCleared DEF Spoiled, At, Becomes
<1>6. CASE UpsertDegraded(p)
  BY <1>6, DegradedWritten DEF Spoiled, At
<1> QED BY <1>1, <1>2, <1>3, <1>4, <1>5, <1>6 DEF Write

(* How the owner of a worker's end came to where it is.                    *)
LEMMA StopperCame ==
  ASSUME TypeOK, PlaceInv, LeaseInv, StopInv, HandoffInv, [Next]_vars,
         NEW c \in Callers, stopping' = c
  PROVE  \/ stopping = c /\ proc'[c] = proc[c]
         \/ stopping = c /\ Write(c) /\ proc[c].ends = TRUE /\ proc'[c].at \in Recording
         \/ proc'[c].at \in {"read", "join", "journal"}
<1> USE Kinds
<1>1. CASE UNCHANGED vars \/ Shutdown \/ Cancel
  BY <1>1 DEF vars, Shutdown, Cancel, maps
<1>2. CASE Down
  BY <1>2, Downs
<1>3. CASE \E p \in Procs : Write(p)
  <2>1. PICK p \in Procs : Write(p)
    BY <1>3
  <2>2. WriteFrame(p) /\ proc[p].at \in Recording /\ stopping = c
    BY <2>1, WriterStays DEF WriteFrame
  <2>3. CASE p = c
    <3>1. proc[c].ends = TRUE
      BY <2>2, <2>3 DEF StopInv, TypeOK
    <3> QED BY <2>1, <2>2, <2>3, <3>1, WriterStays
  <2> QED BY <2>2, <2>3 DEF WriteFrame
<1>4. CASE Resume \/ Settle \/ Reconcile \/ ResumePolicy \/ ResumeRecorded \/ Serve
  <2>1. \A q \in Procs \ {Boot} : proc'[q] = proc[q]
    BY <1>4, BootMoves DEF Keeps, Becomes, Rests, ResumePolicy
  <2>2. stopping' = stopping
    BY <1>4 DEF Resume, Settle, Reconcile, ResumePolicy, ResumeRecorded, Serve, maps
  <2> QED BY <2>1, <2>2
<1>5. ASSUME NEW p \in Callers \cup {Boot}, LaunchPersisted(p) PROVE FALSE
  <2>1. p \in Starters /\ stopping = c
    BY <1>5 DEF LaunchPersisted, Starters, StopInv, At, Recording
  <2> QED BY <2>1, StarterAlone
<1>6. ASSUME NEW d \in Callers,
             \/ Start(d) \/ Reserve(d) \/ StartEnds(d)
      PROVE  stopping = c /\ proc'[c] = proc[c]
  <2>1. stopping' = stopping /\ (proc[d].at \in {"idle", "reserve"} \/ stopping # d)
    BY <1>6, StartEnding
    DEF Start, Reserve, StartEnds, StartRefused, LaunchUnadmitted, maps, At
  <2>2. d # c
    BY <2>1 DEF StopInv, Recording
  <2>3. \A q \in Procs \ {d} : proc'[q] = proc[q]
    BY <1>6, CallerMoves DEF Reserve, Keeps, Rests, Becomes
  <2> QED BY <2>1, <2>2, <2>3
<1>7. ASSUME NEW d \in Callers,
             \/ Stop(d) \/ StopReads(d) \/ StopUnread(d) \/ StopFailed(d)
             \/ StopRecorded(d) \/ StopDone(d) \/ Join(d)
      PROVE  proc'[c].at \in {"read", "join", "journal"}
  <2>1. CASE ReleaseStop(d)
    BY <2>1, CallerMoves
  <2>2. CASE Stop(d)
    <3>1. d = c /\ Keeps(d, "read")
      BY <2>2, CallerMoves DEF Stop
    <3> QED BY <3>1 DEF Keeps, Becomes
  <2>3. CASE StopReads(d)
    <3>1. d = c /\ Ending(d)
      BY <2>3, CallerMoves DEF StopReads, StopInv, At, maps
    <3> QED BY <3>1 DEF Ending, Becomes
  <2>4. CASE StopRecorded(d)
    <3>1. d = c /\ Keeps(d, "join")
      BY <2>4, CallerMoves DEF StopRecorded
    <3> QED BY <3>1 DEF Keeps, Becomes
  <2>5. CASE Join(d) /\ Persist(d, TRUE) /\ stopping' = stopping
    <3>1. d = c
      BY <2>5 DEF Join, StopInv, At
    <3> QED BY <2>5, <3>1, CallerMoves DEF Becomes
  <2> QED BY <1>7, <2>1, <2>2, <2>3, <2>4, <2>5 DEF StopUnread, StopFailed, StopDone, Join
<1>8. ASSUME NEW w \in Workers,
             \/ Ends(w, "canceled") \/ Ends(w, "clean") \/ Ends(w, "error")
             \/ Heard(w) \/ Admit(w) \/ WorkerRecorded(w) \/ Unlease(w) \/ Leave(w)
      PROVE  stopping = c /\ proc'[c] = proc[c]
  <2>1. stopping' = stopping
    BY <1>8 DEF Ends, Heard, Admit, WorkerRecorded, Unlease, Leave, maps
  <2>2. \A q \in Procs \ {w} : proc'[q] = proc[q]
    BY <1>8, WorkerMoves DEF Admit, Leave, Keeps, Ending, Rests, Becomes
  <2> QED BY <2>1, <2>2
<1> QED BY <1>1, <1>2, <1>3, <1>4, <1>5, <1>6, <1>7, <1>8, Steps

(* A record that could not be completed had a failing write of its own.    *)
LEMMA SpoiledStep ==
  ASSUME TypeOK, PlaceInv, LeaseInv, StopInv, HandoffInv, FaultInv, LogInv, [Next]_vars
  PROVE  SpoiledInv'
<1> USE Kinds
<1>0. SpoiledInv /\ faults \in Nat /\ faults' \in {faults, faults + 1}
  BY FaultsGrow DEF FaultInv
<1>1. CASE stopping' = None
  BY <1>1 DEF SpoiledInv
<1>2. ASSUME NEW c \in Callers, stopping' = c, Spoiled(c)'
      PROVE  /\ faults' >= 1
             /\ \A w \in Workers : At(w, "watch")' /\ OthersLeaving(w)' => faults' >= 2
  <2>1. \/ stopping = c /\ proc'[c] = proc[c]
        \/ stopping = c /\ Write(c) /\ proc[c].ends = TRUE
    BY <1>2, StopperCame DEF Spoiled, At
  <2>2. ASSUME NEW w \in Workers, At(w, "watch")', OthersLeaving(w)'
        PROVE  At(w, "watch") /\ OthersLeaving(w)
    <3>1. \A v \in Workers : WorkerCame(v)
      BY WorkersCome
    <3>2. At(w, "watch")
      <4>1. ASSUME NEW p \in Callers \cup {Boot}, Launched(p, w) PROVE FALSE
        <5>1. p \in Starters
          BY <4>1 DEF Launched, LaunchPersisted, Starters, StopInv, At, Recording
        <5> QED BY <2>1, <5>1, StarterAlone
      <4> QED BY <2>2, <3>1, <4>1 DEF WorkerCame, Unlease, At
    <3>3. PICK v \in Workers : v # w /\ Leaving(v)'
      BY <2>2 DEF OthersLeaving
    <3>4. Leaving(v)
      BY <3>1, <3>2, <3>3, LeavingCame
    <3> QED BY <3>2, <3>3, <3>4 DEF OthersLeaving
  <2>3. CASE Spoiled(c)
    <3>1. faults >= 1 /\ \A w \in Workers : At(w, "watch") /\ OthersLeaving(w) => faults >= 2
      BY <1>0, <2>1, <2>3 DEF SpoiledInv
    <3> QED BY <1>0, <2>2, <3>1
  <2>4. CASE faults' = faults + 1
    <3>1. \A w \in Workers : At(w, "watch") /\ OthersLeaving(w) => faults >= 1
      BY DEF FaultInv, LeftInv
    <3> QED BY <1>0, <2>2, <2>4, <3>1
  <2>5. proc'[c] = proc[c] => Spoiled(c)
    BY <1>2 DEF Spoiled, At
  <2> QED BY <1>2, <2>1, <2>3, <2>4, <2>5, SpoilingWrite
<1>3. stopping' \in Callers \cup {None}
  BY TypeStep DEF TypeOK
<1> QED BY <1>1, <1>2, <1>3 DEF SpoiledInv

(* A worker that runs, and that nothing new is to be said of.              *)
LEMMA DisabledSame ==
  ASSUME TypeOK, NEW w \in Workers, DisabledInv(w), At(w, "watch"),
         faults' \in {faults, faults + 1},
         Canceled(w) => Canceled(w)', Enabled => Enabled', StopRecords => StopRecords',
         OthersLeaving(w)' => OthersLeaving(w),
         guard = "degraded" => guard' = "degraded" \/ OthersLeaving(w)
  PROVE  DisabledInv(w)'
<1>1. faults \in Nat
  BY DEF TypeOK
<1>2. CASE Canceled(w) \/ Enabled \/ StopRecords
  BY <1>2 DEF DisabledInv
<1>3. CASE ~(Canceled(w) \/ Enabled \/ StopRecords)
  <2>1. \/ faults >= 1 /\ guard = "degraded" /\ ~OthersLeaving(w)
        \/ faults >= 2
    BY <1>3 DEF DisabledInv
  <2>2. CASE faults >= 2
    BY <1>1, <2>2 DEF DisabledInv
  <2>3. CASE faults >= 1 /\ guard = "degraded" /\ ~OthersLeaving(w)
    <3>1. faults' >= 1 /\ guard' = "degraded" /\ ~OthersLeaving(w)'
      BY <1>1, <2>3
    <3> QED BY <3>1 DEF DisabledInv
  <2> QED BY <2>1, <2>2, <2>3
<1> QED BY <1>2, <1>3

(* A worker that goes on without a policy is told by a degraded record.    *)
LEMMA DisabledStep ==
  ASSUME TypeOK, PlaceInv, LeaseInv, StopInv, HandoffInv, StartInv, EndInv, FaultInv,
         [Next]_vars, NEW w \in Workers
  PROVE  DisabledInv(w)'
<1> USE Kinds
<1>1. DisabledInv(w) /\ faults \in Nat /\ faults' \in {faults, faults + 1}
  BY FaultsGrow DEF FaultInv
<1>2. \A v \in Workers : WorkerCame(v)
  BY WorkersCome
<1> SUFFICES ASSUME At(w, "watch")' PROVE DisabledInv(w)'
  BY DEF DisabledInv
<1>3. CASE ~At(w, "watch")
  <2>1. PICK p \in Callers \cup {Boot} : Launched(p, w)
    BY <1>2, <1>3 DEF WorkerCame, Unlease, At
  <2>2. p \in Starters /\ At(p, "launch")
    BY <2>1 DEF Launched, LaunchPersisted, Starters, StopInv, At, Recording
  <2>3. ~proc[p].ends
    BY <2>2 DEF EndInv, Ended
  <2>4. policy' = policy /\ policy = Stored(TRUE, FALSE)
    BY <2>1, <2>2, <2>3 DEF Launched, LaunchPersisted, files, StartInv, Launching, At
  <2>5. Enabled'
    BY <2>4, StoredEnabled DEF Enabled
  <2> QED BY <2>5 DEF DisabledInv
<1>4. CASE At(w, "watch")
  <2>1. /\ Starters = {} /\ active = w /\ lease = w /\ phase \in {"up", "closing"}
        /\ proc[Boot].at = "idle"
    BY <1>4, NoStarters, Busy DEF At
  <2>2. OthersLeaving(w)' => OthersLeaving(w)
    <3>1. ASSUME NEW v \in Workers, v # w, Leaving(v)' PROVE Leaving(v)
      BY <1>2, <1>4, <3>1, LeavingCame
    <3> QED BY <3>1 DEF OthersLeaving
  <2>3. stopping # None => stopping \in Callers /\ transition = stopping /\ joins[stopping] = w
    BY <1>4 DEF StopInv, TypeOK
  <2>4. CASE Down
    BY <2>4, Downs DEF At, Idle
  <2>5. CASE \E p \in Procs : Write(p)
    <3>1. PICK p \in Procs : Write(p)
      BY <2>5
    <3>2. /\ WriteFrame(p) /\ proc[p].at \in Recording
          /\ proc[p].ends = TRUE => proc'[p].at \in Recording
      BY <3>1, WriterStays
    <3>3. p = stopping /\ proc[p].ends = TRUE
      BY <1>4, <2>1, <3>2, Writers DEF At, Recording
    <3>4. StopRecords'
      BY <2>3, <3>2, <3>3 DEF StopRecords, WriteFrame
    <3> QED BY <3>4 DEF DisabledInv
  <2>6. CASE Resume \/ Settle \/ Reconcile \/ ResumePolicy \/ ResumeRecorded \/ Serve
    BY <2>1, <2>6 DEF Resume, Settle, Reconcile, ResumePolicy, ResumeRecorded, Serve, At
  <2>7. ASSUME NEW p \in Callers \cup {Boot}, LaunchPersisted(p) PROVE FALSE
    <3>1. p \in Starters
      BY <2>7 DEF LaunchPersisted, Starters, StopInv, At, Recording
    <3> QED BY <2>1, <3>1
  <2>8. ASSUME NEW c \in Callers, StopFailed(c) PROVE DisabledInv(w)'
    <3>1. /\ faults >= 1
          /\ OthersLeaving(w) => faults >= 2
      BY <1>4, <2>8 DEF StopFailed, FaultInv, SpoiledInv, Spoiled
    <3>2. guard' = "degraded"
      BY <2>8 DEF StopFailed, Guard
    <3> QED BY <1>1, <2>2, <3>1, <3>2 DEF DisabledInv
  <2>9. ASSUME NEW c \in Callers, StopRecorded(c) PROVE DisabledInv(w)'
    <3>1. run' = [Tell(c, "yield") EXCEPT ![w].canceled = TRUE]
      BY <2>3, <2>9 DEF StopRecorded
    <3>2. run'[w].canceled = TRUE
      BY <3>1, Telling
    <3> QED BY <3>2 DEF DisabledInv, Canceled
  <2>10. ASSUME NEW c \in Callers, StopDone(c) PROVE FALSE
    BY <2>3, <2>10 DEF StopDone
  <2>11. CASE UNCHANGED vars \/ Shutdown \/ Cancel
    <3>1. /\ run' = run /\ guard' = guard /\ policy' = policy /\ stopping' = stopping
          /\ proc' = proc /\ (phase = "closing" => phase' = "closing")
      BY <2>11 DEF vars, files, maps, Shutdown, Cancel
    <3>2. /\ Canceled(w) => Canceled(w)'
          /\ Enabled => Enabled'
          /\ StopRecords => StopRecords'
      BY <3>1 DEF Canceled, Enabled, StopRecords
    <3> QED BY <1>1, <1>4, <2>2, <3>1, <3>2, DisabledSame
  <2>12. ASSUME NEW c \in Callers,
             \/ Start(c) \/ Stop(c) \/ Reserve(c) \/ StartEnds(c) \/ StopReads(c)
             \/ StopUnread(c) \/ Join(c)
         PROVE  DisabledInv(w)'
    <3>1. policy' = policy /\ phase' = phase
      BY <2>12
      DEF Start, Stop, Reserve, StartEnds, StartRefused, LaunchUnadmitted, StopReads, StopUnread, Join, files
    <3>2. ~StartEnds(c)
      BY <2>1, StartEnding DEF Starters
    <3>3. guard' = guard
      BY <2>12, <3>2 DEF Start, Stop, Reserve, StopReads, StopUnread, Join, maps
    <3>4. run'[w].canceled = run[w].canceled
      <4>1. StopUnread(c) => run'[w].canceled = run[w].canceled
        BY Telling DEF StopUnread
      <4> QED BY <2>12, <3>2, <4>1 DEF Start, Stop, Reserve, StopReads, Join
    <3>5. StopRecords => StopRecords'
      <4> SUFFICES ASSUME StopRecords PROVE StopRecords'
        OBVIOUS
      <4>1. stopping # c
        <5>1. stopping = c => proc[c].at \in Recording
          BY DEF StopRecords
        <5>2. Start(c) \/ Stop(c) \/ Reserve(c) \/ StopReads(c) \/ StopUnread(c) \/ Join(c)
              => proc[c].at \notin Recording
          BY DEF Start, Stop, Reserve, StopReads, StopUnread, Join, At, Recording
        <5> QED BY <2>12, <3>2, <5>1, <5>2
      <4>2. Start(c) \/ Reserve(c)
        BY <2>3, <2>12, <3>2, <4>1
        DEF Stop, StopReads, StopUnread, Join, StopInv, At, StopRecords
      <4>3. stopping' = stopping /\ \A q \in Procs \ {c} : proc'[q] = proc[q]
        BY <4>2, CallerMoves DEF Start, Reserve, Keeps, Rests, Becomes, maps
      <4> QED BY <2>3, <4>1, <4>3 DEF StopRecords
    <3>6. (Canceled(w) => Canceled(w)') /\ (Enabled => Enabled')
      BY <3>1, <3>4 DEF Canceled, Enabled
    <3> QED BY <1>1, <1>4, <2>2, <3>3, <3>5, <3>6, DisabledSame
  <2>13. ASSUME NEW v \in Workers,
             \/ Ends(v, "canceled") \/ Ends(v, "clean") \/ Ends(v, "error")
             \/ Heard(v) \/ Admit(v) \/ WorkerRecorded(v) \/ Unlease(v) \/ Leave(v)
         PROVE  DisabledInv(w)'
    <3>1. policy' = policy /\ phase' = phase /\ stopping' = stopping
      BY <2>13 DEF Ends, Heard, Admit, WorkerRecorded, Unlease, Leave, files, maps
    <3>2. \A q \in Procs \ {v} : proc'[q] = proc[q]
      BY <2>13, WorkerMoves DEF Admit, Leave, Keeps, Ending, Rests, Becomes
    <3>3. v # w
      <4>1. Ends(w, "canceled") \/ Ends(w, "clean") \/ Ends(w, "error")
            => proc'[w].at = "handoff"
        BY WorkerMoves DEF Keeps, Becomes
      <4>2. ~(Heard(w) \/ Admit(w) \/ WorkerRecorded(w) \/ Unlease(w) \/ Leave(w))
        BY <1>4 DEF Heard, Admit, WorkerRecorded, Unlease, Leave, At
      <4> QED BY <2>13, <4>1, <4>2 DEF At
    <3>4. run'[w] = run[w]
      <4>1. \A result \in {"canceled", "clean", "error"} : Ends(v, result) => run'[w] = run[w]
        BY <3>3, Runs DEF RunBecomes
      <4>2. Leave(v) => run'[w] = run[w]
        BY <3>3, Runs DEF Leave, RunBecomes
      <4>3. run' = [run EXCEPT ![v].result = "error"] => run'[w] = run[w]
        BY <3>3 DEF TypeOK
      <4> QED BY <2>13, <4>1, <4>2, <4>3 DEF Heard, Admit, WorkerRecorded, Unlease
    <3>5. StopRecords => StopRecords'
      BY <2>3, <3>1, <3>2 DEF StopRecords
    <3>6. guard' = guard \/ OthersLeaving(w)
      <4>1. Leave(v) /\ guard' # guard => Leaving(v)
        BY DEF Leave, Leaving
      <4> QED BY <2>13, <3>3, <4>1
          DEF Ends, Heard, Admit, WorkerRecorded, Unlease, maps, OthersLeaving
    <3>7. (Canceled(w) => Canceled(w)') /\ (Enabled => Enabled')
      BY <3>1, <3>4 DEF Canceled, Enabled
    <3> QED BY <1>1, <1>4, <2>2, <3>5, <3>6, <3>7, DisabledSame
  <2> QED BY <2>4, <2>5, <2>6, <2>7, <2>8, <2>9, <2>10, <2>11, <2>12, <2>13, Steps
<1> QED BY <1>3, <1>4

(* Every step keeps the count of failures that explains the rest.          *)
LEMMA FaultStep ==
  ASSUME TypeOK, PlaceInv, LeaseInv, StopInv, HandoffInv, StartInv, LogInv, EndInv,
         FaultInv, [Next]_vars
  PROVE  FaultInv'
<1>1. SpoiledInv'
  BY SpoiledStep
<1>2. \A w \in Workers : KeptInv(w)' /\ LeftInv(w)' /\ DisabledInv(w)'
  BY KeptStep, LeftStep, DisabledStep
<1> QED BY <1>1, <1>2 DEF FaultInv

-----------------------------------------------------------------------------
(***************************************************************************)
(* The invariant holds when nothing was ever started.                      *)
(***************************************************************************)
LEMMA InitInvariant ==
  ASSUME Init
  PROVE  IInv
<1> USE Kinds
<1>1. /\ policy = None /\ journal = None /\ audit = <<>> /\ phase = "down"
      /\ transition = None /\ active = None /\ stopping = None /\ handoff = "none"
      /\ drawn = 0 /\ faults = 0 /\ lease = None
      /\ \A p \in Procs : proc[p] = Idle
      /\ \A w \in Workers : run[w] = NoRun
  BY DEF Init
<1>2. Idle.at = "idle" /\ Idle.ends = FALSE /\ Idle.stored = FALSE
  BY DEF Idle
<1>3. TypeOK
  <2>1. /\ proc = [p \in Procs |-> Idle] /\ run = [w \in Workers |-> NoRun]
        /\ joins = [c \in Callers |-> None] /\ latched = FALSE /\ admission = None
        /\ guard = "none" /\ calls = 0 /\ boots = 0 /\ unlaunched = FALSE
    BY DEF Init
  <2>2. Idle \in Process /\ NoRun \in RunType
    BY DEF Idle, Process, Places, NoRun, RunType
  <2>3. proc \in [Procs -> Process] /\ run \in [Workers -> RunType]
    BY <2>1, <2>2
  <2>4. audit \in Seq(Entry)
    BY <1>1
  <2>5. joins \in [Callers -> Workers \cup {None}]
    BY <2>1
  <2> QED BY <1>1, <2>1, <2>3, <2>4, <2>5 DEF TypeOK, Process, Places, RunType
<1>4. \A p \in Procs : proc[p].at = "idle" /\ proc[p].ends = FALSE
  BY <1>1, <1>2
<1>5. PlaceInv
  BY <1>1, <1>4 DEF PlaceInv, CallerPlaces, WorkerPlaces, BootPlaces
<1>6. Starters = {}
  BY <1>4 DEF Starters
<1>7. LeaseInv
  BY <1>1, <1>4, <1>6 DEF LeaseInv, At
<1>8. StopInv
  BY <1>1, <1>4 DEF StopInv, At, Recording
<1>9. HandoffInv
  BY <1>1, <1>4 DEF HandoffInv, Handoff, At, Recording
<1>10. StartInv
  BY <1>6 DEF StartInv
<1>11. LogInv
  BY <1>1, <1>4 DEF LogInv, LoggedOnce, Enabled
<1>12. EndInv
  BY <1>4 DEF EndInv, Ended, At
<1>13. BootInv
  BY <1>4 DEF BootInv, ResumesCompleted, At
<1>14. FaultInv
  BY <1>1, <1>4 DEF FaultInv, SpoiledInv, KeptInv, LeftInv, DisabledInv, At
<1>15. ReportInv
  BY <1>1 DEF ReportInv
<1> QED BY <1>3, <1>5, <1>7, <1>8, <1>9, <1>10, <1>11, <1>12, <1>13, <1>14, <1>15 DEF IInv

(* Every step keeps it.                                                    *)
LEMMA NextInvariant ==
  ASSUME IInv, [Next]_vars
  PROVE  IInv'
<1> USE DEF IInv
<1>1. TypeOK'
  BY TypeStep
<1>2. PlaceInv' /\ LeaseInv' /\ StopInv'
  BY PlaceStep, LeaseStep, StopStep
<1>3. HandoffInv'
  <2>1. \A w \in Workers : Handoff(w)'
    BY HandoffStep
  <2> QED BY <2>1 DEF HandoffInv
<1>4. StartInv' /\ LogInv'
  BY StartStep, LogStep
<1>5. EndInv'
  <2>1. \A p \in Procs : Ended(p)'
    BY EndStep
  <2> QED BY <2>1 DEF EndInv
<1>6. BootInv' /\ FaultInv' /\ ReportInv'
  BY BootStep, FaultStep, ReportStep
<1> QED BY <1>1, <1>2, <1>3, <1>4, <1>5, <1>6

-----------------------------------------------------------------------------
(***************************************************************************)
(* The inductive invariant holds in every reachable state.                 *)
(***************************************************************************)
THEOREM Invariance == Spec => []IInv
<1>1. Init => IInv
  BY InitInvariant
<1>2. IInv /\ [Next]_vars => IInv'
  BY NextInvariant
<1> QED BY <1>1, <1>2, PTL DEF Spec

(***************************************************************************)
(* The variables keep their types.                                         *)
(***************************************************************************)
THEOREM TypeCorrect == Spec => []TypeOK
<1>1. IInv => TypeOK
  BY DEF IInv
<1> QED BY <1>1, Invariance, PTL

(***************************************************************************)
(* Two workers never drain the session at a time, however calls, ends and  *)
(* failures interleave: a worker that runs holds the lease.                *)
(***************************************************************************)
THEOREM OneWorkerDrains == Spec => []OneWorker
<1>1. IInv => OneWorker
  BY DEF IInv, LeaseInv, OneWorker, At
<1> QED BY <1>1, Invariance, PTL

(***************************************************************************)
(* With at most one failing write, a worker that may go on has an enabled  *)
(* policy, or a Stop that is about to end it, or a degraded record; and a  *)
(* session reported as enabled has a worker.                               *)
(***************************************************************************)
THEOREM PolicyAgrees == Spec => []PolicyMatchesWorker
<1>1. IInv => DisabledRunsNothing
  <2> SUFFICES ASSUME IInv, faults <= 1, NEW w \in Workers, At(w, "watch"), ~Canceled(w),
                      ~Enabled, stopping = None
               PROVE  guard = "degraded"
    BY DEF DisabledRunsNothing
  <2>1. DisabledInv(w) /\ faults \in Nat
    BY DEF IInv, FaultInv, TypeOK
  <2> QED BY <2>1 DEF DisabledInv, StopRecords
<1>2. IInv => EnabledHasWorker
  <2> SUFFICES ASSUME IInv, phase = "up", transition = None, guard = "none", Enabled,
                      active = None, ~unlaunched
               PROVE  FALSE
    BY DEF EnabledHasWorker, IInv, TypeOK
  <2>1. None \in Starters
    BY DEF IInv, ReportInv
  <2> QED BY <2>1, Kinds DEF Starters
<1> QED BY <1>1, <1>2, Invariance, PTL DEF PolicyMatchesWorker

(***************************************************************************)
(* An event is on the log once, and a daemon that starts resumes only what *)
(* was launched on record, whatever failed and wherever the last daemon    *)
(* ended.                                                                  *)
(***************************************************************************)
THEOREM RecoveryExact == Spec => []RecoveryIsExact
<1>1. IInv => RecoveryIsExact
  BY DEF IInv, LogInv, BootInv, RecoveryIsExact
<1> QED BY <1>1, Invariance, PTL

(***************************************************************************)
(* A worker is started only with the last record of the log, the stored    *)
(* policy and the empty journal all saying so.                             *)
(***************************************************************************)
THEOREM LaunchesOnRecord == Spec => LaunchIsOnRecord
<1> DEFINE OnRecord == \A w \in Workers : At(w, "idle") /\ proc'[w].at = "watch" =>
                         /\ policy = Stored(TRUE, FALSE)
                         /\ journal = None
                         /\ audit # <<>> /\ ~audit[Len(audit)].ends
<1>1. IInv /\ [Next]_vars => [OnRecord]_vars
  <2> SUFFICES ASSUME IInv, [Next]_vars, NEW w \in Workers, At(w, "idle"),
                      proc'[w].at = "watch"
               PROVE  /\ policy = Stored(TRUE, FALSE)
                      /\ journal = None
                      /\ audit # <<>> /\ ~audit[Len(audit)].ends
    OBVIOUS
  <2>1. PICK p \in Callers \cup {Boot} : Launched(p, w)
    BY WorkersCome DEF IInv, WorkerCame, At
  <2>2. p \in Starters /\ At(p, "launch") /\ p \in Procs
    BY <2>1, Kinds
    DEF Launched, LaunchPersisted, Starters, IInv, StopInv, At, Recording
  <2>3. ~proc[p].ends
    BY <2>2 DEF IInv, EndInv, Ended
  <2>4. Launching(p)
    BY <2>2, <2>3 DEF IInv, StartInv
  <2> QED BY <2>2, <2>4 DEF Launching, LastIsLaunch, At
<1> QED BY <1>1, Invariance, PTL DEF Spec, LaunchIsOnRecord

=============================================================================

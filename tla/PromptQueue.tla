------------------------------ MODULE PromptQueue ------------------------------
(***************************************************************************)
(* What the queue of a session promises those who submit prompts, work on  *)
(* them and cancel them, without files, locks, leases or crashes: prompts  *)
(* are taken in order and by one worker at a time, come to one end, and    *)
(* none is put back while somebody works on it; a cancellation stays.      *)
(***************************************************************************)
EXTENDS Naturals, Sequences

CONSTANTS Processes

VARIABLES
  prompts,   \* the status of each prompt, in the order of submission
  work,      \* the prompt that each process works on, 0 for none
  latch,     \* whether the session is open, to be canceled, or canceled
  early      \* the first prompt is of an earlier format, and cancelable

vars == <<prompts, work, latch, early>>

Open == latch = "open"
AtRest == \A p \in Processes : work[p] = 0
Some(s) == \E i \in DOMAIN prompts : prompts[i] = s

Rewrite(from, to) ==
  prompts' = [i \in DOMAIN prompts |-> IF prompts[i] \in from THEN to ELSE prompts[i]]

Init ==
  /\ \/ prompts = <<>> /\ early = FALSE
     \/ prompts = <<"pending">> /\ early = TRUE
  /\ work = [p \in Processes |-> 0]
  /\ latch = "open"

Submit ==
  /\ Open
  /\ prompts' = Append(prompts, "pending")
  /\ UNCHANGED <<work, latch, early>>

(* Nobody works on anything, and no earlier prompt waits. *)
Take(p, i) ==
  /\ Open
  /\ AtRest
  /\ prompts[i] = "pending"
  /\ \A j \in 1..(i - 1) : prompts[j] # "pending"
  /\ prompts' = [prompts EXCEPT ![i] = "running"]
  /\ work' = [work EXCEPT ![p] = i]
  /\ UNCHANGED <<latch, early>>

Finish(p, outcome) ==
  /\ Open
  /\ work[p] # 0
  /\ prompts[work[p]] = "running"
  /\ prompts' = [prompts EXCEPT ![work[p]] = outcome]
  /\ work' = [work EXCEPT ![p] = 0]
  /\ UNCHANGED <<latch, early>>

(* A cancellation overrules the outcome. *)
Overrule(p) ==
  /\ ~Open
  /\ work[p] # 0
  /\ prompts[work[p]] \in {"running", "canceled"}
  /\ prompts' = [prompts EXCEPT ![work[p]] = "canceled"]
  /\ work' = [work EXCEPT ![p] = 0]
  /\ latch' = "canceled"
  /\ UNCHANGED early

(* Who works on a prompt gives up or dies; the prompt stays as it is, until *)
(* nobody works any more.                                                   *)
Drop(p) ==
  /\ work' = [work EXCEPT ![p] = 0]
  /\ UNCHANGED <<prompts, latch, early>>

PutBack ==
  /\ Open
  /\ AtRest
  /\ Rewrite({"running"}, "pending")
  /\ UNCHANGED <<work, latch, early>>

Request ==
  /\ latch' = IF latch = "canceled" THEN latch ELSE "cancel_requested"
  /\ UNCHANGED <<prompts, work, early>>

Conclude ==
  /\ ~Open
  /\ latch' = "canceled"
  /\ UNCHANGED <<prompts, work, early>>

CancelAll ==
  /\ ~Open
  /\ Rewrite({"pending", "running"}, "canceled")
  /\ latch' = "canceled"
  /\ UNCHANGED <<work, early>>

CancelWaiting ==
  /\ Rewrite({"pending"}, "canceled")
  /\ latch' = IF ~Some("running") /\ (~Open \/ Some("pending"))
              THEN "canceled" ELSE latch
  /\ UNCHANGED <<work, early>>

(* The prompt of the earlier format is canceled whatever became of it. *)
CancelEarly ==
  /\ early
  /\ early' = FALSE
  /\ prompts' = [prompts EXCEPT ![1] = "canceled"]
  /\ latch' = "canceled"
  /\ UNCHANGED work

Next ==
  \/ Submit \/ PutBack \/ Request \/ Conclude \/ CancelAll \/ CancelWaiting
  \/ CancelEarly
  \/ \E p \in Processes :
       \/ \E i \in DOMAIN prompts : Take(p, i)
       \/ \E outcome \in {"completed", "failed"} : Finish(p, outcome)
       \/ Overrule(p) \/ Drop(p)

Spec == Init /\ [][Next]_vars

=============================================================================

----------------------------- MODULE ProviderSave -----------------------------
(***************************************************************************)
(* What a provider save promises a client, without processes, locks,       *)
(* cleanup or restarts: a save takes effect once, as a whole, or not at    *)
(* all, and a credential in use is never thrown away.                      *)
(***************************************************************************)
CONSTANTS Operations, Aliases, SecretNames, None

VARIABLES
  saves,     \* the state, alias and credential of each save
  binding,   \* the credential each alias uses
  readable   \* the credentials that can be read

vars == <<saves, binding, readable>>

Unsaved == [state |-> "absent", alias |-> None, secret |-> None]
Unfinished == {o \in Operations : saves[o].state \in {"pending", "applied"}}
Settled == {o \in Operations : saves[o].state \in {"committed", "failed"}}

(* A credential is in use when an alias or an unconfirmed save depends on it. *)
InUse(s) ==
  \/ \E a \in Aliases : binding[a] = s
  \/ \E o \in Operations : saves[o].state = "applied" /\ saves[o].secret = s

Init ==
  /\ saves = [o \in Operations |-> Unsaved]
  /\ readable \in SUBSET SecretNames
  /\ binding \in [Aliases -> readable \cup {None}]

Submit(o, a, s) ==
  /\ saves[o] = Unsaved
  /\ \A p \in Unfinished : saves[p].alias # a
  /\ saves' = [saves EXCEPT ![o] =
                 [state |-> "pending", alias |-> a, secret |-> s]]
  /\ UNCHANGED <<binding, readable>>

(* A save without a credential keeps the one its alias has. *)
Apply(o) ==
  LET s == saves[o].secret IN
  /\ saves[o].state = "pending"
  /\ s \in readable \cup {None}
  /\ saves' = [saves EXCEPT ![o].state = "applied"]
  /\ binding' = IF s = None THEN binding
                ELSE [binding EXCEPT ![saves[o].alias] = s]
  /\ UNCHANGED readable

Finish(o) ==
  /\ saves[o].state = "applied"
  /\ saves' = [saves EXCEPT ![o].state = "committed"]
  /\ UNCHANGED <<binding, readable>>

Fail(o) ==
  /\ saves[o].state = "pending"
  /\ saves' = [saves EXCEPT ![o].state = "failed"]
  /\ UNCHANGED <<binding, readable>>

(* A restart fails what was not applied and finishes some of what was.     *)
Recover(finished) ==
  /\ \A o \in finished : saves[o].state = "applied"
  /\ saves' = [o \in Operations |->
                 IF saves[o].state = "pending"
                 THEN [saves[o] EXCEPT !.state = "failed"]
                 ELSE IF o \in finished
                 THEN [saves[o] EXCEPT !.state = "committed"]
                 ELSE saves[o]]
  /\ UNCHANGED <<binding, readable>>

Forget(expired) ==
  /\ expired \subseteq Settled
  /\ saves' = [o \in Operations |-> IF o \in expired THEN Unsaved ELSE saves[o]]
  /\ UNCHANGED <<binding, readable>>

Unbind(released) ==
  /\ binding' = [a \in Aliases |-> IF a \in released THEN None ELSE binding[a]]
  /\ UNCHANGED <<saves, readable>>

Learn(s) ==
  /\ readable' = readable \cup {s}
  /\ UNCHANGED <<saves, binding>>

Discard(s) ==
  /\ ~InUse(s)
  /\ readable' = readable \ {s}
  /\ UNCHANGED <<saves, binding>>

Next ==
  \/ \E o \in Operations :
       \/ \E a \in Aliases, s \in SecretNames \cup {None} : Submit(o, a, s)
       \/ Apply(o) \/ Finish(o) \/ Fail(o)
  \/ \E finished \in SUBSET Operations : Recover(finished)
  \/ \E expired \in SUBSET Operations : Forget(expired)
  \/ \E released \in SUBSET Aliases : Unbind(released)
  \/ \E s \in SecretNames : Learn(s) \/ Discard(s)

Spec == Init /\ [][Next]_vars

=============================================================================

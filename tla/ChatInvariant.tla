----------------------------- MODULE ChatInvariant -----------------------------
(***************************************************************************)
(* The parts of the inductive invariant of Chat, each with the reason it   *)
(* holds. MCChat extends this module for TLC, ChatProofs for TLAPS.        *)
(***************************************************************************)
EXTENDS Chat

(***************************************************************************)
(* The inductive invariant of the permission gate: where a request can be, *)
(* and what each place says of the answers that were accepted.             *)
(***************************************************************************)
Requested(t) == turn[t].asked /\ ~turn[t].auto /\ turn[t].at # "register"
Open(t) == turn[t].at \in {"register", "wait", "allowed", "denied", "execute"}

(* Before it is registered a request has no answer, and a tool that needs  *)
(* none has none.                                                          *)
UnaskedInv ==
  \A t \in Turns :
    ~Requested(t) => /\ channel[t] = "empty"
                     /\ \A a \in Answers : answer[a].at # "idle" => answer[a].of # t

PlaceInv ==
  \A t \in Turns :
    /\ turn[t].at \in {"idle", "user"} => ~turn[t].asked
    /\ turn[t].auto \/ Open(t) => turn[t].asked
    /\ turn[t].at \in {"register", "wait", "allowed", "denied"} => ~turn[t].auto

AnswerInv ==
  \A t \in Turns :
    /\ channel[t] = "allow" => TRUE \in Accepted(t)
    /\ channel[t] = "deny" => FALSE \in Accepted(t)
    /\ turn[t].at = "allowed" => TRUE \in Accepted(t)
    /\ turn[t].at = "denied" => t \in timedOut \/ FALSE \in Accepted(t)
    /\ t \in ran \/ turn[t].at = "execute" => turn[t].auto \/ TRUE \in Accepted(t)
    /\ Requested(t) /\ ~Open(t) => t \in ran \/ t \in timedOut \/ FALSE \in Accepted(t)

GateInv == TypeOK /\ UnaskedInv /\ PlaceInv /\ AnswerInv

-----------------------------------------------------------------------------
(***************************************************************************)
(* What is known of the histories: the one in the database, and those that *)
(* turns have read and that may be older.                                  *)
(***************************************************************************)
Histories ==
  {rows} \cup {turn[t].history : t \in Turns} \cup {turn[t].records : t \in Turns}

Over == {"history", "records", "compact", "done"}
Unsaved ==
  {<<t, "user">> : t \in {u \in Turns : turn[u].at \in {"idle", "user"}}}
    \cup {<<t, "assistant">> : t \in {u \in Turns : turn[u].at \notin Over}}

Summarized(rs) == UNION {rs[i].of : i \in {j \in DOMAIN rs : rs[j].id = Summary}}
Archived == UNION archives

(* A message that was not saved stands nowhere. *)
FreshInv == \A rs \in Histories : Standing(rs) \cap Unsaved = {}

(* An id that does not name its message was taken from a record whose      *)
(* message was archived then.                                              *)
IdsInv ==
  \A rs \in Histories : \A i \in DOMAIN rs :
    rs[i].id # Summary /\ rs[i] # Row(rs[i].id) => rs[i].id \in Archived

(* A message that is behind a summary is archived, or gone: it was saved   *)
(* while another turn compacted. Once gone it does not come back.          *)
SummaryInv ==
  \A rs \in Histories : \A m \in Messages :
    Row(m) \in Range(rows) /\ m \in Summarized(rs) => m \in Archived

(* A history that is long enough for a compaction stays long enough for    *)
(* its ids to be those of records.                                         *)
LengthInv ==
  \A t \in Turns :
    Len(turn[t].history) > Preserve =>
      /\ Len(rows) > Preserve
      /\ turn[t].at = "compact" => Len(turn[t].records) > Preserve

HistoryInv == FreshInv /\ IdsInv /\ SummaryInv /\ LengthInv

IInv == GateInv /\ HistoryInv

=============================================================================

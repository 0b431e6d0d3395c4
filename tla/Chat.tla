-------------------------------- MODULE Chat --------------------------------
(***************************************************************************)
(* The turns of one session, daemon/chat.go: chats, manual compactions and *)
(* reviews that clients send at the same time, the permission a tool call  *)
(* waits for, and the compaction that replaces the history.                *)
(*                                                                         *)
(* Every statement on the database is a step, and so is the transaction of *)
(* a compaction; a step of the permission gate is one section under its    *)
(* mutex or one operation on the channel of a request. What is said, the   *)
(* prompt of the system, hooks, token counts and the tools are left out.   *)
(***************************************************************************)
EXTENDS Naturals, Sequences, Functions

CONSTANTS
  Turns,      \* calls of SendMessage
  Callers,    \* those whose provider calls a tool, once: bound
  Answers,    \* calls of RespondToPermission
  Old,        \* the messages the session has, in their order
  Summary,    \* the id of a summary
  Preserve    \* PreserveMessages

Messages == Range(Old) \cup (Turns \X {"user", "assistant"})

ASSUME ChatAssumption ==
  /\ Old \in Seq(Range(Old)) /\ IsInjective(Old)
  /\ Range(Old) \cap (Turns \X {"user", "assistant"}) = {}
  /\ Summary \notin Messages
  /\ Callers \subseteq Turns
  /\ Preserve \in Nat \ {0}

VARIABLES
  rows,       \* its messages: the id of each row and the messages it stands for
  archives,   \* the messages each compaction copied to a session of its own
  turn,       \* where each turn is, whether its client has left, what a compaction read
  pending,    \* permGate.pending
  channel,    \* the channel of the request of each turn
  ran,        \* the turns whose tool ran
  timedOut,   \* the turns whose request timed out
  answer      \* the answers

gate == <<pending, channel, ran, timedOut>>
history == <<rows, archives>>
vars == <<history, turn, gate, answer>>

-----------------------------------------------------------------------------
Row(m) == [id |-> m, of |-> {m}]

Init ==
  /\ rows = [i \in DOMAIN Old |-> Row(Old[i])]
  /\ archives = {}
  /\ turn = [t \in Turns |-> [at |-> "idle", kind |-> "chat", gone |-> FALSE, asked |-> FALSE, auto |-> FALSE,
                              history |-> <<>>, records |-> <<>>]]
  /\ pending = {} /\ ran = {} /\ timedOut = {}
  /\ channel = [t \in Turns |-> "empty"]
  /\ answer = [a \in Answers |-> [at |-> "idle", of |-> "none", allowed |-> FALSE]]

Goto(t, at) == turn' = [turn EXCEPT ![t].at = at]

(* A turn that is over keeps nothing of what it read. *)
End(t) == turn' = [turn EXCEPT ![t].at = "done", ![t].kind = "chat", ![t].gone = FALSE,
                               ![t].history = <<>>, ![t].records = <<>>]

(* saveMessage: an error, which a client that left brings about, is only logged. *)
Saves(t, role) ==
  \/ rows' = Append(rows, Row(<<t, role>>))
  \/ turn[t].gone /\ rows' = rows

-----------------------------------------------------------------------------
(***************************************************************************)
(* handleChat, handleCompact and handleReview                              *)
(***************************************************************************)
(* A chat of a session that was killed, or whose provider cannot be found  *)
(* or refuses the request, leaves no message behind. Compactions and       *)
(* reviews do not look at the status, and a kill stops no turn.            *)
Begin(t) ==
  /\ turn[t].at = "idle"
  /\ \/ Goto(t, "user")
     \/ End(t)
     \/ turn' = [turn EXCEPT ![t].at = "history", ![t].kind = "compact"]
     \/ turn' = [turn EXCEPT ![t].at = "assistant", ![t].kind = "review"]
  /\ UNCHANGED <<history, gate, answer>>

SaveUser(t) ==
  /\ turn[t].at = "user"
  /\ Saves(t, "user")
  /\ Goto(t, "stream")
  /\ UNCHANGED <<archives, gate, answer>>

(* The events of the provider: its end, an error, or a tool call, which a  *)
(* turn makes once. Every event that is passed on to a client that left    *)
(* ends the turn.                                                          *)
Stream(t) ==
  /\ turn[t].at = "stream"
  /\ \/ Goto(t, "assistant")
     \/ End(t)
     \/ /\ t \in Callers /\ ~turn[t].asked /\ ~turn[t].gone
        /\ turn' = [turn EXCEPT ![t].at = "execute", ![t].asked = TRUE, ![t].auto = TRUE]
     \/ /\ t \in Callers /\ ~turn[t].asked /\ ~turn[t].gone
        /\ turn' = [turn EXCEPT ![t].at = "register", ![t].asked = TRUE]
  /\ UNCHANGED <<history, gate, answer>>

(* permissionGate.Wait: the request was sent before it is registered. *)
Register(t) ==
  /\ turn[t].at = "register"
  /\ pending' = pending \cup {t}
  /\ Goto(t, "wait")
  /\ UNCHANGED <<history, channel, ran, timedOut, answer>>

Receive(t) ==
  /\ turn[t].at = "wait"
  /\ channel[t] # "empty"
  /\ channel' = [channel EXCEPT ![t] = "empty"]
  /\ Goto(t, IF channel[t] = "allow" THEN "allowed" ELSE "denied")
  /\ UNCHANGED <<history, pending, ran, timedOut, answer>>

TimeoutAllows(t) ==   \* mutant of Timeout: a request without an answer is allowed
  /\ turn[t].at = "wait"
  /\ timedOut' = timedOut \cup {t}
  /\ Goto(t, "allowed")
  /\ UNCHANGED <<history, pending, channel, ran, answer>>

Timeout(t) ==
  /\ turn[t].at = "wait"
  /\ timedOut' = timedOut \cup {t}
  /\ Goto(t, "denied")
  /\ UNCHANGED <<history, pending, channel, ran, answer>>

Unregister(t) ==
  /\ turn[t].at \in {"allowed", "denied"}
  /\ pending' = pending \ {t}
  /\ Goto(t, IF turn[t].at = "allowed" THEN "execute" ELSE "stream")
  /\ UNCHANGED <<history, channel, ran, timedOut, answer>>

Execute(t) ==
  /\ turn[t].at = "execute"
  /\ ran' = ran \cup {t}
  /\ Goto(t, "stream")
  /\ UNCHANGED <<history, pending, channel, timedOut, answer>>

(* The answer of a chat, or the review. A chat goes on to a compaction     *)
(* when the tokens of the session are over the threshold. A review that    *)
(* failed or could not be sent saves nothing.                              *)
SaveAssistant(t) ==
  /\ turn[t].at = "assistant"
  /\ \/ Saves(t, "assistant") /\ End(t)
     \/ Saves(t, "assistant") /\ turn[t].kind = "chat" /\ Goto(t, "history")
     \/ turn[t].kind = "review" /\ rows' = rows /\ End(t)
  /\ UNCHANGED <<archives, gate, answer>>

LoadHistory(t) ==
  /\ turn[t].at = "history"
  /\ \/ turn' = [turn EXCEPT ![t].at = "records", ![t].history = rows]
     \/ turn[t].kind = "chat" /\ Len(rows) <= Preserve /\ End(t)
     \/ turn[t].gone /\ End(t)
  /\ UNCHANGED <<history, gate, answer>>

ListMessages(t) ==
  /\ turn[t].at = "records"
  /\ \/ turn' = [turn EXCEPT ![t].at = "compact", ![t].records = rows]
     \/ turn[t].gone /\ End(t)
  /\ UNCHANGED <<history, gate, answer>>

-----------------------------------------------------------------------------
(***************************************************************************)
(* Compress and compactHistoryWithArchive                                  *)
(***************************************************************************)
Standing(rs) == UNION {rs[i].of : i \in DOMAIN rs}
Told(rs) == UNION {rs[i].of : i \in {j \in DOMAIN rs : rs[j].id # Summary}}

(* The summary stands for all but the last messages of the history. *)
CompressedShort(read) ==   \* mutant of Compressed: off by one
  LET split == Len(read) - Preserve IN
  <<[id |-> Summary, of |-> Standing(SubSeq(read, 1, split - 1))]>>
    \o SubSeq(read, split + 1, Len(read))

Compressed(read) ==
  LET split == Len(read) - Preserve IN
  <<[id |-> Summary, of |-> Standing(SubSeq(read, 1, split))]>>
    \o SubSeq(read, split + 1, Len(read))

(* The messages that are kept get the ids that the last of the records have. *)
Replaced(compressed, records) ==
  [i \in DOMAIN compressed |->
    IF i = 1 \/ Len(records) <= Preserve THEN compressed[i]
    ELSE [compressed[i] EXCEPT !.id = records[Len(records) - Preserve + i - 1].id]]

(* Nothing is removed unless the summary and what is kept are fewer. The   *)
(* transaction copies the records, not what the history is by now.         *)
Compact(t) ==
  /\ turn[t].at = "compact"
  /\ End(t)
  /\ \/ UNCHANGED history
     \/ /\ Len(turn[t].history) > Preserve + 1
        /\ rows' = Replaced(Compressed(turn[t].history), turn[t].records)
        /\ archives' = archives \cup {Told(turn[t].records)}
  /\ UNCHANGED <<gate, answer>>

-----------------------------------------------------------------------------
(***************************************************************************)
(* The clients                                                             *)
(***************************************************************************)
Leave(t) ==
  /\ turn[t].at \notin {"idle", "done"}
  /\ ~turn[t].gone
  /\ turn' = [turn EXCEPT ![t].gone = TRUE]
  /\ UNCHANGED <<history, gate, answer>>

(* Respond finds the request under the mutex and sends to it outside; its  *)
(* channel has room for one answer and has no way out. An answer to a       *)
(* request that is not pending changes nothing.                            *)
Respond(a) ==
  /\ answer[a].at = "idle"
  /\ \E t \in Turns, allowed \in BOOLEAN :
       /\ t \in pending
       /\ answer' = [answer EXCEPT ![a] = [at |-> "send", of |-> t, allowed |-> allowed]]
  /\ UNCHANGED <<history, turn, gate>>

SendUnbuffered(a) ==   \* mutant of Send: the channel has no room
  /\ answer[a].at = "send"
  /\ turn[answer[a].of].at = "wait" /\ channel[answer[a].of] = "empty"
  /\ channel' = [channel EXCEPT ![answer[a].of] = IF answer[a].allowed THEN "allow" ELSE "deny"]
  /\ answer' = [answer EXCEPT ![a].at = "accepted"]
  /\ UNCHANGED <<history, turn, pending, ran, timedOut>>

Send(a) ==
  /\ answer[a].at = "send"
  /\ channel[answer[a].of] = "empty"
  /\ channel' = [channel EXCEPT ![answer[a].of] = IF answer[a].allowed THEN "allow" ELSE "deny"]
  /\ answer' = [answer EXCEPT ![a].at = "accepted"]
  /\ UNCHANGED <<history, turn, pending, ran, timedOut>>

-----------------------------------------------------------------------------
Step(t) ==
  \/ SaveUser(t) \/ Stream(t) \/ Register(t) \/ Receive(t)
  \/ Unregister(t) \/ Execute(t) \/ SaveAssistant(t)
  \/ LoadHistory(t) \/ ListMessages(t) \/ Compact(t)

Next ==
  \/ \E t \in Turns : Begin(t) \/ Step(t) \/ Timeout(t) \/ Leave(t)
  \/ \E a \in Answers : Respond(a) \/ Send(a)

Spec == Init /\ [][Next]_vars

(* The provider ends its stream, the timer of a request fires. *)
FairSpec ==
  /\ Spec
  /\ \A t \in Turns : WF_vars(Step(t) \/ Timeout(t))
  /\ \A a \in Answers : WF_vars(Send(a))

-----------------------------------------------------------------------------
(***************************************************************************)
(* Properties                                                              *)
(***************************************************************************)
Rows == [id : Messages \cup {Summary}, of : SUBSET Messages]
Points == {"idle", "user", "stream", "register", "wait", "allowed", "denied", "execute",
           "assistant", "history", "records", "compact", "done"}

(* Every variable holds what its declaration in the code lets it hold. *)
TypeOK ==
  /\ rows \in Seq(Rows)
  /\ archives \subseteq SUBSET Messages
  /\ turn \in [Turns -> [at : Points, kind : {"chat", "compact", "review"},
                          gone : BOOLEAN, asked : BOOLEAN, auto : BOOLEAN,
                          history : Seq(Rows), records : Seq(Rows)]]
  /\ pending = {t \in Turns : turn[t].at \in {"wait", "allowed", "denied"}}
  /\ channel \in [Turns -> {"empty", "allow", "deny"}]
  /\ ran \subseteq Turns /\ timedOut \subseteq Turns
  /\ answer \in [Answers -> [at : {"idle", "send", "accepted"},
                             of : Turns \cup {"none"}, allowed : BOOLEAN]]

(* A tool that is not allowed by the configuration runs only after a       *)
(* client's consent was accepted. A consent that was accepted is what      *)
(* decides, unless another answer was accepted or the request timed out.   *)
Accepted(t) == {answer[a].allowed : a \in {b \in Answers : answer[b].at = "accepted"
                                                           /\ answer[b].of = t}}

ConsentDecides ==
  \A t \in Turns :
    /\ t \in ran => turn[t].auto \/ TRUE \in Accepted(t)
    /\ Accepted(t) = {TRUE} /\ t \notin timedOut =>
         t \in ran \/ turn[t].at \in {"wait", "allowed", "execute"}

(* A compaction keeps the conversation: a message it read stays in the     *)
(* history, or in the summary there, and word for word there or in an      *)
(* archive; an id that named its message when it was read goes on to do so.*)
(* What another turn saved after the read is the exception.                *)
Verbatim == {m \in Messages : Row(m) \in Range(rows)} \cup UNION archives
IdsMatch(rs) == \A i \in DOMAIN rs : rs[i].id # Summary => rs[i] = Row(rs[i].id)

CompactionKeeps ==
  [][\A t \in Turns : turn[t].at = "compact" /\ turn'[t].at = "done" /\ rows' # rows =>
       /\ Standing(turn[t].history) \subseteq Standing(rows')
       /\ \A m \in Verbatim : m \in Verbatim' \/ m \notin Standing(turn[t].records)
       /\ IdsMatch(turn[t].history) /\ turn[t].history = turn[t].records =>
            IdsMatch(rows')]_vars

(* A turn ends, whether or not its client stays or answers. An answer      *)
(* returns, unless the request is over with an answer in its channel that  *)
(* nobody took: then the second answer waits for ever.                     *)
TurnsReturn ==
  /\ \A t \in Turns : turn[t].at # "idle" ~> turn[t].at = "done"
  /\ \A a \in Answers : answer[a].at = "send" ~>
       \/ answer[a].at = "accepted"
       \/ answer[a].of \in timedOut /\ channel[answer[a].of] # "empty"

=============================================================================

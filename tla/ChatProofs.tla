------------------------------ MODULE ChatProofs ------------------------------
(***************************************************************************)
(* Theorems about the turns of a session, for any turns and answers.       *)
(***************************************************************************)
EXTENDS ChatInvariant, SequenceTheorems, TLAPS

-----------------------------------------------------------------------------
(***************************************************************************)
(* What a compaction makes of the history.                                 *)
(***************************************************************************)
LEMMA FunctionIsSequence ==
  ASSUME NEW S, NEW n \in Nat, NEW f \in [1..n -> S]
  PROVE  f \in Seq(S) /\ Len(f) = n
<1>1. f \in Seq(S)
  BY SeqDef
<1> QED BY <1>1, LenProperties

LEMMA MessagesAreMembers ==
  ASSUME NEW t \in Turns, NEW role \in {"user", "assistant"}
  PROVE  Row(<<t, role>>) \in Rows
BY DEF Row, Rows, Messages

(* A part of a history stands for messages. *)
LEMMA StandingTypes ==
  ASSUME NEW rs \in Seq(Rows)
  PROVE  Standing(rs) \in SUBSET Messages /\ Told(rs) \in SUBSET Messages
<1>1. \A i \in DOMAIN rs : rs[i] \in Rows
  <2>1. DOMAIN rs = 1..Len(rs)
    BY LenProperties
  <2> QED BY <2>1, ElementOfSeq
<1>2. \A r \in Rows : r.of \subseteq Messages
  BY DEF Rows
<1> QED BY <1>1, <1>2 DEF Standing, Told

(* The history is the summary and the messages that are preserved. *)
LEMMA CompressedShape ==
  ASSUME NEW read \in Seq(Rows), Len(read) > Preserve + 1
  PROVE  /\ Compressed(read) \in Seq(Rows)
         /\ Len(Compressed(read)) = Preserve + 1
         /\ Compressed(read)[1].of = Standing(SubSeq(read, 1, Len(read) - Preserve))
         /\ \A i \in 2..(Preserve + 1) :
              Compressed(read)[i] = read[Len(read) - Preserve + i - 1]
<1> DEFINE split == Len(read) - Preserve
           head == <<[id |-> Summary, of |-> Standing(SubSeq(read, 1, split))]>>
           tail == SubSeq(read, split + 1, Len(read))
<1>1. /\ Preserve \in Nat \ {0} /\ Len(read) \in Nat /\ split \in Nat \ {0}
      /\ \A i \in 1..Len(read) : read[i] \in Rows
  BY ChatAssumption, LenProperties, ElementOfSeq
<1>2. SubSeq(read, 1, split) \in Seq(Rows)
  BY <1>1, SubSeqProperties
<1>3. head \in Seq(Rows) /\ Len(head) = 1 /\ head[1].of = Standing(SubSeq(read, 1, split))
  <2>1. [id |-> Summary, of |-> Standing(SubSeq(read, 1, split))] \in Rows
    BY <1>2, StandingTypes DEF Rows
  <2> HIDE DEF split
  <2> QED BY <2>1
<1>4. /\ tail \in Seq(Rows) /\ Len(tail) = Preserve
      /\ \A i \in 1..Preserve : tail[i] = read[split + i]
  <2>1. /\ tail \in Seq(Rows)
        /\ Len(tail) = IF split + 1 <= Len(read) THEN Len(read) - (split + 1) + 1 ELSE 0
        /\ \A i \in 1..(Len(read) - (split + 1) + 1) : tail[i] = read[split + 1 + i - 1]
    <3>1. split + 1 \in Int /\ Len(read) \in Int /\ \A i \in (split + 1)..Len(read) : read[i] \in Rows
      BY <1>1
    <3> HIDE DEF split
    <3> QED BY <3>1, SubSeqProperties
  <2>2. split + 1 <= Len(read) /\ Len(read) - (split + 1) + 1 = Preserve
    BY <1>1
  <2>3. \A i \in 1..Preserve : split + 1 + i - 1 = split + i
    BY <1>1
  <2> HIDE DEF tail, split
  <2> QED BY <2>1, <2>2, <2>3
<1>5. Compressed(read) = head \o tail
  BY DEF Compressed
<1> HIDE DEF head, tail
<1>6. /\ head \o tail \in Seq(Rows) /\ Len(head \o tail) = Preserve + 1
      /\ \A i \in 1..(1 + Preserve) :
           (head \o tail)[i] = IF i <= 1 THEN head[i] ELSE tail[i - 1]
  <2>1. /\ head \o tail \in Seq(Rows) /\ Len(head \o tail) = Len(head) + Len(tail)
        /\ \A i \in 1..(Len(head) + Len(tail)) :
             (head \o tail)[i] = IF i <= Len(head) THEN head[i] ELSE tail[i - Len(head)]
    BY <1>3, <1>4, ConcatProperties
  <2> QED BY <1>1, <1>3, <1>4, <2>1
<1>7. (head \o tail)[1] = head[1]
  BY <1>1, <1>6
<1>8. ASSUME NEW i \in 2..(Preserve + 1)
      PROVE  (head \o tail)[i] = read[split + i - 1]
  <2>1. i \in 1..(1 + Preserve) /\ ~(i <= 1) /\ i - 1 \in 1..Preserve /\ split + (i - 1) = split + i - 1
    BY <1>1
  <2> HIDE DEF split
  <2> QED BY <1>4, <1>6, <2>1
<1> QED BY <1>3, <1>5, <1>6, <1>7, <1>8

(* Only ids are taken from the records. *)
LEMMA ReplacedShape ==
  ASSUME NEW compressed \in Seq(Rows), NEW records \in Seq(Rows),
         Len(compressed) = Preserve + 1
  PROVE  /\ Replaced(compressed, records) \in Seq(Rows)
         /\ DOMAIN Replaced(compressed, records) = DOMAIN compressed
         /\ \A i \in DOMAIN compressed :
              Replaced(compressed, records)[i].of = compressed[i].of
<1>1. /\ Preserve \in Nat \ {0} /\ Len(records) \in Nat
      /\ DOMAIN compressed = 1..(Preserve + 1)
      /\ \A i \in 1..(Preserve + 1) : compressed[i] \in Rows
      /\ \A i \in 1..Len(records) : records[i] \in Rows
  BY ChatAssumption, LenProperties, ElementOfSeq
<1>2. ASSUME NEW i \in DOMAIN compressed
      PROVE  /\ Replaced(compressed, records)[i] \in Rows
             /\ Replaced(compressed, records)[i].of = compressed[i].of
  <2>1. CASE i = 1 \/ Len(records) <= Preserve
    BY <1>1, <2>1 DEF Replaced
  <2>2. CASE ~(i = 1 \/ Len(records) <= Preserve)
    <3> DEFINE j == Len(records) - Preserve + i - 1
    <3>1. j \in 1..Len(records)
      BY <1>1, <2>2
    <3>2. Replaced(compressed, records)[i] = [compressed[i] EXCEPT !.id = records[j].id]
      BY <2>2 DEF Replaced
    <3>3. records[j] \in Rows /\ compressed[i] \in Rows
      BY <1>1, <3>1
    <3> HIDE DEF j
    <3> QED BY <3>2, <3>3 DEF Rows
  <2> QED BY <2>1, <2>2
<1>3. Replaced(compressed, records) \in [1..(Preserve + 1) -> Rows]
  BY <1>1, <1>2 DEF Replaced
<1>4. Replaced(compressed, records) \in Seq(Rows)
  <2> DEFINE n == Preserve + 1
             replaced == Replaced(compressed, records)
  <2>1. n \in Nat /\ replaced \in [1..n -> Rows]
    BY <1>1, <1>3
  <2> HIDE DEF n, replaced
  <2>2. replaced \in Seq(Rows)
    BY <2>1, FunctionIsSequence
  <2> QED BY <2>2 DEF replaced
<1>5. DOMAIN Replaced(compressed, records) = DOMAIN compressed
  BY <1>1, <1>3
<1> QED BY <1>2, <1>4, <1>5

(* Every message of a history stands in what a compaction makes of it. *)
LEMMA CompactionStands ==
  ASSUME NEW read \in Seq(Rows), NEW records \in Seq(Rows), Len(read) > Preserve + 1
  PROVE  Standing(read) \subseteq Standing(Replaced(Compressed(read), records))
<1> DEFINE split == Len(read) - Preserve
           new == Replaced(Compressed(read), records)
<1>1. /\ Preserve \in Nat \ {0} /\ Len(read) \in Nat /\ split \in 1..Len(read)
      /\ DOMAIN read = 1..Len(read) /\ \A i \in 1..Len(read) : read[i] \in Rows
  BY ChatAssumption, LenProperties, ElementOfSeq
<1>2. /\ Compressed(read) \in Seq(Rows) /\ Len(Compressed(read)) = Preserve + 1
      /\ Compressed(read)[1].of = Standing(SubSeq(read, 1, split))
      /\ \A i \in 2..(Preserve + 1) : Compressed(read)[i] = read[split + i - 1]
  BY CompressedShape
<1>3. /\ DOMAIN new = 1..(Preserve + 1)
      /\ \A i \in 1..(Preserve + 1) : new[i].of = Compressed(read)[i].of
  BY <1>2, ReplacedShape, LenProperties
<1>4. ASSUME NEW j \in 1..Len(read)
      PROVE  \E i \in 1..(Preserve + 1) : read[j].of \subseteq new[i].of
  <2>1. CASE j <= split
    <3>1. /\ Len(SubSeq(read, 1, split)) = split
          /\ \A i \in 1..split : SubSeq(read, 1, split)[i] = read[i]
          /\ SubSeq(read, 1, split) \in Seq(Rows)
      <4>1. 1 \in Int /\ split \in Int /\ 1 <= split /\ split - 1 + 1 = split
            /\ \A i \in 1..split : read[i] \in Rows /\ 1 + i - 1 = i
        BY <1>1
      <4> HIDE DEF split
      <4>2. Len(SubSeq(read, 1, split)) = split - 1 + 1
            /\ \A i \in 1..(split - 1 + 1) : SubSeq(read, 1, split)[i] = read[1 + i - 1]
            /\ SubSeq(read, 1, split) \in Seq(Rows)
        BY <4>1, SubSeqProperties
      <4> QED BY <4>1, <4>2
    <3>2. j \in DOMAIN SubSeq(read, 1, split)
      <4>1. j \in 1..split /\ DOMAIN SubSeq(read, 1, split) = 1..split
        BY <1>1, <2>1, <3>1, LenProperties
      <4> QED BY <4>1
    <3>3. j \in 1..split
      BY <1>1, <2>1
    <3> HIDE DEF split, new
    <3>4. read[j].of \subseteq Standing(SubSeq(read, 1, split))
      BY <3>1, <3>2, <3>3 DEF Standing
    <3>5. 1 \in 1..(Preserve + 1)
      BY <1>1
    <3> QED BY <1>2, <1>3, <3>4, <3>5
  <2>2. CASE j > split
    <3>1. PICK i \in 2..(Preserve + 1) : split + i - 1 = j
      <4>1. j - split + 1 \in 2..(Preserve + 1) /\ split + (j - split + 1) - 1 = j
        BY <1>1, <2>2
      <4> QED BY <4>1
    <3>2. i \in 1..(Preserve + 1)
      BY <1>1
    <3> HIDE DEF split, new
    <3> QED BY <1>2, <1>3, <3>1, <3>2
  <2> QED BY <1>1, <2>1, <2>2
<1>5. DOMAIN read = 1..Len(read) /\ DOMAIN new = 1..(Preserve + 1)
  BY <1>1, <1>3
<1> HIDE DEF new, split
<1>6. ASSUME NEW m \in Standing(read)
      PROVE  m \in Standing(new)
  <2>1. PICK j \in 1..Len(read) : m \in read[j].of
    BY <1>5 DEF Standing
  <2>2. PICK i \in 1..(Preserve + 1) : read[j].of \subseteq new[i].of
    BY <1>4
  <2> QED BY <1>5, <2>1, <2>2 DEF Standing
<1> QED BY <1>6 DEF new

-----------------------------------------------------------------------------
(***************************************************************************)
(* The types.                                                              *)
(***************************************************************************)
TurnType ==
  [at : Points, kind : {"chat", "compact", "review"}, gone : BOOLEAN, asked : BOOLEAN,
   auto : BOOLEAN, history : Seq(Rows), records : Seq(Rows)]

(* A record of that type is changed field by field. *)
LEMMA TurnFields ==
  ASSUME NEW r \in TurnType
  PROVE  /\ \A x \in Points : [r EXCEPT !.at = x] \in TurnType
         /\ \A x \in {"chat", "compact", "review"} : [r EXCEPT !.kind = x] \in TurnType
         /\ \A x \in BOOLEAN : /\ [r EXCEPT !.gone = x] \in TurnType
                               /\ [r EXCEPT !.asked = x] \in TurnType
                               /\ [r EXCEPT !.auto = x] \in TurnType
         /\ \A x \in Seq(Rows) : /\ [r EXCEPT !.history = x] \in TurnType
                                 /\ [r EXCEPT !.records = x] \in TurnType
BY DEF TurnType

(* What a step does to its own turn, and that it leaves the others alone. *)
LEMMA GotoBecomes ==
  ASSUME TypeOK, NEW t \in Turns, NEW at \in Points, Goto(t, at)
  PROVE  /\ turn' \in [Turns -> TurnType]
         /\ turn'[t] = [turn[t] EXCEPT !.at = at]
         /\ turn'[t].at = at /\ turn'[t].asked = turn[t].asked /\ turn'[t].auto = turn[t].auto
         /\ \A u \in Turns : u # t => turn'[u] = turn[u]
<1>1. turn \in [Turns -> TurnType]
  BY DEF TypeOK, TurnType
<1>2. turn' = [turn EXCEPT ![t] = [turn[t] EXCEPT !.at = at]]
  BY DEF Goto
<1>3. [turn[t] EXCEPT !.at = at] \in TurnType
  BY <1>1, TurnFields
<1>4. turn'[t] = [turn[t] EXCEPT !.at = at]
  BY <1>1, <1>2
<1>5. turn'[t].at = at /\ turn'[t].asked = turn[t].asked /\ turn'[t].auto = turn[t].auto
  BY <1>1, <1>4 DEF TurnType
<1> QED BY <1>1, <1>2, <1>3, <1>4, <1>5

LEMMA EndBecomes ==
  ASSUME TypeOK, NEW t \in Turns, End(t)
  PROVE  /\ turn' \in [Turns -> TurnType]
         /\ turn'[t].at = "done" /\ turn'[t].asked = turn[t].asked /\ turn'[t].auto = turn[t].auto
         /\ \A u \in Turns : u # t => turn'[u] = turn[u]
<1>1. turn \in [Turns -> TurnType]
  BY DEF TypeOK, TurnType
<1> DEFINE r == [turn[t] EXCEPT !.at = "done", !.kind = "chat", !.gone = FALSE,
                                !.history = <<>>, !.records = <<>>]
<1>2. turn' = [turn EXCEPT ![t] = r]
  BY <1>1 DEF End
<1>3. r \in TurnType
  <2>1. <<>> \in Seq(Rows) /\ "done" \in Points
    BY DEF Points
  <2> QED BY <1>1, <2>1 DEF TurnType
<1>4. r.at = "done" /\ r.asked = turn[t].asked /\ r.auto = turn[t].auto
  BY <1>1 DEF TurnType
<1> HIDE DEF r
<1> QED BY <1>1, <1>2, <1>3, <1>4

-----------------------------------------------------------------------------
(***************************************************************************)
(* The steps.                                                              *)
(***************************************************************************)
LEMMA InitGate == Init => GateInv
<1> SUFFICES ASSUME Init PROVE GateInv
  OBVIOUS
<1>1. rows \in Seq(Rows)
  <2>1. /\ Len(Old) \in Nat /\ DOMAIN Old = 1..Len(Old)
        /\ \A i \in 1..Len(Old) : Old[i] \in Messages
    BY ChatAssumption, LenProperties, ElementOfSeq DEF Messages
  <2>2. rows \in [1..Len(Old) -> Rows]
    BY <2>1 DEF Init, Row, Rows
  <2> QED BY <2>1, <2>2, FunctionIsSequence
<1>2. turn \in [Turns -> TurnType]
  BY DEF Init, TurnType, Points
<1>3. TypeOK
  BY <1>1, <1>2 DEF Init, TypeOK, TurnType
<1>4. UnaskedInv /\ PlaceInv /\ AnswerInv
  BY DEF Init, UnaskedInv, PlaceInv, AnswerInv, Requested, Open
<1> QED BY <1>3, <1>4 DEF GateInv

(* A step that leaves the gate alone and stays out of it with its turn. *)
LEMMA Aside ==
  ASSUME GateInv, NEW t \in Turns, UNCHANGED <<gate, answer>>,
         rows' \in Seq(Rows), archives' \subseteq SUBSET Messages,
         turn' \in [Turns -> TurnType],
         \A u \in Turns : u # t => turn'[u] = turn[u],
         turn'[t].asked = turn[t].asked, turn'[t].auto = turn[t].auto,
         \/ turn'[t].at = turn[t].at
         \/ /\ ~Open(t) /\ ~Open(t)'
            /\ turn'[t].at \in {"idle", "user"} => turn[t].at = "idle"
  PROVE  GateInv'
<1>1. /\ pending' = pending /\ channel' = channel /\ ran' = ran
      /\ timedOut' = timedOut /\ answer' = answer
  BY DEF gate
<1>2. \A u \in Turns :
        /\ Open(u)' = Open(u) /\ Requested(u)' = Requested(u)
        /\ turn'[u].asked = turn[u].asked /\ turn'[u].auto = turn[u].auto
        /\ turn'[u].at \in {"wait", "allowed", "denied"} <=> turn[u].at \in {"wait", "allowed", "denied"}
        /\ \A at \in {"register", "wait", "allowed", "denied", "execute"} :
             turn'[u].at = at <=> turn[u].at = at
        /\ turn'[u].at \in {"idle", "user"} => turn[u].at \in {"idle", "user"}
  BY DEF Open, Requested
<1>3. TypeOK'
  <2>1. pending' = {u \in Turns : turn'[u].at \in {"wait", "allowed", "denied"}}
    BY <1>1, <1>2 DEF GateInv, TypeOK
  <2> QED BY <1>1, <2>1 DEF GateInv, TypeOK, TurnType
<1>4. \A u \in Turns : Accepted(u)' = Accepted(u)
  BY <1>1 DEF Accepted
<1>5. UnaskedInv'
  BY <1>1, <1>2 DEF GateInv, UnaskedInv
<1>6. PlaceInv'
  BY <1>1, <1>2 DEF GateInv, PlaceInv
<1>7. AnswerInv'
  BY <1>1, <1>2, <1>4 DEF GateInv, AnswerInv
<1> QED BY <1>3, <1>5, <1>6, <1>7 DEF GateInv

LEMMA SavesTypes ==
  ASSUME TypeOK, NEW t \in Turns, NEW role \in {"user", "assistant"}, Saves(t, role)
  PROVE  rows' \in Seq(Rows)
<1>1. CASE rows' = rows
  BY <1>1 DEF TypeOK
<1>2. CASE rows' = Append(rows, Row(<<t, role>>))
  BY <1>2, MessagesAreMembers, AppendProperties DEF TypeOK
<1> QED BY <1>1, <1>2 DEF Saves

LEMMA CompactTypes ==
  ASSUME TypeOK, NEW t \in Turns, Compact(t)
  PROVE  rows' \in Seq(Rows) /\ archives' \subseteq SUBSET Messages
<1>1. turn[t].history \in Seq(Rows) /\ turn[t].records \in Seq(Rows)
  BY DEF TypeOK
<1>2. CASE UNCHANGED history
  BY <1>2 DEF history, TypeOK
<1>3. CASE /\ Len(turn[t].history) > Preserve + 1
           /\ rows' = Replaced(Compressed(turn[t].history), turn[t].records)
           /\ archives' = archives \cup {Told(turn[t].records)}
  <2>1. rows' \in Seq(Rows)
    BY <1>1, <1>3, CompressedShape, ReplacedShape
  <2>2. archives' \subseteq SUBSET Messages
    BY <1>1, <1>3, StandingTypes DEF TypeOK
  <2> QED BY <2>1, <2>2
<1> QED BY <1>2, <1>3 DEF Compact

LEMMA BeginInv ==
  ASSUME GateInv, NEW t \in Turns, Begin(t)
  PROVE  GateInv'
<1>1. TypeOK /\ turn \in [Turns -> TurnType] /\ turn[t].at = "idle"
  BY DEF GateInv, TypeOK, TurnType, Begin
<1>2. rows' \in Seq(Rows) /\ archives' \subseteq SUBSET Messages /\ UNCHANGED <<gate, answer>>
  BY <1>1 DEF TypeOK, Begin, history
<1>3. /\ turn' \in [Turns -> TurnType]
      /\ turn'[t].at \in {"user", "done", "history", "assistant"}
      /\ turn'[t].asked = turn[t].asked /\ turn'[t].auto = turn[t].auto
      /\ \A u \in Turns : u # t => turn'[u] = turn[u]
  <2>1. CASE Goto(t, "user")
    BY <1>1, <2>1, GotoBecomes DEF Points
  <2>2. CASE End(t)
    BY <1>1, <2>2, EndBecomes
  <2>3. ASSUME NEW at \in {"history", "assistant"}, NEW kind \in {"compact", "review"},
               turn' = [turn EXCEPT ![t].at = at, ![t].kind = kind]
        PROVE  /\ turn' \in [Turns -> TurnType] /\ turn'[t].at = at
               /\ turn'[t].asked = turn[t].asked /\ turn'[t].auto = turn[t].auto
               /\ \A u \in Turns : u # t => turn'[u] = turn[u]
    <3> DEFINE r == [[turn[t] EXCEPT !.at = at] EXCEPT !.kind = kind]
    <3>1. turn' = [turn EXCEPT ![t] = r]
      BY <1>1, <2>3
    <3>2. r \in TurnType
      BY <1>1, TurnFields DEF Points
    <3>3. r.at = at /\ r.asked = turn[t].asked /\ r.auto = turn[t].auto
      BY <1>1 DEF TurnType
    <3> HIDE DEF r
    <3> QED BY <1>1, <3>1, <3>2, <3>3
  <2> QED BY <2>1, <2>2, <2>3 DEF Begin
<1> QED BY <1>1, <1>2, <1>3, Aside DEF Open

LEMMA SaveUserInv ==
  ASSUME GateInv, NEW t \in Turns, SaveUser(t)
  PROVE  GateInv'
<1>1. TypeOK /\ turn[t].at = "user" /\ Goto(t, "stream") /\ UNCHANGED <<gate, answer>>
  BY DEF GateInv, SaveUser
<1>2. rows' \in Seq(Rows) /\ archives' \subseteq SUBSET Messages
  BY <1>1, SavesTypes DEF SaveUser, TypeOK
<1>3. /\ turn' \in [Turns -> TurnType] /\ turn'[t].at = "stream"
      /\ turn'[t].asked = turn[t].asked /\ turn'[t].auto = turn[t].auto
      /\ \A u \in Turns : u # t => turn'[u] = turn[u]
  BY <1>1, GotoBecomes DEF Points
<1> QED BY <1>1, <1>2, <1>3, Aside DEF Open

LEMMA SaveAssistantInv ==
  ASSUME GateInv, NEW t \in Turns, SaveAssistant(t)
  PROVE  GateInv'
<1>1. TypeOK /\ turn[t].at = "assistant" /\ UNCHANGED <<gate, answer>>
  BY DEF GateInv, SaveAssistant
<1>2. rows' \in Seq(Rows) /\ archives' \subseteq SUBSET Messages
  BY <1>1, SavesTypes DEF SaveAssistant, TypeOK
<1>3. /\ turn' \in [Turns -> TurnType] /\ turn'[t].at \in {"history", "done"}
      /\ turn'[t].asked = turn[t].asked /\ turn'[t].auto = turn[t].auto
      /\ \A u \in Turns : u # t => turn'[u] = turn[u]
  <2>1. CASE Goto(t, "history")
    BY <1>1, <2>1, GotoBecomes DEF Points
  <2>2. CASE End(t)
    BY <1>1, <2>2, EndBecomes
  <2> QED BY <2>1, <2>2 DEF SaveAssistant
<1> QED BY <1>1, <1>2, <1>3, Aside DEF Open

LEMMA ReadInv ==
  ASSUME GateInv, NEW t \in Turns, LoadHistory(t) \/ ListMessages(t)
  PROVE  GateInv'
<1>1. /\ TypeOK /\ turn \in [Turns -> TurnType]
      /\ turn[t].at \in {"history", "records"} /\ UNCHANGED <<gate, answer>>
  BY DEF GateInv, TypeOK, TurnType, LoadHistory, ListMessages
<1>2. /\ rows \in Seq(Rows)
      /\ rows' \in Seq(Rows) /\ archives' \subseteq SUBSET Messages
  BY <1>1 DEF LoadHistory, ListMessages, TypeOK, history
<1>3. /\ turn' \in [Turns -> TurnType] /\ turn'[t].at \in {"records", "compact", "done"}
      /\ turn'[t].asked = turn[t].asked /\ turn'[t].auto = turn[t].auto
      /\ \A u \in Turns : u # t => turn'[u] = turn[u]
  <2>1. CASE End(t)
    BY <1>1, <2>1, EndBecomes
  <2>2. CASE turn' = [turn EXCEPT ![t].at = "records", ![t].history = rows]
    <3> DEFINE r == [[turn[t] EXCEPT !.at = "records"] EXCEPT !.history = rows]
    <3>1. turn' = [turn EXCEPT ![t] = r]
      BY <1>1, <2>2
    <3>2. r \in TurnType
      BY <1>1, <1>2, TurnFields DEF Points
    <3>3. r.at = "records" /\ r.asked = turn[t].asked /\ r.auto = turn[t].auto
      BY <1>1 DEF TurnType
    <3> HIDE DEF r
    <3> QED BY <1>1, <3>1, <3>2, <3>3
  <2>3. CASE turn' = [turn EXCEPT ![t].at = "compact", ![t].records = rows]
    <3> DEFINE r == [[turn[t] EXCEPT !.at = "compact"] EXCEPT !.records = rows]
    <3>1. turn' = [turn EXCEPT ![t] = r]
      BY <1>1, <2>3
    <3>2. r \in TurnType
      BY <1>1, <1>2, TurnFields DEF Points
    <3>3. r.at = "compact" /\ r.asked = turn[t].asked /\ r.auto = turn[t].auto
      BY <1>1 DEF TurnType
    <3> HIDE DEF r
    <3> QED BY <1>1, <3>1, <3>2, <3>3
  <2> QED BY <2>1, <2>2, <2>3 DEF LoadHistory, ListMessages
<1> QED BY <1>1, <1>2, <1>3, Aside DEF Open

LEMMA CompactInv ==
  ASSUME GateInv, NEW t \in Turns, Compact(t)
  PROVE  GateInv'
<1>1. TypeOK /\ turn[t].at = "compact" /\ End(t) /\ UNCHANGED <<gate, answer>>
  BY DEF GateInv, Compact
<1>2. rows' \in Seq(Rows) /\ archives' \subseteq SUBSET Messages
  BY <1>1, CompactTypes
<1>3. /\ turn' \in [Turns -> TurnType] /\ turn'[t].at = "done"
      /\ turn'[t].asked = turn[t].asked /\ turn'[t].auto = turn[t].auto
      /\ \A u \in Turns : u # t => turn'[u] = turn[u]
  BY <1>1, EndBecomes
<1> QED BY <1>1, <1>2, <1>3, Aside DEF Open

LEMMA LeaveInv ==
  ASSUME GateInv, NEW t \in Turns, Leave(t)
  PROVE  GateInv'
<1>1. TypeOK /\ turn \in [Turns -> TurnType] /\ UNCHANGED <<gate, answer>>
  BY DEF GateInv, TypeOK, TurnType, Leave
<1>2. rows' \in Seq(Rows) /\ archives' \subseteq SUBSET Messages
  BY <1>1 DEF Leave, TypeOK, history
<1>3. /\ turn' = [turn EXCEPT ![t] = [turn[t] EXCEPT !.gone = TRUE]]
      /\ [turn[t] EXCEPT !.gone = TRUE] \in TurnType
  BY <1>1, TurnFields DEF Leave
<1>4. /\ turn' \in [Turns -> TurnType] /\ turn'[t].at = turn[t].at
      /\ turn'[t].asked = turn[t].asked /\ turn'[t].auto = turn[t].auto
      /\ \A u \in Turns : u # t => turn'[u] = turn[u]
  BY <1>1, <1>3 DEF TurnType
<1> QED BY <1>1, <1>2, <1>4, Aside

LEMMA StreamInv ==
  ASSUME GateInv, NEW t \in Turns, Stream(t)
  PROVE  GateInv'
<1>1. /\ TypeOK /\ turn \in [Turns -> TurnType] /\ turn[t].at = "stream"
      /\ UNCHANGED <<history, gate, answer>>
  BY DEF GateInv, TypeOK, TurnType, Stream
<1>2. rows' \in Seq(Rows) /\ archives' \subseteq SUBSET Messages
  BY <1>1 DEF TypeOK, history
<1>3. CASE Goto(t, "assistant") \/ End(t)
  <2>1. /\ turn' \in [Turns -> TurnType] /\ turn'[t].at \in {"assistant", "done"}
        /\ turn'[t].asked = turn[t].asked /\ turn'[t].auto = turn[t].auto
        /\ \A u \in Turns : u # t => turn'[u] = turn[u]
    BY <1>1, <1>3, GotoBecomes, EndBecomes DEF Points
  <2> QED BY <1>1, <1>2, <2>1, Aside DEF Open
<1>4. ASSUME ~turn[t].asked,
             \/ turn' = [turn EXCEPT ![t].at = "execute", ![t].asked = TRUE, ![t].auto = TRUE]
             \/ turn' = [turn EXCEPT ![t].at = "register", ![t].asked = TRUE]
      PROVE  GateInv'
  <2>1. /\ pending' = pending /\ channel' = channel /\ ran' = ran
        /\ timedOut' = timedOut /\ answer' = answer
    BY <1>1 DEF gate
  <2>2. /\ turn' \in [Turns -> TurnType] /\ turn'[t].asked
        /\ \/ turn'[t].at = "execute" /\ turn'[t].auto
           \/ turn'[t].at = "register" /\ turn'[t].auto = turn[t].auto
        /\ \A u \in Turns : u # t => turn'[u] = turn[u]
    <3>1. CASE turn' = [turn EXCEPT ![t].at = "execute", ![t].asked = TRUE, ![t].auto = TRUE]
      <4> DEFINE r == [[[turn[t] EXCEPT !.at = "execute"] EXCEPT !.asked = TRUE] EXCEPT !.auto = TRUE]
      <4>1. turn' = [turn EXCEPT ![t] = r]
        BY <1>1, <3>1
      <4>2. r \in TurnType
        BY <1>1, TurnFields DEF Points
      <4>3. r.at = "execute" /\ r.asked /\ r.auto
        BY <1>1 DEF TurnType
      <4> HIDE DEF r
      <4> QED BY <1>1, <4>1, <4>2, <4>3
    <3>2. CASE turn' = [turn EXCEPT ![t].at = "register", ![t].asked = TRUE]
      <4> DEFINE r == [[turn[t] EXCEPT !.at = "register"] EXCEPT !.asked = TRUE]
      <4>1. turn' = [turn EXCEPT ![t] = r]
        BY <1>1, <3>2
      <4>2. r \in TurnType
        BY <1>1, TurnFields DEF Points
      <4>3. r.at = "register" /\ r.asked /\ r.auto = turn[t].auto
        BY <1>1 DEF TurnType
      <4> HIDE DEF r
      <4> QED BY <1>1, <4>1, <4>2, <4>3
    <3> QED BY <1>4, <3>1, <3>2
  <2>3. ~turn[t].auto /\ ~Requested(t) /\ ~Requested(t)'
    BY <1>1, <1>4, <2>2 DEF GateInv, PlaceInv, Requested
  <2>4. channel[t] = "empty" /\ \A a \in Answers : answer[a].at # "idle" => answer[a].of # t
    BY <2>3 DEF GateInv, UnaskedInv
  <2>5. TypeOK'
    <3>1. pending' = {u \in Turns : turn'[u].at \in {"wait", "allowed", "denied"}}
      BY <1>1, <2>1, <2>2 DEF TypeOK
    <3> QED BY <1>1, <1>2, <2>1, <2>2, <3>1 DEF TypeOK, TurnType
  <2>6. UnaskedInv'
    BY <2>1, <2>2, <2>3, <2>4 DEF GateInv, UnaskedInv, Requested
  <2>7. PlaceInv'
    BY <2>2, <2>3 DEF GateInv, PlaceInv, Open
  <2>8. \A u \in Turns : Accepted(u)' = Accepted(u)
    BY <2>1 DEF Accepted
  <2>9. AnswerInv'
    <3>1. t \notin ran
      <4>1. SUFFICES ASSUME t \in ran PROVE FALSE
        OBVIOUS
      <4>2. TRUE \in Accepted(t)
        BY <4>1, <2>3 DEF GateInv, AnswerInv
      <4> QED BY <4>2, <2>4 DEF Accepted
    <3> QED BY <2>1, <2>2, <2>3, <2>4, <2>8, <3>1 DEF GateInv, AnswerInv, Open, Requested
  <2> QED BY <2>5, <2>6, <2>7, <2>9 DEF GateInv
<1> QED BY <1>3, <1>4 DEF Stream

LEMMA RegisterInv ==
  ASSUME GateInv, NEW t \in Turns, Register(t)
  PROVE  GateInv'
<1>1. /\ TypeOK /\ turn[t].at = "register" /\ Goto(t, "wait") /\ pending' = pending \cup {t}
      /\ rows' = rows /\ archives' = archives /\ channel' = channel /\ ran' = ran
      /\ timedOut' = timedOut /\ answer' = answer
  BY DEF GateInv, Register, history
<1>2. /\ turn' \in [Turns -> TurnType] /\ turn'[t].at = "wait"
      /\ turn'[t].asked = turn[t].asked /\ turn'[t].auto = turn[t].auto
      /\ \A u \in Turns : u # t => turn'[u] = turn[u]
  BY <1>1, GotoBecomes DEF Points
<1>3. turn[t].asked /\ ~turn[t].auto /\ ~Requested(t)
  BY <1>1 DEF GateInv, PlaceInv, Requested, Open
<1>4. channel[t] = "empty" /\ \A a \in Answers : answer[a].at # "idle" => answer[a].of # t
  BY <1>3 DEF GateInv, UnaskedInv
<1>5. TypeOK'
  <2>1. pending' = {u \in Turns : turn'[u].at \in {"wait", "allowed", "denied"}}
    BY <1>1, <1>2 DEF TypeOK
  <2> QED BY <1>1, <1>2, <2>1 DEF TypeOK, TurnType
<1>6. UnaskedInv'
  BY <1>1, <1>2, <1>4 DEF GateInv, UnaskedInv, Requested
<1>7. PlaceInv'
  BY <1>2, <1>3 DEF GateInv, PlaceInv, Open
<1>8. \A u \in Turns : Accepted(u)' = Accepted(u)
  BY <1>1 DEF Accepted
<1>9. AnswerInv'
  BY <1>1, <1>2, <1>4, <1>8 DEF GateInv, AnswerInv, Open, Requested
<1> QED BY <1>5, <1>6, <1>7, <1>9 DEF GateInv

LEMMA ReceiveInv ==
  ASSUME GateInv, NEW t \in Turns, Receive(t)
  PROVE  GateInv'
<1> DEFINE to == IF channel[t] = "allow" THEN "allowed" ELSE "denied"
<1>1. /\ TypeOK /\ turn[t].at = "wait" /\ Goto(t, to) /\ pending' = pending
      /\ channel[t] \in {"allow", "deny"} /\ channel' = [channel EXCEPT ![t] = "empty"]
      /\ rows' = rows /\ archives' = archives /\ ran' = ran
      /\ timedOut' = timedOut /\ answer' = answer
  BY DEF GateInv, TypeOK, Receive, history
<1>2. /\ turn' \in [Turns -> TurnType] /\ turn'[t].at = to
      /\ turn'[t].asked = turn[t].asked /\ turn'[t].auto = turn[t].auto
      /\ \A u \in Turns : u # t => turn'[u] = turn[u]
  BY <1>1, GotoBecomes DEF Points
<1>3. turn[t].asked /\ ~turn[t].auto
  BY <1>1 DEF GateInv, PlaceInv, Open
<1>4. TypeOK'
  <2>1. pending' = {u \in Turns : turn'[u].at \in {"wait", "allowed", "denied"}}
    BY <1>1, <1>2 DEF TypeOK
  <2>2. channel' \in [Turns -> {"empty", "allow", "deny"}]
    BY <1>1 DEF TypeOK
  <2> HIDE DEF to
  <2> QED BY <1>1, <1>2, <2>1, <2>2 DEF TypeOK, TurnType
<1>5. /\ channel'[t] = "empty" /\ \A u \in Turns : u # t => channel'[u] = channel[u]
      /\ channel[t] = "allow" => turn'[t].at = "allowed"
      /\ channel[t] = "deny" => turn'[t].at = "denied"
      /\ turn'[t].at \in {"allowed", "denied"}
      /\ turn'[t].at = "allowed" => channel[t] = "allow"
      /\ turn'[t].at = "denied" => channel[t] = "deny"
  BY <1>1, <1>2 DEF TypeOK
<1>6. UnaskedInv'
  BY <1>1, <1>2, <1>3, <1>5 DEF GateInv, UnaskedInv, Requested
<1>7. PlaceInv'
  BY <1>1, <1>2, <1>3 DEF GateInv, PlaceInv, Open
<1>8. \A u \in Turns : Accepted(u)' = Accepted(u)
  BY <1>1 DEF Accepted
<1>9. AnswerInv'
  BY <1>1, <1>2, <1>3, <1>8, <1>5 DEF GateInv, AnswerInv, Open, Requested
<1> QED BY <1>4, <1>6, <1>7, <1>9 DEF GateInv

LEMMA TimeoutInv ==
  ASSUME GateInv, NEW t \in Turns, Timeout(t)
  PROVE  GateInv'
<1>1. /\ TypeOK /\ turn[t].at = "wait" /\ Goto(t, "denied") /\ pending' = pending
      /\ timedOut' = timedOut \cup {t} /\ channel' = channel
      /\ rows' = rows /\ archives' = archives /\ ran' = ran /\ answer' = answer
  BY DEF GateInv, Timeout, history
<1>2. /\ turn' \in [Turns -> TurnType] /\ turn'[t].at = "denied"
      /\ turn'[t].asked = turn[t].asked /\ turn'[t].auto = turn[t].auto
      /\ \A u \in Turns : u # t => turn'[u] = turn[u]
  BY <1>1, GotoBecomes DEF Points
<1>3. turn[t].asked /\ ~turn[t].auto
  BY <1>1 DEF GateInv, PlaceInv, Open
<1>4. TypeOK'
  <2>1. pending' = {u \in Turns : turn'[u].at \in {"wait", "allowed", "denied"}}
    BY <1>1, <1>2 DEF TypeOK
  <2> QED BY <1>1, <1>2, <2>1 DEF TypeOK, TurnType
<1>5. UnaskedInv'
  BY <1>1, <1>2, <1>3 DEF GateInv, UnaskedInv, Requested
<1>6. PlaceInv'
  BY <1>1, <1>2, <1>3 DEF GateInv, PlaceInv, Open
<1>7. \A u \in Turns : Accepted(u)' = Accepted(u)
  BY <1>1 DEF Accepted
<1>8. AnswerInv'
  BY <1>1, <1>2, <1>7 DEF GateInv, AnswerInv, Open, Requested
<1> QED BY <1>4, <1>5, <1>6, <1>8 DEF GateInv

LEMMA UnregisterInv ==
  ASSUME GateInv, NEW t \in Turns, Unregister(t)
  PROVE  GateInv'
<1> DEFINE to == IF turn[t].at = "allowed" THEN "execute" ELSE "stream"
<1>1. /\ TypeOK /\ turn[t].at \in {"allowed", "denied"} /\ Goto(t, to)
      /\ pending' = pending \ {t} /\ channel' = channel /\ timedOut' = timedOut
      /\ rows' = rows /\ archives' = archives /\ ran' = ran /\ answer' = answer
  BY DEF GateInv, Unregister, history
<1>2. /\ turn' \in [Turns -> TurnType] /\ turn'[t].at = to
      /\ turn'[t].asked = turn[t].asked /\ turn'[t].auto = turn[t].auto
      /\ \A u \in Turns : u # t => turn'[u] = turn[u]
  BY <1>1, GotoBecomes DEF Points
<1>3. turn[t].asked /\ ~turn[t].auto
  BY <1>1 DEF GateInv, PlaceInv, Open
<1>4. TypeOK'
  <2>1. pending' = {u \in Turns : turn'[u].at \in {"wait", "allowed", "denied"}}
    BY <1>1, <1>2 DEF TypeOK
  <2> HIDE DEF to
  <2> QED BY <1>1, <1>2, <2>1 DEF TypeOK, TurnType
<1>5. UnaskedInv'
  BY <1>1, <1>2, <1>3 DEF GateInv, UnaskedInv, Requested
<1>6. PlaceInv'
  BY <1>1, <1>2, <1>3 DEF GateInv, PlaceInv, Open
<1>7. \A u \in Turns : Accepted(u)' = Accepted(u)
  BY <1>1 DEF Accepted
<1>8. AnswerInv'
  BY <1>1, <1>2, <1>7 DEF GateInv, AnswerInv, Open, Requested
<1> QED BY <1>4, <1>5, <1>6, <1>8 DEF GateInv

LEMMA ExecuteInv ==
  ASSUME GateInv, NEW t \in Turns, Execute(t)
  PROVE  GateInv'
<1>1. /\ TypeOK /\ turn[t].at = "execute" /\ Goto(t, "stream") /\ ran' = ran \cup {t}
      /\ pending' = pending /\ channel' = channel /\ timedOut' = timedOut
      /\ rows' = rows /\ archives' = archives /\ answer' = answer
  BY DEF GateInv, Execute, history
<1>2. /\ turn' \in [Turns -> TurnType] /\ turn'[t].at = "stream"
      /\ turn'[t].asked = turn[t].asked /\ turn'[t].auto = turn[t].auto
      /\ \A u \in Turns : u # t => turn'[u] = turn[u]
  BY <1>1, GotoBecomes DEF Points
<1>3. turn[t].asked
  BY <1>1 DEF GateInv, PlaceInv, Open
<1>4. TypeOK'
  <2>1. pending' = {u \in Turns : turn'[u].at \in {"wait", "allowed", "denied"}}
    BY <1>1, <1>2 DEF TypeOK
  <2> QED BY <1>1, <1>2, <2>1 DEF TypeOK, TurnType
<1>5. UnaskedInv'
  BY <1>1, <1>2, <1>3 DEF GateInv, UnaskedInv, Requested
<1>6. PlaceInv'
  BY <1>1, <1>2, <1>3 DEF GateInv, PlaceInv, Open
<1>7. \A u \in Turns : Accepted(u)' = Accepted(u)
  BY <1>1 DEF Accepted
<1>8. AnswerInv'
  BY <1>1, <1>2, <1>7 DEF GateInv, AnswerInv, Open, Requested
<1> QED BY <1>4, <1>5, <1>6, <1>8 DEF GateInv

(* An answer is to a request that is, or was, pending; it goes into the    *)
(* channel and counts as accepted in one step.                             *)
LEMMA RespondInv ==
  ASSUME GateInv, NEW a \in Answers, Respond(a)
  PROVE  GateInv'
<1>1. /\ TypeOK /\ rows' = rows /\ archives' = archives /\ turn' = turn /\ pending' = pending
      /\ channel' = channel /\ ran' = ran /\ timedOut' = timedOut
      /\ answer \in [Answers -> [at : {"idle", "send", "accepted"},
                                 of : Turns \cup {"none"}, allowed : BOOLEAN]]
  BY DEF GateInv, TypeOK, Respond, history, gate
<1>2. PICK t \in Turns, allowed \in BOOLEAN :
        /\ t \in pending
        /\ answer' = [answer EXCEPT ![a] = [at |-> "send", of |-> t, allowed |-> allowed]]
  BY DEF Respond
<1>3. Requested(t)
  BY <1>1, <1>2 DEF GateInv, TypeOK, PlaceInv, Requested, Open
<1>4. answer[a].at = "idle" /\ answer'[a].at = "send"
      /\ answer'[a].of = t /\ \A b \in Answers : b # a => answer'[b] = answer[b]
  BY <1>1, <1>2 DEF Respond
<1>5. TypeOK'
  BY <1>1, <1>2 DEF TypeOK
<1>6. UnaskedInv'
  BY <1>1, <1>3, <1>4 DEF GateInv, UnaskedInv, Requested
<1>7. PlaceInv'
  BY <1>1 DEF GateInv, PlaceInv, Open
<1>8. \A u \in Turns : Accepted(u)' = Accepted(u)
  BY <1>4 DEF Accepted
<1>9. AnswerInv'
  BY <1>1, <1>8 DEF GateInv, AnswerInv, Open, Requested
<1> QED BY <1>5, <1>6, <1>7, <1>9 DEF GateInv

LEMMA SendInv ==
  ASSUME GateInv, NEW a \in Answers, Send(a)
  PROVE  GateInv'
<1> DEFINE t == answer[a].of
           put == IF answer[a].allowed THEN "allow" ELSE "deny"
<1>1. /\ TypeOK /\ rows' = rows /\ archives' = archives /\ turn' = turn /\ pending' = pending
      /\ ran' = ran /\ timedOut' = timedOut
      /\ answer \in [Answers -> [at : {"idle", "send", "accepted"},
                                 of : Turns \cup {"none"}, allowed : BOOLEAN]]
      /\ channel \in [Turns -> {"empty", "allow", "deny"}]
      /\ answer[a].at = "send" /\ channel' = [channel EXCEPT ![t] = put]
      /\ answer' = [answer EXCEPT ![a].at = "accepted"]
  BY DEF GateInv, TypeOK, Send, history
<1>2. /\ answer'[a].at = "accepted" /\ answer'[a].of = t /\ answer'[a].allowed = answer[a].allowed
      /\ \A b \in Answers : b # a => answer'[b] = answer[b]
  BY <1>1
<1>3. TypeOK'
  <2>1. channel' \in [Turns -> {"empty", "allow", "deny"}]
    BY <1>1
  <2>2. answer' \in [Answers -> [at : {"idle", "send", "accepted"},
                                 of : Turns \cup {"none"}, allowed : BOOLEAN]]
    BY <1>1
  <2> QED BY <1>1, <2>1, <2>2 DEF TypeOK
<1>4. \A u \in Turns : ~Requested(u) => u # t
  BY <1>1 DEF GateInv, UnaskedInv
<1>5. UnaskedInv'
  BY <1>1, <1>2, <1>4 DEF GateInv, UnaskedInv, Requested
<1>6. PlaceInv'
  BY <1>1 DEF GateInv, PlaceInv, Open
<1>7. \A u \in Turns : Accepted(u) \subseteq Accepted(u)'
  BY <1>1, <1>2 DEF Accepted
<1>8. t \in Turns => answer[a].allowed \in Accepted(t)'
  BY <1>2 DEF Accepted
<1>9. answer[a].allowed \in BOOLEAN
  BY <1>1
<1>10. AnswerInv'
  <2> SUFFICES ASSUME NEW u \in Turns
               PROVE  /\ channel'[u] = "allow" => TRUE \in Accepted(u)'
                      /\ channel'[u] = "deny" => FALSE \in Accepted(u)'
                      /\ turn[u].at = "allowed" => TRUE \in Accepted(u)'
                      /\ turn[u].at = "denied" => u \in timedOut \/ FALSE \in Accepted(u)'
                      /\ u \in ran \/ turn[u].at = "execute" => turn[u].auto \/ TRUE \in Accepted(u)'
                      /\ Requested(u) /\ ~Open(u) =>
                           u \in ran \/ u \in timedOut \/ FALSE \in Accepted(u)'
    BY <1>1 DEF AnswerInv, Open, Requested
  <2>1. CASE u = t
    <3>1. channel'[u] = put /\ answer[a].allowed \in Accepted(u)'
      BY <1>1, <1>8, <2>1
    <3>2. /\ put = "allow" => answer[a].allowed = TRUE
          /\ put = "deny" => answer[a].allowed = FALSE
      BY <1>9
    <3> HIDE DEF put, t
    <3> QED BY <1>7, <3>1, <3>2 DEF GateInv, AnswerInv
  <2>2. CASE u # t
    <3>1. channel'[u] = channel[u]
      BY <1>1, <2>2
    <3> QED BY <1>7, <3>1 DEF GateInv, AnswerInv
  <2> QED BY <2>1, <2>2
<1> QED BY <1>3, <1>5, <1>6, <1>10 DEF GateInv

-----------------------------------------------------------------------------
LEMMA GateInductive == GateInv /\ [Next]_vars => GateInv'
<1> SUFFICES ASSUME GateInv, [Next]_vars PROVE GateInv'
  OBVIOUS
<1>1. ASSUME NEW t \in Turns, Begin(t) \/ Step(t) \/ Timeout(t) \/ Leave(t)
      PROVE  GateInv'
  BY <1>1, BeginInv, SaveUserInv, StreamInv, RegisterInv, ReceiveInv, UnregisterInv, ExecuteInv,
     SaveAssistantInv, ReadInv, CompactInv, TimeoutInv, LeaveInv DEF Step
<1>2. ASSUME NEW a \in Answers, Respond(a) \/ Send(a)
      PROVE  GateInv'
  BY <1>2, RespondInv, SendInv
<1>3. CASE UNCHANGED vars
  <2>1. /\ rows' = rows /\ archives' = archives /\ turn' = turn /\ pending' = pending
        /\ channel' = channel /\ ran' = ran /\ timedOut' = timedOut /\ answer' = answer
    BY <1>3 DEF vars, history, gate
  <2>2. TypeOK'
    BY <2>1 DEF GateInv, TypeOK
  <2>3. UnaskedInv' /\ PlaceInv'
    BY <2>1 DEF GateInv, UnaskedInv, PlaceInv, Requested, Open
  <2>4. AnswerInv'
    BY <2>1 DEF GateInv, AnswerInv, Requested, Open, Accepted
  <2> QED BY <2>2, <2>3, <2>4 DEF GateInv
<1> QED BY <1>1, <1>2, <1>3 DEF Next

-----------------------------------------------------------------------------
(***************************************************************************)
(* The histories. A step leaves them as they are, appends a message that   *)
(* is saved for the first time, or replaces the history by what a          *)
(* compaction makes of what its turn has read.                             *)
(***************************************************************************)
LEMMA HistoriesAreTyped ==
  ASSUME TypeOK
  PROVE  /\ \A rs \in Histories : rs \in Seq(Rows)
         /\ \A rs \in Histories : DOMAIN rs = 1..Len(rs) /\ Len(rs) \in Nat
         /\ rows \in Histories
<1>1. \A rs \in Histories : rs \in Seq(Rows)
  BY DEF TypeOK, Histories
<1> QED BY <1>1, LenProperties DEF Histories

(* What a turn has read stays, is given up, or is the history of now. *)
LEMMA TurnReads ==
  ASSUME TypeOK, NEW t \in Turns, Begin(t) \/ Step(t) \/ Timeout(t) \/ Leave(t)
  PROVE  /\ \A u \in Turns : u # t => turn'[u] = turn[u]
         /\ turn'[t].history \in {turn[t].history, <<>>, rows}
         /\ turn'[t].records \in {turn[t].records, <<>>, rows}
         /\ turn'[t].at = "compact" =>
              /\ turn'[t].history = turn[t].history
              /\ \/ turn'[t].records = rows
                 \/ turn[t].at = "compact" /\ turn'[t].records = turn[t].records
         /\ turn'[t].at \in {"idle", "user"} => turn[t].at \in {"idle", "user"}
         /\ turn[t].at \in Over => turn'[t].at \in Over
<1>1. turn \in [Turns -> TurnType]
  BY DEF TypeOK, TurnType
<1>2. turn[t] \in TurnType
  BY <1>1
<1> USE DEF TurnType, Over
<1>3. CASE Begin(t)
  BY <1>1, <1>2, <1>3 DEF Begin, Goto, End
<1>4. CASE SaveUser(t) \/ Stream(t) \/ Register(t) \/ Receive(t)
  BY <1>1, <1>2, <1>4 DEF SaveUser, Stream, Register, Receive, Goto, End
<1>5. CASE Unregister(t) \/ Execute(t) \/ Timeout(t) \/ SaveAssistant(t)
  BY <1>1, <1>2, <1>5 DEF Unregister, Execute, Timeout, SaveAssistant, Goto, End
<1>6. CASE LoadHistory(t) \/ ListMessages(t) \/ Compact(t)
  BY <1>1, <1>2, <1>6 DEF LoadHistory, ListMessages, Compact, End
<1>7. CASE Leave(t)
  BY <1>1, <1>2, <1>7 DEF Leave
<1> QED BY <1>3, <1>4, <1>5, <1>6, <1>7 DEF Step

(* The two turns of a message are told apart by its first field, its role  *)
(* by the second.                                                          *)
LEMMA UnsavedAre ==
  ASSUME NEW t \in Turns
  PROVE  /\ <<t, "user">> \in Unsaved <=> turn[t].at \in {"idle", "user"}
         /\ <<t, "assistant">> \in Unsaved <=> turn[t].at \notin Over
BY DEF Unsaved

LEMMA HistoriesBecome ==
  ASSUME TypeOK, Next
  PROVE  Histories' \subseteq Histories \cup {<<>>, rows'} /\ Unsaved' \subseteq Unsaved
<1>1. CASE \E a \in Answers : Respond(a) \/ Send(a)
  <2>1. rows' = rows /\ turn' = turn
    BY <1>1 DEF Respond, Send, history
  <2> QED BY <2>1 DEF Histories, Unsaved
<1>2. ASSUME NEW t \in Turns, Begin(t) \/ Step(t) \/ Timeout(t) \/ Leave(t)
      PROVE  Histories' \subseteq Histories \cup {<<>>, rows'} /\ Unsaved' \subseteq Unsaved
  <2>1. /\ \A u \in Turns : u # t => turn'[u] = turn[u]
        /\ turn'[t].history \in {turn[t].history, <<>>, rows}
        /\ turn'[t].records \in {turn[t].records, <<>>, rows}
        /\ turn'[t].at \in {"idle", "user"} => turn[t].at \in {"idle", "user"}
        /\ turn[t].at \in Over => turn'[t].at \in Over
    BY <1>2, TurnReads
  <2>2. \A u \in Turns : turn'[u].history \in {turn[u].history, <<>>, rows}
                         /\ turn'[u].records \in {turn[u].records, <<>>, rows}
    BY <2>1
  <2>3. \A u \in Turns : /\ turn'[u].at \in {"idle", "user"} => turn[u].at \in {"idle", "user"}
                         /\ turn'[u].at \notin Over => turn[u].at \notin Over
    BY <2>1
  <2> QED BY <2>2, <2>3 DEF Histories, Unsaved
<1> QED BY <1>1, <1>2 DEF Next

(* The three kinds of steps. *)
Kept == rows' = rows /\ archives' = archives

Appended(m) ==
  /\ m \in Messages /\ m \in Unsaved /\ m \notin Unsaved'
  /\ rows' = Append(rows, Row(m)) /\ archives' = archives

Compacted(t) ==
  /\ turn[t].at = "compact" /\ turn'[t].at = "done"
  /\ Len(turn[t].history) > Preserve + 1
  /\ rows' = Replaced(Compressed(turn[t].history), turn[t].records)
  /\ archives' = archives \cup {Told(turn[t].records)}
  /\ \A u \in Turns : u # t => turn'[u] = turn[u]

LEMMA StepsAre ==
  ASSUME TypeOK, Next
  PROVE  Kept \/ (\E m \in Messages : Appended(m)) \/ (\E t \in Turns : Compacted(t))
<1>1. CASE \E a \in Answers : Respond(a) \/ Send(a)
  BY <1>1 DEF Respond, Send, history, Kept
<1>2. ASSUME NEW t \in Turns, Begin(t) \/ Step(t) \/ Timeout(t) \/ Leave(t)
      PROVE  Kept \/ (\E m \in Messages : Appended(m)) \/ Compacted(t)
  <2>0. turn \in [Turns -> TurnType] /\ turn[t] \in TurnType
    BY DEF TypeOK, TurnType
  <2>1. CASE Begin(t) \/ Stream(t) \/ Register(t) \/ Receive(t) \/ Timeout(t) \/ Unregister(t)
             \/ Execute(t) \/ LoadHistory(t) \/ ListMessages(t) \/ Leave(t)
    BY <2>1 DEF Begin, Stream, Register, Receive, Timeout, Unregister, Execute, LoadHistory,
       ListMessages, Leave, history, Kept
  <2>2. CASE SaveUser(t)
    <3>1. archives' = archives /\ turn[t].at = "user" /\ Saves(t, "user") /\ Goto(t, "stream")
      BY <2>2 DEF SaveUser
    <3>2. turn'[t].at = "stream"
      BY <2>0, <3>1 DEF Goto, TurnType
    <3>3. <<t, "user">> \in Messages
      BY DEF Messages
    <3>4. <<t, "user">> \in Unsaved /\ <<t, "user">> \notin Unsaved'
      BY <3>1, <3>2 DEF Unsaved
    <3> QED BY <3>1, <3>3, <3>4 DEF Saves, Appended, Kept
  <2>3. CASE SaveAssistant(t)
    <3>1. /\ archives' = archives /\ turn[t].at = "assistant"
          /\ rows' = rows \/ Saves(t, "assistant")
          /\ End(t) \/ Goto(t, "history")
      BY <2>3 DEF SaveAssistant
    <3>2. turn'[t].at \in Over
      BY <2>0, <3>1 DEF Goto, End, TurnType, Over
    <3>3. <<t, "assistant">> \in Messages
      BY DEF Messages
    <3>4. turn[t].at \notin Over
      BY <3>1 DEF Over
    <3>5. <<t, "assistant">> \in Unsaved /\ <<t, "assistant">> \notin Unsaved'
      BY <3>2, <3>4 DEF Unsaved
    <3> QED BY <3>1, <3>3, <3>5 DEF Saves, Appended, Kept
  <2>4. CASE Compact(t)
    <3>1. turn[t].at = "compact" /\ End(t)
      BY <2>4 DEF Compact
    <3>2. turn'[t].at = "done" /\ \A u \in Turns : u # t => turn'[u] = turn[u]
      BY <3>1, EndBecomes
    <3>3. Kept \/ /\ Len(turn[t].history) > Preserve + 1
                  /\ rows' = Replaced(Compressed(turn[t].history), turn[t].records)
                  /\ archives' = archives \cup {Told(turn[t].records)}
      BY <2>4 DEF Compact, history, Kept
    <3> QED BY <3>1, <3>2, <3>3 DEF Compacted
  <2> QED BY <1>2, <2>1, <2>2, <2>3, <2>4 DEF Step
<1> QED BY <1>1, <1>2 DEF Next

LEMMA SummaryFirst ==
  ASSUME NEW read \in Seq(Rows), Len(read) > Preserve + 1
  PROVE  Compressed(read)[1].id = Summary
<1> DEFINE split == Len(read) - Preserve
           head == <<[id |-> Summary, of |-> Standing(SubSeq(read, 1, split))]>>
           tail == SubSeq(read, split + 1, Len(read))
<1>1. Compressed(read) = head \o tail
  BY DEF Compressed
<1>2. Len(head) = 1 /\ head[1].id = Summary /\ DOMAIN head = 1..1
  OBVIOUS
<1>3. tail \in Seq(Rows)
  <2>1. /\ split + 1 \in Int /\ Len(read) \in Int
        /\ \A k \in (split + 1)..Len(read) : read[k] \in Rows
    BY ChatAssumption, LenProperties, ElementOfSeq
  <2> HIDE DEF split
  <2> QED BY <2>1, SubSeqProperties
<1>4. head \in Seq(Rows)
  <2>1. SubSeq(read, 1, split) \in Seq(Rows)
    <3>1. split \in Int /\ \A k \in 1..split : read[k] \in Rows
      BY ChatAssumption, LenProperties, ElementOfSeq
    <3> HIDE DEF split
    <3> QED BY <3>1, SubSeqProperties
  <2>2. [id |-> Summary, of |-> Standing(SubSeq(read, 1, split))] \in Rows
    BY <2>1, StandingTypes DEF Rows
  <2> HIDE DEF split
  <2> QED BY <2>2
<1>5. 1 \in 1..(Len(head) + Len(tail))
  BY <1>2, <1>3, LenProperties
<1> HIDE DEF head, tail
<1> QED BY <1>1, <1>2, <1>3, <1>4, <1>5, ConcatProperties

(* What a compaction makes of a history has nothing else in it, and takes  *)
(* its ids from the records, but for that of the summary.                  *)
LEMMA CompactionIsOf ==
  ASSUME NEW read \in Seq(Rows), NEW records \in Seq(Rows),
         Len(read) > Preserve + 1, Len(records) > Preserve
  PROVE  LET new == Replaced(Compressed(read), records)
         IN  /\ new \in Seq(Rows) /\ DOMAIN new = 1..(Preserve + 1)
             /\ Len(new) = Preserve + 1
             /\ Standing(new) \subseteq Standing(read)
             /\ \A i \in 1..(Preserve + 1) : new[i].id # Summary =>
                  \E j \in DOMAIN records : new[i].id = records[j].id
<1> DEFINE split == Len(read) - Preserve
           new == Replaced(Compressed(read), records)
<1>1. /\ Preserve \in Nat \ {0} /\ Len(read) \in Nat /\ split \in 1..Len(read)
      /\ DOMAIN read = 1..Len(read) /\ \A i \in 1..Len(read) : read[i] \in Rows
      /\ DOMAIN records = 1..Len(records) /\ Len(records) \in Nat
      /\ \A i \in 1..Len(records) : records[i] \in Rows
  BY ChatAssumption, LenProperties, ElementOfSeq
<1>2. /\ Compressed(read) \in Seq(Rows) /\ Len(Compressed(read)) = Preserve + 1
      /\ Compressed(read)[1].of = Standing(SubSeq(read, 1, split))
      /\ \A i \in 2..(Preserve + 1) : Compressed(read)[i] = read[split + i - 1]
  BY CompressedShape
<1>3. DOMAIN Compressed(read) = 1..(Preserve + 1)
  BY <1>2, LenProperties
<1>4. /\ new \in Seq(Rows) /\ DOMAIN new = 1..(Preserve + 1)
      /\ \A i \in 1..(Preserve + 1) : new[i].of = Compressed(read)[i].of
  BY <1>2, <1>3, ReplacedShape
<1>5. Len(new) = Preserve + 1
  <2>1. Len(new) \in Nat /\ DOMAIN new = 1..Len(new)
    BY <1>4, LenProperties
  <2> HIDE DEF new
  <2> QED BY <1>1, <1>4, <2>1
<1>6. Standing(SubSeq(read, 1, split)) \subseteq Standing(read)
  <2>1. /\ DOMAIN SubSeq(read, 1, split) = 1..split
        /\ \A i \in 1..split : SubSeq(read, 1, split)[i] = read[i]
    <3>1. /\ split \in Int /\ split \in Nat /\ 1 <= split /\ split - 1 + 1 = split
          /\ \A i \in 1..split : read[i] \in Rows /\ 1 + i - 1 = i
      BY <1>1
    <3> HIDE DEF split
    <3>2. /\ SubSeq(read, 1, split) \in Seq(Rows)
          /\ Len(SubSeq(read, 1, split)) = split - 1 + 1
          /\ \A i \in 1..(split - 1 + 1) : SubSeq(read, 1, split)[i] = read[1 + i - 1]
      BY <3>1, SubSeqProperties
    <3> QED BY <3>1, <3>2, LenProperties
  <2>2. \A i \in 1..split : i \in DOMAIN read
    BY <1>1
  <2> HIDE DEF split
  <2> QED BY <2>1, <2>2 DEF Standing
<1>7. \A i \in 1..(Preserve + 1) : new[i].of \subseteq Standing(read)
  <2> SUFFICES ASSUME NEW i \in 1..(Preserve + 1) PROVE new[i].of \subseteq Standing(read)
    OBVIOUS
  <2>1. CASE i = 1
    BY <1>2, <1>4, <1>6, <2>1
  <2>2. CASE i # 1
    <3>1. i \in 2..(Preserve + 1) /\ split + i - 1 \in DOMAIN read
      BY <1>1, <2>2
    <3>2. new[i].of = read[split + i - 1].of
      BY <1>2, <1>4, <3>1
    <3> HIDE DEF split, new
    <3> QED BY <3>1, <3>2 DEF Standing
  <2> QED BY <2>1, <2>2
<1>8. ASSUME NEW i \in 1..(Preserve + 1), new[i].id # Summary
      PROVE  \E j \in DOMAIN records : new[i].id = records[j].id
  <2>1. i # 1
    <3>1. Compressed(read)[1].id = Summary
      BY SummaryFirst
    <3> QED BY <1>3, <1>8, <3>1, <1>1 DEF Replaced
  <2>2. Len(records) - Preserve + i - 1 \in DOMAIN records
    BY <1>1, <2>1
  <2>3. ~(i = 1 \/ Len(records) <= Preserve)
    BY <1>1, <2>1
  <2>4. Compressed(read)[i] \in Rows
    BY <1>2, <1>3, ElementOfSeq
  <2>5. new[i].id = records[Len(records) - Preserve + i - 1].id
    BY <1>3, <2>3, <2>4 DEF Replaced, Rows
  <2> QED BY <2>2, <2>5
<1> QED BY <1>4, <1>5, <1>7, <1>8 DEF Standing

LEMMA SummarizedStands ==
  ASSUME NEW rs
  PROVE  Summarized(rs) \subseteq Standing(rs)
BY DEF Summarized, Standing

LEMMA EmptyHistory == DOMAIN <<>> = {} /\ Standing(<<>>) = {} /\ Summarized(<<>>) = {}
BY DEF Standing, Summarized

LEMMA KeptHistory ==
  ASSUME TypeOK, HistoryInv, Next, Kept
  PROVE  FreshInv' /\ IdsInv' /\ SummaryInv'
<1>1. rows' = rows /\ archives' = archives /\ Unsaved' \subseteq Unsaved
      /\ \A rs \in Histories' : rs \in Histories \/ rs = <<>>
  BY HistoriesBecome, HistoriesAreTyped DEF Kept
<1>2. FreshInv'
  BY <1>1, EmptyHistory DEF HistoryInv, FreshInv
<1>3. IdsInv'
  BY <1>1, EmptyHistory DEF HistoryInv, IdsInv, Archived
<1>4. SummaryInv'
  BY <1>1, EmptyHistory DEF HistoryInv, SummaryInv, Archived
<1> QED BY <1>2, <1>3, <1>4

LEMMA AppendedHistory ==
  ASSUME TypeOK, HistoryInv, Next, NEW m \in Messages, Appended(m)
  PROVE  FreshInv' /\ IdsInv' /\ SummaryInv'
<1>1. /\ archives' = archives /\ Unsaved' \subseteq Unsaved
      /\ m \in Unsaved /\ m \notin Unsaved'
      /\ \A rs \in Histories' : rs \in Histories \/ rs = <<>> \/ rs = rows'
  BY HistoriesBecome DEF Appended
<1>2. Row(m) \in Rows /\ Row(m).of = {m} /\ Row(m).id = m /\ m # Summary
  BY ChatAssumption DEF Row, Rows
<1>3. /\ DOMAIN rows = 1..Len(rows) /\ Len(rows) \in Nat
      /\ DOMAIN rows' = 1..(Len(rows) + 1)
      /\ \A i \in 1..Len(rows) : rows'[i] = rows[i]
      /\ rows'[Len(rows) + 1] = Row(m)
  <2>1. rows \in Seq(Rows) /\ rows' = Append(rows, Row(m))
    BY DEF TypeOK, Appended
  <2> QED BY <1>2, <2>1, AppendProperties, LenProperties
<1>4. ASSUME NEW i \in DOMAIN rows'
      PROVE  rows'[i] = Row(m) \/ (i \in DOMAIN rows /\ rows'[i] = rows[i])
  <2>1. i = Len(rows) + 1 \/ i \in 1..Len(rows)
    BY <1>3
  <2> QED BY <1>3, <2>1
<1>5. Standing(rows') \subseteq Standing(rows) \cup {m}
  BY <1>2, <1>4 DEF Standing
<1>6. Summarized(rows') \subseteq Summarized(rows)
  BY <1>2, <1>4 DEF Summarized
<1>7. Range(rows') \subseteq Range(rows) \cup {Row(m)}
  BY <1>4 DEF Range
<1>8. rows \in Histories
  BY DEF Histories
<1>9. FreshInv'
  BY <1>1, <1>5, <1>8, EmptyHistory DEF HistoryInv, FreshInv
<1>10. IdsInv'
  <2> SUFFICES ASSUME NEW rs \in Histories', NEW i \in DOMAIN rs,
                      rs[i].id # Summary, rs[i] # Row(rs[i].id)
               PROVE  rs[i].id \in Archived'
    BY DEF IdsInv
  <2>1. CASE rs \in Histories
    BY <1>1, <2>1 DEF HistoryInv, IdsInv, Archived
  <2>2. CASE rs = rows'
    BY <1>1, <1>2, <1>4, <1>8, <2>2 DEF HistoryInv, IdsInv, Archived
  <2> QED BY <1>1, <2>1, <2>2, EmptyHistory
<1>11. SummaryInv'
  <2> SUFFICES ASSUME NEW rs \in Histories', NEW n \in Messages,
                      Row(n) \in Range(rows'), n \in Summarized(rs)
               PROVE  n \in Archived'
    BY DEF SummaryInv
  <2>1. PICK old \in Histories : n \in Summarized(old)
    BY <1>1, <1>6, <1>8, EmptyHistory
  <2>2. n # m
    BY <1>1, <2>1, SummarizedStands DEF HistoryInv, FreshInv
  <2>3. Row(n) # Row(m)
    BY <2>2 DEF Row
  <2>4. Row(n) \in Range(rows)
    BY <1>7, <2>3
  <2> QED BY <1>1, <2>1, <2>4 DEF HistoryInv, SummaryInv, Archived
<1> QED BY <1>9, <1>10, <1>11

(* Every id that is left after a compaction is that of an archived message.*)
LEMMA CompactedIds ==
  ASSUME TypeOK, HistoryInv, NEW t \in Turns, Compacted(t)
  PROVE  /\ rows' \in Seq(Rows) /\ DOMAIN rows' = 1..(Preserve + 1) /\ Len(rows') = Preserve + 1
         /\ Standing(rows') \subseteq Standing(turn[t].history)
         /\ \A i \in DOMAIN rows' : rows'[i].id # Summary => rows'[i].id \in Archived'
         /\ Archived \subseteq Archived'
<1> DEFINE read == turn[t].history
           records == turn[t].records
<1>1. read \in Seq(Rows) /\ records \in Seq(Rows) /\ records \in Histories
  BY DEF TypeOK, Histories
<1>2. /\ Len(read) > Preserve + 1 /\ rows' = Replaced(Compressed(read), records)
      /\ archives' = archives \cup {Told(records)}
  BY DEF Compacted
<1>3. Len(records) > Preserve
  <2>1. Len(read) > Preserve
    <3>1. Len(read) \in Nat /\ Preserve \in Nat
      BY <1>1, LenProperties, ChatAssumption
    <3> HIDE DEF read
    <3> QED BY <1>2, <3>1
  <2> QED BY <2>1 DEF HistoryInv, LengthInv, Compacted
<1>4. Archived' = Archived \cup Told(records)
  BY <1>2 DEF Archived
<1> HIDE DEF read, records
<1>5. /\ rows' \in Seq(Rows) /\ DOMAIN rows' = 1..(Preserve + 1) /\ Len(rows') = Preserve + 1
      /\ Standing(rows') \subseteq Standing(read)
      /\ \A i \in 1..(Preserve + 1) : rows'[i].id # Summary =>
           \E j \in DOMAIN records : rows'[i].id = records[j].id
  BY <1>1, <1>2, <1>3, CompactionIsOf
<1>6. ASSUME NEW j \in DOMAIN records, records[j].id # Summary
      PROVE  records[j].id \in Archived'
  <2>1. CASE records[j] = Row(records[j].id)
    <3>1. records[j].id \in records[j].of
      BY <2>1 DEF Row
    <3> QED BY <1>4, <1>6, <3>1 DEF Told
  <2>2. CASE records[j] # Row(records[j].id)
    BY <1>1, <1>4, <1>6, <2>2 DEF HistoryInv, IdsInv
  <2> QED BY <2>1, <2>2
<1> QED BY <1>4, <1>5, <1>6 DEF read

LEMMA CompactedHistory ==
  ASSUME TypeOK, HistoryInv, Next, NEW t \in Turns, Compacted(t)
  PROVE  FreshInv' /\ IdsInv' /\ SummaryInv'
<1>1. /\ Unsaved' \subseteq Unsaved
      /\ \A rs \in Histories' : rs \in Histories \/ rs = <<>> \/ rs = rows'
  BY HistoriesBecome
<1>2. /\ Standing(rows') \subseteq Standing(turn[t].history)
      /\ \A i \in DOMAIN rows' : rows'[i].id # Summary => rows'[i].id \in Archived'
      /\ Archived \subseteq Archived'
  BY CompactedIds
<1>3. turn[t].history \in Histories
  BY DEF Histories
<1>4. FreshInv'
  BY <1>1, <1>2, <1>3, EmptyHistory DEF HistoryInv, FreshInv
<1>5. IdsInv'
  BY <1>1, <1>2, EmptyHistory DEF HistoryInv, IdsInv
<1>6. SummaryInv'
  <2> SUFFICES ASSUME NEW m \in Messages, Row(m) \in Range(rows') PROVE m \in Archived'
    BY DEF SummaryInv
  <2>1. PICK i \in DOMAIN rows' : rows'[i] = Row(m)
    BY DEF Range
  <2>2. rows'[i].id = m /\ m # Summary
    BY <2>1, ChatAssumption DEF Row
  <2> QED BY <1>2, <2>2
<1> QED BY <1>4, <1>5, <1>6

(* The history never gets too short again for what a turn has read of it.  *)
LEMMA LengthStep ==
  ASSUME TypeOK, HistoryInv, Next
  PROVE  LengthInv'
<1>1. /\ Preserve \in Nat /\ Len(rows) \in Nat
      /\ \A u \in Turns : Len(turn[u].history) \in Nat /\ Len(turn[u].records) \in Nat
  BY ChatAssumption, LenProperties DEF TypeOK
<1>2. Len(<<>>) = 0
  OBVIOUS
<1>3. Len(rows) > Preserve => Len(rows') > Preserve
  <2>1. CASE Kept
    BY <2>1 DEF Kept
  <2>2. CASE \E m \in Messages : Appended(m)
    <3>1. PICK m \in Messages : rows' = Append(rows, Row(m))
      BY <2>2 DEF Appended
    <3>2. Row(m) \in Rows /\ rows \in Seq(Rows)
      BY DEF Row, Rows, TypeOK
    <3>3. Len(rows') = Len(rows) + 1
      BY <3>1, <3>2, AppendProperties
    <3> QED BY <1>1, <3>3
  <2>3. CASE \E t \in Turns : Compacted(t)
    <3>1. Len(rows') = Preserve + 1
      BY <2>3, CompactedIds
    <3> QED BY <1>1, <3>1
  <2> QED BY <2>1, <2>2, <2>3, StepsAre
<1>4. ASSUME NEW t \in Turns, NEW u \in Turns, Begin(t) \/ Step(t) \/ Timeout(t) \/ Leave(t),
             Len(turn'[u].history) > Preserve
      PROVE  /\ Len(rows') > Preserve
             /\ turn'[u].at = "compact" => Len(turn'[u].records) > Preserve
  <2>1. CASE u # t
    BY <1>3, <1>4, <2>1, TurnReads DEF HistoryInv, LengthInv
  <2>2. CASE u = t
    <3>1. turn'[u].history # <<>>
      BY <1>1, <1>2, <1>4
    <3>2. turn'[u].history = turn[u].history \/ turn'[u].history = rows
      BY <1>4, <2>2, <3>1, TurnReads
    <3>3. Len(rows) > Preserve
      BY <1>4, <3>2 DEF HistoryInv, LengthInv
    <3>4. ASSUME turn'[u].at = "compact"
          PROVE  Len(turn'[u].records) > Preserve
      <4>1. /\ turn'[u].history = turn[u].history
            /\ \/ turn'[u].records = rows
               \/ turn[u].at = "compact" /\ turn'[u].records = turn[u].records
        BY <1>4, <2>2, <3>4, TurnReads
      <4> QED BY <1>4, <3>3, <4>1 DEF HistoryInv, LengthInv
    <3> QED BY <1>3, <3>3, <3>4
  <2> QED BY <2>1, <2>2
<1>5. CASE \E a \in Answers : Respond(a) \/ Send(a)
  <2>1. rows' = rows /\ turn' = turn
    BY <1>5 DEF Respond, Send, history
  <2> QED BY <2>1 DEF HistoryInv, LengthInv
<1> QED BY <1>4, <1>5 DEF Next, LengthInv

LEMMA HistoryInductive == TypeOK /\ HistoryInv /\ [Next]_vars => HistoryInv'
<1> SUFFICES ASSUME TypeOK, HistoryInv, [Next]_vars PROVE HistoryInv'
  OBVIOUS
<1>1. CASE Next
  <2>1. FreshInv' /\ IdsInv' /\ SummaryInv'
    BY <1>1, StepsAre, KeptHistory, AppendedHistory, CompactedHistory
  <2> QED BY <1>1, <2>1, LengthStep DEF HistoryInv
<1>2. CASE UNCHANGED vars
  <2>1. rows' = rows /\ archives' = archives /\ turn' = turn
    BY <1>2 DEF vars, history
  <2> QED BY <2>1 DEF HistoryInv, FreshInv, IdsInv, SummaryInv, LengthInv, Histories, Unsaved,
       Archived
<1> QED BY <1>1, <1>2

LEMMA InitHistory == Init => HistoryInv
<1> SUFFICES ASSUME Init PROVE HistoryInv
  OBVIOUS
<1>1. \A rs \in Histories : rs = rows \/ rs = <<>>
  BY DEF Init, Histories
<1>2. DOMAIN rows = DOMAIN Old /\ \A i \in DOMAIN rows : rows[i] = Row(Old[i])
  BY DEF Init
<1>3. \A i \in DOMAIN rows : /\ rows[i].id = Old[i] /\ rows[i].of = {Old[i]}
                             /\ Old[i] \in Range(Old) /\ Old[i] # Summary
  BY <1>2, ChatAssumption DEF Row, Range, Messages
<1>4. FreshInv
  <2>1. Standing(rows) \subseteq Range(Old)
    BY <1>3 DEF Standing
  <2>2. Unsaved \subseteq Turns \X {"user", "assistant"}
    BY DEF Unsaved
  <2> QED BY <1>1, <2>1, <2>2, EmptyHistory, ChatAssumption DEF FreshInv
<1>5. IdsInv
  BY <1>1, <1>2, <1>3, EmptyHistory DEF IdsInv
<1>6. SummaryInv
  <2>1. Summarized(rows) = {}
    BY <1>3 DEF Summarized
  <2> QED BY <1>1, <2>1, EmptyHistory DEF SummaryInv
<1>7. LengthInv
  <2>1. \A t \in Turns : turn[t].history = <<>>
    BY DEF Init
  <2>2. Len(<<>>) = 0 /\ Preserve \in Nat
    BY ChatAssumption
  <2> QED BY <2>1, <2>2 DEF LengthInv
<1> QED BY <1>4, <1>5, <1>6, <1>7 DEF HistoryInv

(* The step that ends a compaction saves no message. *)
LEMMA EndsWithoutSaving ==
  ASSUME TypeOK, Next, NEW t \in Turns, turn[t].at = "compact", turn'[t].at = "done",
         NEW m \in Messages, Appended(m)
  PROVE  FALSE
<1>1. m \in Unsaved /\ m \notin Unsaved'
  BY DEF Appended
<1>2. ~\E a \in Answers : Respond(a) \/ Send(a)
  <2>1. ASSUME turn' = turn PROVE FALSE
    BY <1>1, <2>1 DEF Unsaved
  <2> QED BY <2>1 DEF Respond, Send
<1>3. PICK u \in Turns : Begin(u) \/ Step(u) \/ Timeout(u) \/ Leave(u)
  BY <1>2 DEF Next
<1>4. u = t
  BY <1>3, TurnReads
<1>5. \A v \in Turns : v # t => turn'[v] = turn[v]
  BY <1>3, <1>4, TurnReads
<1> QED BY <1>1, <1>5 DEF Unsaved, Over

-----------------------------------------------------------------------------
LEMMA Inductive == IInv /\ [Next]_vars => IInv'
<1>1. GateInv => TypeOK
  BY DEF GateInv
<1> QED BY <1>1, GateInductive, HistoryInductive DEF IInv

LEMMA Invariance == Spec => []IInv
<1>1. Init => IInv
  BY InitGate, InitHistory DEF IInv
<1> QED BY <1>1, Inductive, PTL DEF Spec

(* The types of the rows, the archives, the turns and the answers, and     *)
(* that a request is pending exactly between Wait's registration and its   *)
(* removal.                                                                *)
THEOREM TypeCorrect == Spec => []TypeOK
<1>1. IInv => TypeOK
  BY DEF IInv, GateInv
<1> QED BY <1>1, Invariance, PTL

(* handleChat and permissionGate: no tool that needs a consent runs        *)
(* without one that was accepted, and a consent that was accepted is not   *)
(* lost, whatever the order of the answers, the timer and the turn.        *)
THEOREM ConsentIsDecisive == Spec => []ConsentDecides
<1>1. GateInv => ConsentDecides
  <2> SUFFICES ASSUME GateInv, NEW t \in Turns
               PROVE  /\ t \in ran => turn[t].auto \/ TRUE \in Accepted(t)
                      /\ Accepted(t) = {TRUE} /\ t \notin timedOut =>
                           t \in ran \/ turn[t].at \in {"wait", "allowed", "execute"}
    BY DEF ConsentDecides
  <2>1. t \in ran => turn[t].auto \/ TRUE \in Accepted(t)
    BY DEF GateInv, AnswerInv
  <2>2. ASSUME Accepted(t) = {TRUE}, t \notin timedOut
        PROVE  t \in ran \/ turn[t].at \in {"wait", "allowed", "execute"}
    <3>1. PICK a \in Answers : answer[a].at = "accepted" /\ answer[a].of = t
      BY <2>2 DEF Accepted
    <3>2. Requested(t)
      BY <3>1 DEF GateInv, UnaskedInv
    <3>3. FALSE \notin Accepted(t)
      BY <2>2
    <3> QED BY <2>2, <3>2, <3>3 DEF GateInv, AnswerInv, Open, Requested
  <2> QED BY <2>1, <2>2
<1>2. IInv => GateInv
  BY DEF IInv
<1> QED BY <1>1, <1>2, Invariance, PTL

(* An id that named its message when it was read goes on to do so, if      *)
(* nothing was saved between the two reads.                                *)
LEMMA IdsGoOn ==
  ASSUME NEW read \in Seq(Rows), Len(read) > Preserve + 1, IdsMatch(read)
  PROVE  IdsMatch(Replaced(Compressed(read), read))
<1> DEFINE split == Len(read) - Preserve
           new == Replaced(Compressed(read), read)
<1>1. /\ Preserve \in Nat \ {0} /\ Len(read) \in Nat /\ split \in 1..Len(read)
      /\ DOMAIN read = 1..Len(read) /\ \A i \in 1..Len(read) : read[i] \in Rows
      /\ Len(read) > Preserve
  BY ChatAssumption, LenProperties, ElementOfSeq
<1>2. DOMAIN new = 1..(Preserve + 1)
  BY <1>1, CompactionIsOf
<1>3. ASSUME NEW i \in DOMAIN new, new[i].id # Summary
      PROVE  new[i] = Row(new[i].id)
  <2>1. \A k \in 2..(Preserve + 1) : Compressed(read)[k] = read[split + k - 1]
    BY CompressedShape
  <2>2. Compressed(read) \in Seq(Rows) /\ DOMAIN Compressed(read) = 1..(Preserve + 1)
    BY CompressedShape, LenProperties
  <2>3. i # 1
    <3>1. Compressed(read)[1].id = Summary
      BY SummaryFirst
    <3> QED BY <1>1, <1>2, <1>3, <2>2, <3>1 DEF Replaced
  <2>4. i \in 2..(Preserve + 1) /\ split + i - 1 \in DOMAIN read /\ ~(Len(read) <= Preserve)
    BY <1>1, <1>2, <2>3
  <2>5. read[split + i - 1] \in Rows
    BY <1>1, <2>4
  <2>6. new[i] = [read[split + i - 1] EXCEPT !.id = read[split + i - 1].id]
    BY <2>1, <2>2, <2>3, <2>4 DEF Replaced
  <2>7. new[i] = read[split + i - 1]
    <3> HIDE DEF split, new
    <3> QED BY <2>5, <2>6 DEF Rows
  <2> HIDE DEF split, new
  <2> QED BY <1>3, <2>4, <2>7 DEF IdsMatch
<1> HIDE DEF new
<1>4. IdsMatch(new)
  BY <1>3 DEF IdsMatch
<1> QED BY <1>4 DEF new

(* compactHistoryWithArchive: whatever other turns did between the reads   *)
(* and the transaction, no message that was read is lost: it is behind a   *)
(* row, and word for word in the history or in an archive.                 *)
THEOREM CompactionsKeep == Spec => CompactionKeeps
<1> DEFINE Keeps(t) ==
             /\ Standing(turn[t].history) \subseteq Standing(rows')
             /\ \A m \in Verbatim : m \in Verbatim' \/ m \notin Standing(turn[t].records)
             /\ IdsMatch(turn[t].history) /\ turn[t].history = turn[t].records =>
                  IdsMatch(rows')
<1>1. ASSUME IInv, Next, NEW t \in Turns,
             turn[t].at = "compact", turn'[t].at = "done", rows' # rows
      PROVE  Keeps(t)
  <2>1. TypeOK /\ HistoryInv
    BY <1>1 DEF IInv, GateInv
  <2>2. turn[t].history \in Seq(Rows) /\ turn[t].records \in Seq(Rows)
    BY <2>1 DEF TypeOK
  <2>3. Compacted(t)
    <3>1. ~Kept
      BY <1>1 DEF Kept
    <3>2. ASSUME NEW m \in Messages, Appended(m) PROVE FALSE
      BY <1>1, <2>1, <3>2, EndsWithoutSaving
    <3>3. ASSUME NEW u \in Turns, u # t PROVE ~Compacted(u)
      BY <1>1, <3>3 DEF Compacted
    <3> QED BY <1>1, <2>1, <3>1, <3>2, <3>3, StepsAre
  <2>4. /\ Len(turn[t].history) > Preserve + 1
        /\ rows' = Replaced(Compressed(turn[t].history), turn[t].records)
        /\ archives' = archives \cup {Told(turn[t].records)}
    BY <2>3 DEF Compacted
  <2>5. Standing(turn[t].history) \subseteq Standing(rows')
    BY <2>2, <2>4, CompactionStands
  <2>6. ASSUME NEW m \in Verbatim, m \in Standing(turn[t].records)
        PROVE  m \in Verbatim'
    <3>1. Archived' = Archived \cup Told(turn[t].records)
      BY <2>4 DEF Archived
    <3>2. CASE m \in Archived
      BY <3>1, <3>2 DEF Verbatim, Archived
    <3>3. CASE m \notin Archived
      <4>1. m \in Messages /\ Row(m) \in Range(rows)
        BY <3>3 DEF Verbatim, Archived
      <4>2. m \notin Summarized(turn[t].records)
        BY <2>1, <3>3, <4>1 DEF HistoryInv, SummaryInv, Histories
      <4>3. m \in Told(turn[t].records)
        BY <2>6, <4>2 DEF Standing, Summarized, Told
      <4> QED BY <3>1, <4>3 DEF Verbatim, Archived
    <3> QED BY <3>2, <3>3
  <2>7. ASSUME IdsMatch(turn[t].history), turn[t].history = turn[t].records
        PROVE  IdsMatch(rows')
    BY <2>2, <2>4, <2>7, IdsGoOn
  <2> QED BY <2>5, <2>6, <2>7
<1>2. IInv /\ [Next]_vars =>
        [\A t \in Turns : turn[t].at = "compact" /\ turn'[t].at = "done" /\ rows' # rows =>
           Keeps(t)]_vars
  BY <1>1
<1> QED BY <1>2, Invariance, PTL DEF Spec, CompactionKeeps

=============================================================================

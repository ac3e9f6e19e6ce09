-------------------------- MODULE PacketQueueProofs --------------------------
(***************************************************************************)
(* Proofs about PacketQueue, for every number of interpreters, every set   *)
(* of packet sizes and every bound on the number of packets.               *)
(***************************************************************************)
EXTENDS PacketQueue, SequenceTheorems, TLAPS

-----------------------------------------------------------------------------
(***************************************************************************)
(* Types                                                                   *)
(***************************************************************************)

\* The packets made of an input buffer are a sequence of packets.
LEMMA InputIsSeq ==
    ASSUME NEW sizes \in BoundedSeq(ClientSizes, MaxBuffer), NEW first \in Nat
    PROVE  LET new == [i \in 1 .. Len(sizes) |->
                          [tok |-> first + i, by |-> Client, size |-> sizes[i]]]
           IN  /\ Len(sizes) \in Nat
               /\ new \in Seq(Packet)
               /\ Len(new) = Len(sizes)
<1>1. PICK n \in 0 .. MaxBuffer : sizes \in [1 .. n -> ClientSizes]
  BY SizesAssumption DEF BoundedSeq, SeqOf
<1>2. n \in Nat /\ sizes \in Seq(ClientSizes)
  BY <1>1, SizesAssumption, SeqDef
<1>3. Len(sizes) = n
  BY <1>1, <1>2, LenProperties
<1>4. \A i \in 1 .. n : [tok |-> first + i, by |-> Client, size |-> sizes[i]] \in Packet
  <2> SUFFICES ASSUME NEW i \in 1 .. n
               PROVE  [tok |-> first + i, by |-> Client, size |-> sizes[i]] \in Packet
    OBVIOUS
  <2>1. sizes[i] \in ClientSizes
    BY <1>1
  <2>2. PICK k \in 0 .. 126 : sizes[i] = 4 * k
    BY <2>1, SizesAssumption
  <2> QED
    BY <1>2, <2>2 DEF Packet, Client
<1>5. [i \in 1 .. n |-> [tok |-> first + i, by |-> Client, size |-> sizes[i]]]
        \in [1 .. n -> Packet]
  BY <1>4
<1>6. [i \in 1 .. n |-> [tok |-> first + i, by |-> Client, size |-> sizes[i]]]
        \in Seq(Packet)
  BY <1>2, <1>5, SeqDef
<1> QED
  BY <1>2, <1>3, <1>5, <1>6, LenProperties

\* Padding keeps a size a natural number.
LEMMA PaddedNat == \A size \in InjectSizes : Padded(size) \in Nat
BY SizesAssumption DEF Padded

\* Where the thread is decides what is left of the input, and whether the
\* packet under way is still the front of the queue.
Control ==
    /\ pc \in {"idle", "drain"} => input = <<>>
    /\ pc = "trigger" /\ fromQueue =>
          input = <<>> /\ queue # <<>> /\ current = Head(queue)

\* The types alone are not inductive: pop_front needs a queue that is not empty.
Typed == TypeOK /\ Control

\* The initial state has the types declared.
LEMMA InitTyped == Init => Typed
<1> SUFFICES ASSUME Init PROVE Typed
  OBVIOUS
<1>1. <<>> \in Seq(Packet) /\ <<>> \in Seq(Written) /\ <<>> \in Seq(Nat)
  BY EmptySeq
<1>2. NoPacket \in Packet
  BY DEF NoPacket, Packet
<1>3. Unchanged \in Verdict
  BY DEF Unchanged, Verdict
<1>4. seen \in [Interps -> Seq(Nat)]
  BY <1>1 DEF Init
<1>5. sent \subseteq Nat /\ dropped \subseteq Nat /\ vetoed \subseteq Nat
  BY DEF Init
<1>6. at \in 0 .. Interpreters /\ bufSize \in Nat /\ room \in Int /\ made \in Nat
  BY SizesAssumption DEF Init
<1>7. TypeOK
  BY <1>1, <1>2, <1>3, <1>4, <1>5, <1>6 DEF Init, TypeOK
<1> QED
  BY <1>7 DEF Init, Typed, Control

\* process_packet starts on a packet of the right type.
LEMMA StartTyped ==
    ASSUME Typed, NEW packet \in Packet, NEW queued \in BOOLEAN, Start(packet, queued),
           queue' \in Seq(Packet), input' \in Seq(Packet),
           queued => input' = <<>> /\ queue' # <<>> /\ packet = Head(queue')
    PROVE  Typed'
<1>1. Unchanged \in Verdict
  BY DEF Unchanged, Verdict
<1>2. taken' \in Seq(Packet)
  BY DEF Start, Typed, TypeOK
<1>3. at' \in 0 .. Interpreters
  BY SizesAssumption DEF Start
<1>4. pc' = "trigger" /\ current' = packet /\ fromQueue' = queued /\ verdict' = Unchanged
  BY DEF Start
<1>5. UNCHANGED <<pending, bufSize, room, output, made, sent, dropped, vetoed, seen>>
  BY DEF Start
<1>6. TypeOK'
  BY <1>1, <1>2, <1>3, <1>4, <1>5 DEF Typed, TypeOK
<1> QED
  BY <1>4, <1>6 DEF Typed, Control

\* The types when process_packet returns.
LEMMA LeaveTyped ==
    ASSUME Typed, Leave, pc = "trigger",
           output' \in Seq(Written), room' \in Int,
           sent' \in SUBSET Nat, dropped' \in SUBSET Nat
    PROVE  Typed'
<1>1. queue' \in Seq(Packet)
  BY HeadTailProperties DEF Leave, Typed, TypeOK, Control
<1>2. pc' = IF fromQueue THEN "drain" ELSE "input"
  BY DEF Leave
<1>3. UNCHANGED <<pending, bufSize, input, current, fromQueue, at, verdict,
                  made, taken, vetoed, seen>>
  BY DEF Leave
<1>4. TypeOK'
  BY <1>1, <1>2, <1>3 DEF Typed, TypeOK
<1> QED
  BY <1>2, <1>3, <1>4 DEF Typed, Control

\* Every action keeps them.
LEMMA NextTyped == Typed /\ [Next]_vars => Typed'
<1> SUFFICES ASSUME Typed, [Next]_vars PROVE Typed'
  OBVIOUS
<1>1. CASE Receive
  <2>1. PICK size \in OutputSizes, sizes \in BoundedSeq(ClientSizes, MaxBuffer) :
          BeginBuffer(sizes, size)
    BY <1>1 DEF Receive
  <2>2. input' \in Seq(Packet) /\ Len(sizes) \in Nat
    BY <2>1, InputIsSeq DEF BeginBuffer, Typed, TypeOK
  <2>3. bufSize' \in Nat /\ room' \in Int /\ made' \in Nat
    BY <2>1, <2>2, SizesAssumption DEF BeginBuffer, Typed, TypeOK, Larger
  <2>4. output' \in Seq(Written)
    BY <2>1, EmptySeq DEF BeginBuffer
  <2>5. TypeOK'
    BY <2>1, <2>2, <2>3, <2>4 DEF BeginBuffer, Typed, TypeOK
  <2> QED
    BY <2>1, <2>5 DEF BeginBuffer, Typed, Control
<1>2. CASE TakeInput
  <2>1. Head(input) \in Packet /\ input' \in Seq(Packet) /\ queue' \in Seq(Packet)
    BY <1>2, HeadTailProperties DEF TakeInput, Typed, TypeOK
  <2> QED
    BY <1>2, <2>1, StartTyped DEF TakeInput
<1>3. CASE DelayInput
  <2>1. Head(input) \in Packet /\ input' \in Seq(Packet)
    BY <1>3, HeadTailProperties DEF DelayInput, Typed, TypeOK
  <2>2. queue' \in Seq(Packet)
    BY <1>3, <2>1, ConcatProperties DEF DelayInput, Typed, TypeOK
  <2>3. TypeOK'
    BY <1>3, <2>1, <2>2 DEF DelayInput, Typed, TypeOK, history
  <2> QED
    BY <1>3, <2>3 DEF DelayInput, Typed, Control
<1>4. CASE EndInput
  BY <1>4 DEF EndInput, Typed, TypeOK, Control, history
<1>5. CASE TakeQueued
  <2>1. Head(queue) \in Packet /\ input' = <<>>
    BY <1>5, HeadTailProperties DEF TakeQueued, Typed, TypeOK, Control
  <2> QED
    BY <1>5, <2>1, StartTyped DEF TakeQueued, Typed, TypeOK
<1>6. CASE EndBuffer
  BY <1>6 DEF EndBuffer, Typed, TypeOK, Control, history
<1>7. ASSUME NEW v \in Verdict, Answer(v), vetoed' \in SUBSET Nat
      PROVE  Typed'
  <2>1. current.tok \in Nat
    BY DEF Typed, TypeOK, Packet
  <2>2. seen' \in [Interps -> Seq(Nat)]
    <3>1. at + 1 \in Interps
      BY <1>7, SizesAssumption DEF Answer, Typed, TypeOK, Interps
    <3>2. seen[at + 1] \in Seq(Nat)
      BY <3>1 DEF Typed, TypeOK
    <3>3. Append(seen[at + 1], current.tok) \in Seq(Nat)
      BY <2>1, <3>2
    <3> QED
      BY <1>7, <3>1, <3>3 DEF Answer, Typed, TypeOK
  <2>3. at' \in 0 .. Interpreters
    BY <1>7, SizesAssumption DEF Answer, Typed, TypeOK
  <2>4. verdict' \in Verdict
    BY <1>7 DEF Answer, Typed, TypeOK
  <2>5. UNCHANGED <<queue, pending, bufSize, room, input, output, pc, current,
                    fromQueue, made, taken, sent, dropped>>
    BY <1>7 DEF Answer
  <2>6. TypeOK'
    BY <1>7, <2>2, <2>3, <2>4, <2>5 DEF Typed, TypeOK
  <2> QED
    BY <2>5, <2>6 DEF Typed, Control
<1>8. CASE Interpret
  <2>1. CASE LeaveAlone
    BY <1>7, <2>1 DEF LeaveAlone, Typed, TypeOK
  <2>2. CASE Block
    <3>1. [verdict EXCEPT !.blocked = TRUE] \in Verdict
      BY DEF Typed, TypeOK, Verdict
    <3>2. vetoed' \in SUBSET Nat
      BY <2>2 DEF Block, Typed, TypeOK, Packet
    <3> QED
      BY <1>7, <2>2, <3>1, <3>2 DEF Block
  <2>3. ASSUME NEW size \in ResultSizes, Modify(size) PROVE Typed'
    <3>1. [blocked |-> FALSE, unchanged |-> FALSE, size |-> size] \in Verdict
      BY SizesAssumption DEF Verdict
    <3> QED
      BY <1>7, <2>3, <3>1 DEF Modify, Typed, TypeOK
  <2> QED
    BY <1>8, <2>1, <2>2, <2>3 DEF Interpret
<1>9. ASSUME NEW size \in Nat, NEW modified \in BOOLEAN, pc = "trigger",
             Write(size, modified), Leave
      PROVE  Typed'
  <2>1. [tok |-> current.tok, by |-> current.by, start |-> bufSize - room,
         size |-> size, modified |-> modified] \in Written
    <3>1. bufSize - room \in Int
      BY DEF Typed, TypeOK
    <3>2. current.tok \in Nat /\ current.by \in Interps \cup {Client}
      BY DEF Typed, TypeOK, Packet
    <3> QED
      BY <3>1, <3>2 DEF Written
  <2>2. output' \in Seq(Written)
    BY <1>9, <2>1 DEF Write, Typed, TypeOK
  <2>3. room' \in Int
    BY <1>9 DEF Write, Typed, TypeOK, HeaderSize
  <2>4. current.tok \in Nat
    BY DEF Typed, TypeOK, Packet
  <2>5. sent' \in SUBSET Nat /\ dropped' \in SUBSET Nat
    BY <1>9, <2>4 DEF Write, Typed, TypeOK
  <2> QED
    BY <1>9, <2>2, <2>3, <2>5, LeaveTyped
<1>10. CASE Finish
  <2>1. CASE FinishBlocked
    BY <2>1, LeaveTyped DEF FinishBlocked, Triggered, Typed, TypeOK, Packet
  <2>2. CASE FinishOriginal
    BY <1>9, <2>2 DEF FinishOriginal, Triggered, Typed, TypeOK, Packet
  <2>3. CASE FinishModified
    BY <1>9, <2>3 DEF FinishModified, Triggered, Typed, TypeOK, Verdict
  <2> QED
    BY <1>10, <2>1, <2>2, <2>3 DEF Finish
<1>11. ASSUME NEW i \in Interps, NEW size \in InjectSizes, Inject(i, size)
       PROVE  Typed'
  <2>1. [tok |-> made + 1, by |-> i, size |-> Padded(size)] \in Packet
    BY PaddedNat DEF Typed, TypeOK, Packet
  <2>2. pending' \in Seq(Packet) /\ made' \in Nat
    BY <1>11, <2>1 DEF Inject, Typed, TypeOK
  <2> QED
    BY <1>11, <2>2 DEF Inject, Typed, TypeOK, Control
<1>12. CASE Frame
  <2>1. queue' \in Seq(Packet) /\ pending' \in Seq(Packet)
    BY <1>12, ConcatProperties, EmptySeq DEF Frame, Typed, TypeOK
  <2> QED
    BY <1>12, <2>1 DEF Frame, Typed, TypeOK, Control, history
<1>13. CASE UNCHANGED vars
  BY <1>13 DEF vars, program, history, Typed, TypeOK, Control
<1> QED
  BY <1>1, <1>2, <1>3, <1>4, <1>5, <1>6, <1>8, <1>10, <1>11, <1>12, <1>13
  DEF Next, Process

\* Every variable keeps its type in every behaviour, and the thread's place
\* agrees with the input and the queue.
THEOREM Typing == Spec => []Typed
BY InitTyped, NextTyped, PTL DEF Spec

\* Every variable keeps its type: no call is asked more interpreters than there
\* are, and no size goes below zero.
THEOREM TypeCorrect == Spec => []TypeOK
<1>1. Typed => TypeOK
  BY DEF Typed
<1> QED
  BY <1>1, Typing, PTL

-----------------------------------------------------------------------------
(***************************************************************************)
(* Tokens of sequences                                                     *)
(***************************************************************************)
Distinct(packets) ==
    \A a, b \in DOMAIN packets : packets[a].tok = packets[b].tok => a = b

\* An empty sequence holds no token.
LEMMA EmptyTokens == Tokens(<<>>) = {} /\ Distinct(<<>>)
BY DEF Tokens, Distinct

\* A sequence that is not empty holds the token of its head and those of its tail.
LEMMA TailTokens ==
    ASSUME NEW s \in Seq(Packet), s # <<>>, Distinct(s)
    PROVE  /\ Distinct(Tail(s))
           /\ Head(s).tok \notin Tokens(Tail(s))
           /\ Tokens(s) = {Head(s).tok} \cup Tokens(Tail(s))
<1>1. /\ Len(s) \in Nat \ {0} /\ DOMAIN s = 1 .. Len(s)
      /\ Tail(s) \in Seq(Packet) /\ Len(Tail(s)) = Len(s) - 1
      /\ \A i \in 1 .. Len(s) - 1 : Tail(s)[i] = s[i + 1]
  BY HeadTailProperties, LenProperties, EmptySeq
<1>2. DOMAIN Tail(s) = 1 .. Len(s) - 1
  BY <1>1, LenProperties
<1>3. Head(s) = s[1]
  BY <1>1
<1>4. Distinct(Tail(s))
  BY <1>1, <1>2 DEF Distinct
<1>5. Head(s).tok \notin Tokens(Tail(s))
  BY <1>1, <1>2, <1>3 DEF Distinct, Tokens
<1>6. Tokens(s) = {Head(s).tok} \cup Tokens(Tail(s))
  <2>1. \A i \in 1 .. Len(s) : i = 1 \/ (i - 1 \in 1 .. Len(s) - 1 /\ s[i] = Tail(s)[i - 1])
    BY <1>1
  <2>2. \A i \in 1 .. Len(s) - 1 : i + 1 \in 1 .. Len(s)
    BY <1>1
  <2>3. 1 \in 1 .. Len(s)
    BY <1>1
  <2>4. ASSUME NEW x \in Tokens(s)
        PROVE  x = Head(s).tok \/ x \in Tokens(Tail(s))
    <3>1. PICK i \in 1 .. Len(s) : x = s[i].tok
      BY <1>1, <2>4 DEF Tokens
    <3>2. CASE i = 1
      BY <1>3, <3>1, <3>2
    <3>3. CASE i # 1
      <4>1. i - 1 \in DOMAIN Tail(s) /\ x = Tail(s)[i - 1].tok
        BY <1>1, <1>2, <2>1, <3>1, <3>3
      <4> QED
        BY <4>1 DEF Tokens
    <3> QED
      BY <3>2, <3>3
  <2>5. ASSUME NEW x \in Tokens(Tail(s))
        PROVE  x \in Tokens(s)
    BY <1>1, <1>2, <2>2, <2>5 DEF Tokens
  <2>6. Head(s).tok \in Tokens(s)
    BY <1>1, <1>3, <2>3 DEF Tokens
  <2> QED
    BY <2>4, <2>5, <2>6
<1> QED
  BY <1>4, <1>5, <1>6

\* A concatenation holds the tokens of both parts.
LEMMA ConcatTokens ==
    ASSUME NEW s \in Seq(Packet), NEW t \in Seq(Packet),
           Distinct(s), Distinct(t), Tokens(s) \cap Tokens(t) = {}
    PROVE  Distinct(s \o t) /\ Tokens(s \o t) = Tokens(s) \cup Tokens(t)
<1> DEFINE u == s \o t
<1>1. /\ Len(s) \in Nat /\ DOMAIN s = 1 .. Len(s)
      /\ Len(t) \in Nat /\ DOMAIN t = 1 .. Len(t)
  BY LenProperties
<1>2. /\ u \in Seq(Packet) /\ Len(u) = Len(s) + Len(t)
      /\ \A i \in 1 .. Len(s) + Len(t) : u[i] = IF i <= Len(s) THEN s[i] ELSE t[i - Len(s)]
  BY ConcatProperties
<1>3. DOMAIN u = 1 .. Len(s) + Len(t)
  BY <1>2, LenProperties
<1> HIDE DEF u
<1>4. \A i \in DOMAIN u : \/ i \in DOMAIN s /\ u[i] = s[i]
                          \/ i > Len(s) /\ i - Len(s) \in DOMAIN t /\ u[i] = t[i - Len(s)]
  BY <1>1, <1>2, <1>3
<1>5. \A i \in DOMAIN s : i \in DOMAIN u /\ u[i] = s[i]
  BY <1>1, <1>2, <1>3
<1>6. \A i \in DOMAIN t : i + Len(s) \in DOMAIN u /\ u[i + Len(s)] = t[i]
  BY <1>1, <1>2, <1>3
<1>7. Tokens(u) = Tokens(s) \cup Tokens(t)
  BY <1>4, <1>5, <1>6 DEF Tokens
<1>8. ASSUME NEW a \in DOMAIN u, NEW b \in DOMAIN u, u[a].tok = u[b].tok
      PROVE  a = b
  <2>1. \A i \in DOMAIN s, j \in DOMAIN t : s[i].tok # t[j].tok
    BY DEF Tokens
  <2>2. CASE a \in DOMAIN s /\ b \in DOMAIN s
    BY <1>5, <1>8, <2>2 DEF Distinct
  <2>3. CASE a \notin DOMAIN s /\ b \notin DOMAIN s
    <3>1. a - Len(s) \in DOMAIN t /\ b - Len(s) \in DOMAIN t
      BY <1>4, <2>3
    <3>2. t[a - Len(s)].tok = t[b - Len(s)].tok
      BY <1>4, <1>8, <2>3
    <3>3. a - Len(s) = b - Len(s)
      BY <3>1, <3>2 DEF Distinct
    <3> QED
      BY <1>1, <1>3, <3>3
  <2>4. CASE ~(a \in DOMAIN s <=> b \in DOMAIN s)
    BY <1>4, <1>8, <2>1, <2>4
  <2> QED
    BY <2>2, <2>3, <2>4
<1>9. Distinct(u)
  BY <1>8 DEF Distinct
<1> QED
  BY <1>7, <1>9 DEF u

\* A sequence of one packet holds its token.
LEMMA SingleTokens ==
    ASSUME NEW p \in Packet
    PROVE  <<p>> \in Seq(Packet) /\ Distinct(<<p>>) /\ Tokens(<<p>>) = {p.tok}
BY DEF Distinct, Tokens

\* Appending a packet adds its token.
LEMMA AppendTokens ==
    ASSUME NEW s \in Seq(Packet), NEW p \in Packet, Distinct(s), p.tok \notin Tokens(s)
    PROVE  Distinct(Append(s, p)) /\ Tokens(Append(s, p)) = Tokens(s) \cup {p.tok}
<1>1. Append(s, p) = s \o <<p>>
  BY AppendIsConcat
<1>2. <<p>> \in Seq(Packet) /\ Distinct(<<p>>) /\ Tokens(<<p>>) = {p.tok}
  BY SingleTokens
<1>3. Tokens(s) \cap Tokens(<<p>>) = {}
  BY <1>2
<1>4. Distinct(s \o <<p>>) /\ Tokens(s \o <<p>>) = Tokens(s) \cup Tokens(<<p>>)
  BY <1>2, <1>3, ConcatTokens
<1> QED
  BY <1>1, <1>2, <1>4

-----------------------------------------------------------------------------
(***************************************************************************)
(* Every packet is handled once                                            *)
(***************************************************************************)

\* What is queued, without the packet under way.
Rest == IF pc = "trigger" /\ fromQueue THEN Tail(queue) ELSE queue

UnderWay == IF pc = "trigger" THEN {current.tok} ELSE {}

\* No two packets that are still to be taken, or have been, share a token.
AllDistinct ==
    /\ Distinct(input) /\ Distinct(Rest) /\ Distinct(pending) /\ Distinct(taken)
    /\ Tokens(input) \cap Tokens(Rest) = {}
    /\ Tokens(input) \cap Tokens(pending) = {}
    /\ Tokens(input) \cap Tokens(taken) = {}
    /\ Tokens(Rest) \cap Tokens(pending) = {}
    /\ Tokens(Rest) \cap Tokens(taken) = {}
    /\ Tokens(pending) \cap Tokens(taken) = {}

\* Tokens are given out in order.
AllMade ==
    Tokens(input) \cup Tokens(Rest) \cup Tokens(pending) \cup Tokens(taken)
        \subseteq 1 .. made

\* What has been taken is written, blocked or under way, and only one of them.
OneFate ==
    /\ Tokens(taken) = sent \cup dropped \cup UnderWay
    /\ sent \cap dropped = {}
    /\ UnderWay \cap (sent \cup dropped) = {}

\* A packet somebody blocked has been dropped, or is under way and will be.
VetoKept ==
    vetoed \subseteq dropped \cup
        (IF pc = "trigger" /\ verdict.blocked THEN {current.tok} ELSE {})

HandledOnce == AllDistinct /\ AllMade /\ OneFate /\ VetoKept

Inv == Typed /\ HandledOnce

\* Nothing has arrived in the initial state.
LEMMA InitHandledOnce == Init => HandledOnce
BY EmptyTokens DEF Init, HandledOnce, AllDistinct, AllMade, OneFate, VetoKept, Rest,
   UnderWay, Unchanged

\* The packets of a new buffer have the next tokens.
LEMMA InputTokens ==
    ASSUME NEW sizes \in BoundedSeq(ClientSizes, MaxBuffer), NEW first \in Nat
    PROVE  LET new == [i \in 1 .. Len(sizes) |->
                          [tok |-> first + i, by |-> Client, size |-> sizes[i]]]
           IN  Distinct(new) /\ Tokens(new) = first + 1 .. first + Len(sizes)
<1> DEFINE new == [i \in 1 .. Len(sizes) |->
                      [tok |-> first + i, by |-> Client, size |-> sizes[i]]]
<1>1. Len(sizes) \in Nat
  BY InputIsSeq
<1>2. DOMAIN new = 1 .. Len(sizes) /\ \A i \in 1 .. Len(sizes) : new[i].tok = first + i
  OBVIOUS
<1> HIDE DEF new
<1>3. Distinct(new)
  BY <1>1, <1>2 DEF Distinct
<1>4. ASSUME NEW t \in first + 1 .. first + Len(sizes) PROVE t \in Tokens(new)
  <2>1. t - first \in DOMAIN new /\ new[t - first].tok = t
    BY <1>1, <1>2
  <2> QED
    BY <2>1 DEF Tokens
<1>5. ASSUME NEW t \in Tokens(new) PROVE t \in first + 1 .. first + Len(sizes)
  <2>1. PICK i \in 1 .. Len(sizes) : t = first + i
    BY <1>2, <1>5 DEF Tokens
  <2> QED
    BY <1>1, <2>1
<1> QED
  BY <1>3, <1>4, <1>5 DEF new

\* process_packet starts on a packet that was not taken before.
LEMMA StartHandledOnce ==
    ASSUME Inv, NEW packet \in Packet, NEW queued \in BOOLEAN, Start(packet, queued),
           pc # "trigger",
           Distinct(input'), Distinct(Rest'),
           Tokens(input') \cup Tokens(Rest') \subseteq Tokens(input) \cup Tokens(queue),
           Tokens(input') \cap Tokens(Rest') = {},
           packet.tok \in Tokens(input) \cup Tokens(queue),
           packet.tok \notin Tokens(input') \cup Tokens(Rest')
    PROVE  HandledOnce'
<1>1. Rest = queue /\ UnderWay = {}
  BY DEF Rest, UnderWay
<1>2. /\ pc' = "trigger" /\ current' = packet /\ verdict' = Unchanged
      /\ taken' = Append(taken, packet)
      /\ UNCHANGED <<pending, made, sent, dropped, vetoed>>
  BY DEF Start
<1>3. packet.tok \notin Tokens(taken) /\ packet.tok \notin Tokens(pending)
  BY <1>1 DEF Inv, HandledOnce, AllDistinct
<1>4. Distinct(taken') /\ Tokens(taken') = Tokens(taken) \cup {packet.tok}
  BY <1>2, <1>3, AppendTokens DEF Inv, Typed, TypeOK, HandledOnce, AllDistinct
<1>5. AllDistinct'
  BY <1>1, <1>2, <1>3, <1>4 DEF Inv, HandledOnce, AllDistinct
<1>6. AllMade'
  BY <1>1, <1>2, <1>4 DEF Inv, HandledOnce, AllMade
<1>7. UnderWay' = {packet.tok}
  BY <1>2 DEF UnderWay
<1>8. OneFate'
  BY <1>1, <1>2, <1>3, <1>4, <1>7 DEF Inv, HandledOnce, OneFate
<1>9. VetoKept'
  BY <1>2 DEF Inv, HandledOnce, VetoKept
<1> QED
  BY <1>5, <1>6, <1>8, <1>9 DEF HandledOnce

\* process_packet returns: the packet was written or blocked.
LEMMA LeaveHandledOnce ==
    ASSUME Inv, pc = "trigger", Leave,
           \/ sent' = sent \cup {current.tok} /\ dropped' = dropped /\ ~verdict.blocked
           \/ dropped' = dropped \cup {current.tok} /\ sent' = sent
    PROVE  HandledOnce'
<1>1. /\ pc' # "trigger"
      /\ queue' = IF fromQueue THEN Tail(queue) ELSE queue
      /\ UNCHANGED <<pending, input, made, taken, vetoed>>
  BY DEF Leave
<1>2. Rest' = Rest /\ UnderWay' = {}
  BY <1>1 DEF Rest, UnderWay
<1>3. UnderWay = {current.tok}
  BY DEF UnderWay
<1>4. AllDistinct' /\ AllMade'
  BY <1>1, <1>2 DEF Inv, HandledOnce, AllDistinct, AllMade
<1>5. OneFate'
  BY <1>1, <1>2, <1>3 DEF Inv, HandledOnce, OneFate
<1>6. VetoKept'
  BY <1>1, <1>2, <1>3 DEF Inv, HandledOnce, OneFate, VetoKept
<1> QED
  BY <1>4, <1>5, <1>6 DEF HandledOnce

\* Every action keeps HandledOnce.
LEMMA NextHandledOnce == Inv /\ [Next]_vars => HandledOnce'
<1> SUFFICES ASSUME Inv, [Next]_vars PROVE HandledOnce'
  OBVIOUS
<1> USE DEF Inv
<1>1. CASE Receive
  <2>1. PICK size \in OutputSizes, sizes \in BoundedSeq(ClientSizes, MaxBuffer) :
          BeginBuffer(sizes, size)
    BY <1>1 DEF Receive
  <2>2. /\ pc = "idle" /\ pc' = "input" /\ made' = made + Len(sizes)
        /\ UNCHANGED <<queue, pending, taken, sent, dropped, vetoed>>
    BY <2>1 DEF BeginBuffer
  <2>3. Len(sizes) \in Nat /\ made \in Nat
    BY InputIsSeq DEF Typed, TypeOK
  <2>4. Distinct(input') /\ Tokens(input') = made + 1 .. made'
    BY <2>1, <2>2, <2>3, InputTokens DEF BeginBuffer
  <2>5. Rest' = Rest /\ UnderWay' = {} /\ UnderWay = {}
    BY <2>2 DEF Rest, UnderWay
  <2>6. (made + 1 .. made') \cap (1 .. made) = {} /\ 1 .. made \subseteq 1 .. made'
        /\ made + 1 .. made' \subseteq 1 .. made'
    BY <2>2, <2>3
  <2>7. AllDistinct' /\ AllMade'
    BY <2>2, <2>4, <2>5, <2>6 DEF HandledOnce, AllDistinct, AllMade
  <2>8. OneFate' /\ VetoKept'
    BY <2>2, <2>5 DEF HandledOnce, OneFate, VetoKept
  <2> QED
    BY <2>7, <2>8 DEF HandledOnce
<1>2. CASE TakeInput
  <2>1. /\ pc = "input" /\ input # <<>> /\ input' = Tail(input) /\ queue' = queue
        /\ Start(Head(input), FALSE)
    BY <1>2 DEF TakeInput
  <2>2. Rest = queue /\ Rest' = queue
    BY <2>1 DEF Rest, Start
  <2>3. /\ Head(input) \in Packet /\ Distinct(input') /\ Head(input).tok \notin Tokens(input')
        /\ Tokens(input) = {Head(input).tok} \cup Tokens(input')
    BY <2>1, TailTokens, HeadTailProperties DEF Typed, TypeOK, HandledOnce, AllDistinct
  <2>4. Distinct(queue) /\ Tokens(input) \cap Tokens(queue) = {}
    BY <2>2 DEF HandledOnce, AllDistinct
  <2> QED
    BY <2>1, <2>2, <2>3, <2>4, StartHandledOnce
<1>3. CASE DelayInput
  <2>1. /\ pc = "input" /\ pc' = "input" /\ input # <<>> /\ input' = Tail(input)
        /\ queue' = <<Head(input)>> \o queue
        /\ UNCHANGED <<pending, verdict, made, taken, sent, dropped, vetoed, current>>
    BY <1>3 DEF DelayInput, history
  <2>2. Rest = queue /\ Rest' = queue' /\ UnderWay' = UnderWay
    BY <2>1 DEF Rest, UnderWay
  <2>3. /\ Head(input) \in Packet /\ Distinct(input') /\ Head(input).tok \notin Tokens(input')
        /\ Tokens(input) = {Head(input).tok} \cup Tokens(input')
    BY <2>1, TailTokens, HeadTailProperties DEF Typed, TypeOK, HandledOnce, AllDistinct
  <2>4. /\ <<Head(input)>> \in Seq(Packet) /\ Distinct(<<Head(input)>>)
        /\ Tokens(<<Head(input)>>) = {Head(input).tok}
    BY <2>3, SingleTokens
  <2>5. Distinct(queue) /\ Tokens(<<Head(input)>>) \cap Tokens(queue) = {}
    BY <2>2, <2>3, <2>4 DEF HandledOnce, AllDistinct
  <2>6. Distinct(queue') /\ Tokens(queue') = {Head(input).tok} \cup Tokens(queue)
    BY <2>1, <2>4, <2>5, ConcatTokens DEF Typed, TypeOK
  <2>7. AllDistinct'
    BY <2>1, <2>2, <2>3, <2>6 DEF HandledOnce, AllDistinct
  <2>8. AllMade'
    BY <2>1, <2>2, <2>3, <2>6 DEF HandledOnce, AllMade
  <2>9. OneFate' /\ VetoKept'
    BY <2>1, <2>2 DEF HandledOnce, OneFate, VetoKept
  <2> QED
    BY <2>7, <2>8, <2>9 DEF HandledOnce
<1>4. ASSUME UNCHANGED <<input, queue, pending, fromQueue, current, made, taken, sent,
                         dropped, vetoed>>,
             pc # "trigger", pc' # "trigger"
      PROVE  HandledOnce'
  <2>1. Rest' = Rest /\ UnderWay' = UnderWay
    BY <1>4 DEF Rest, UnderWay
  <2> QED
    BY <1>4, <2>1 DEF HandledOnce, AllDistinct, AllMade, OneFate, VetoKept
<1>5. CASE EndInput \/ EndBuffer
  BY <1>4, <1>5 DEF EndInput, EndBuffer, history
<1>6. CASE TakeQueued
  <2>1. /\ pc = "drain" /\ queue # <<>> /\ input' = input /\ queue' = queue
        /\ Start(Head(queue), TRUE)
    BY <1>6 DEF TakeQueued
  <2>2. Rest = queue /\ Rest' = Tail(queue)
    BY <2>1 DEF Rest, Start
  <2>3. /\ Head(queue) \in Packet /\ Distinct(Rest') /\ Head(queue).tok \notin Tokens(Rest')
        /\ Tokens(queue) = {Head(queue).tok} \cup Tokens(Rest')
    BY <2>1, <2>2, TailTokens, HeadTailProperties DEF Typed, TypeOK, HandledOnce, AllDistinct
  <2>4. Distinct(input') /\ Tokens(input) \cap Tokens(queue) = {}
    BY <2>1, <2>2 DEF HandledOnce, AllDistinct
  <2> QED
    BY <2>1, <2>2, <2>3, <2>4, StartHandledOnce
<1>7. ASSUME NEW v, Answer(v),
             \/ vetoed' = vetoed
             \/ v.blocked /\ vetoed' = vetoed \cup {current.tok}
      PROVE  HandledOnce'
  <2>1. /\ pc = "trigger" /\ verdict' = IF verdict.blocked THEN verdict ELSE v
        /\ UNCHANGED <<input, queue, pending, pc, fromQueue, current, made, taken, sent,
                       dropped>>
    BY <1>7 DEF Answer
  <2>2. Rest' = Rest /\ UnderWay' = UnderWay
    BY <2>1 DEF Rest, UnderWay
  <2>3. AllDistinct' /\ AllMade' /\ OneFate'
    BY <2>1, <2>2 DEF HandledOnce, AllDistinct, AllMade, OneFate
  <2>4. VetoKept'
    BY <1>7, <2>1 DEF HandledOnce, VetoKept
  <2> QED
    BY <2>3, <2>4 DEF HandledOnce
<1>8. CASE Interpret
  <2>1. CASE LeaveAlone
    BY <1>7, <2>1 DEF LeaveAlone
  <2>2. CASE Block
    <3>1. [verdict EXCEPT !.blocked = TRUE].blocked
      BY DEF Typed, TypeOK, Verdict
    <3> QED
      BY <1>7, <2>2, <3>1 DEF Block
  <2>3. ASSUME NEW size \in ResultSizes, Modify(size) PROVE HandledOnce'
    BY <1>7, <2>3 DEF Modify
  <2> QED
    BY <1>8, <2>1, <2>2, <2>3 DEF Interpret
<1>9. CASE Finish
  BY <1>9, LeaveHandledOnce DEF Finish, FinishBlocked, FinishOriginal, FinishModified,
     Triggered, Write
<1>10. ASSUME NEW i \in Interps, NEW size \in InjectSizes, Inject(i, size)
       PROVE  HandledOnce'
  <2> DEFINE new == [tok |-> made + 1, by |-> i, size |-> Padded(size)]
  <2>1. /\ made' = made + 1 /\ pending' = Append(pending, new)
        /\ UNCHANGED <<input, queue, pc, verdict, fromQueue, current, taken, sent,
                       dropped, vetoed>>
    BY <1>10 DEF Inject
  <2>2. made \in Nat /\ new \in Packet /\ new.tok = made + 1
    BY PaddedNat DEF Typed, TypeOK, Packet
  <2> HIDE DEF new
  <2>3. new.tok \notin 1 .. made /\ new.tok \in 1 .. made' /\ 1 .. made \subseteq 1 .. made'
    BY <2>1, <2>2
  <2>4. new.tok \notin Tokens(input) \cup Tokens(Rest) \cup Tokens(pending) \cup Tokens(taken)
    BY <2>3 DEF HandledOnce, AllMade
  <2>5. Distinct(pending') /\ Tokens(pending') = Tokens(pending) \cup {new.tok}
    BY <2>1, <2>2, <2>4, AppendTokens DEF HandledOnce, AllDistinct, Typed, TypeOK
  <2>6. Rest' = Rest /\ UnderWay' = UnderWay
    BY <2>1 DEF Rest, UnderWay
  <2>7. AllDistinct'
    BY <2>1, <2>4, <2>5, <2>6 DEF HandledOnce, AllDistinct
  <2>8. AllMade'
    BY <2>1, <2>3, <2>5, <2>6 DEF HandledOnce, AllMade
  <2>9. OneFate' /\ VetoKept'
    BY <2>1, <2>6 DEF HandledOnce, OneFate, VetoKept
  <2> QED
    BY <2>7, <2>8, <2>9 DEF HandledOnce
<1>11. CASE Frame
  <2>1. /\ pc = "idle" /\ queue' = queue \o pending /\ pending' = <<>>
        /\ UNCHANGED <<input, pc, verdict, fromQueue, current, made, taken, sent,
                       dropped, vetoed>>
    BY <1>11 DEF Frame, history
  <2>2. Rest = queue /\ Rest' = queue' /\ UnderWay' = UnderWay
    BY <2>1 DEF Rest, UnderWay
  <2>3. Distinct(queue') /\ Tokens(queue') = Tokens(queue) \cup Tokens(pending)
    BY <2>1, <2>2, ConcatTokens DEF HandledOnce, AllDistinct, Typed, TypeOK
  <2>4. AllDistinct' /\ AllMade'
    BY <2>1, <2>2, <2>3, EmptyTokens DEF HandledOnce, AllDistinct, AllMade
  <2>5. OneFate' /\ VetoKept'
    BY <2>1, <2>2 DEF HandledOnce, OneFate, VetoKept
  <2> QED
    BY <2>4, <2>5 DEF HandledOnce
<1>12. CASE UNCHANGED vars
  <2>1. UNCHANGED <<input, queue, pending, pc, verdict, fromQueue, current, made, taken,
                    sent, dropped, vetoed>>
    BY <1>12 DEF vars, program, history
  <2>2. Rest' = Rest /\ UnderWay' = UnderWay
    BY <2>1 DEF Rest, UnderWay
  <2> QED
    BY <2>1, <2>2 DEF HandledOnce, AllDistinct, AllMade, OneFate, VetoKept
<1> QED
  BY <1>1, <1>2, <1>3, <1>5, <1>6, <1>8, <1>9, <1>10, <1>11, <1>12 DEF Next, Process

\* The invariant from which the theorems follow.
THEOREM Invariance == Spec => []Inv
<1>1. Init => Inv
  BY InitTyped, InitHandledOnce DEF Inv
<1>2. Inv /\ [Next]_vars => Inv'
  BY NextTyped, NextHandledOnce DEF Inv
<1> QED
  BY <1>1, <1>2, PTL DEF Spec

\* A packet is shown to the interpreters once: not again after it was delayed,
\* and not again from the queue.
THEOREM ShownOnceHolds == Spec => []ShownOnce
<1>1. Inv => ShownOnce
  BY DEF Inv, HandledOnce, AllDistinct, Distinct, ShownOnce, IsInjective
<1> QED
  BY <1>1, Invariance, PTL

\* A packet that one interpreter blocked is never written, whatever the
\* interpreters after it answer.
THEOREM BlockSticksHolds == Spec => []BlockSticks
<1>1. Inv => BlockSticks
  BY DEF Inv, HandledOnce, OneFate, VetoKept, UnderWay, BlockSticks
<1> QED
  BY <1>1, Invariance, PTL

-----------------------------------------------------------------------------
(***************************************************************************)
(* PacketQueue implements PacketDelivery                                   *)
(***************************************************************************)

\* What waits is what AllDistinct speaks of.
LEMMA WaitingParts ==
    ASSUME Inv
    PROVE  Waiting = Tokens(input) \cup Tokens(Rest) \cup Tokens(pending) \cup UnderWay
<1>1. CASE pc = "trigger" /\ fromQueue
  <2>1. queue # <<>> /\ current = Head(queue) /\ queue \in Seq(Packet)
    BY <1>1 DEF Inv, Typed, TypeOK, Control
  <2>2. Rest = Tail(queue) /\ UnderWay = {current.tok}
    BY <1>1 DEF Rest, UnderWay
  <2>3. Tokens(queue) = {current.tok} \cup Tokens(Rest)
    <3>1. \A i \in DOMAIN Tail(queue) : i + 1 \in DOMAIN queue /\ Tail(queue)[i] = queue[i + 1]
      BY <2>1, HeadTailProperties, LenProperties
    <3>2. \A i \in DOMAIN queue : i = 1 \/ (i - 1 \in DOMAIN Tail(queue)
                                            /\ queue[i] = Tail(queue)[i - 1])
      BY <2>1, HeadTailProperties, LenProperties
    <3>3. 1 \in DOMAIN queue /\ queue[1] = current
      BY <2>1, HeadTailProperties, LenProperties, EmptySeq
    <3>4. ASSUME NEW x \in Tokens(queue) PROVE x = current.tok \/ x \in Tokens(Rest)
      <4>1. PICK i \in DOMAIN queue : x = queue[i].tok
        BY <3>4 DEF Tokens
      <4> QED
        BY <2>2, <3>2, <3>3, <4>1 DEF Tokens
    <3>5. Tokens(Rest) \subseteq Tokens(queue) /\ current.tok \in Tokens(queue)
      BY <2>2, <3>1, <3>3 DEF Tokens
    <3> QED
      BY <3>4, <3>5
  <2> QED
    BY <2>2, <2>3, <1>1 DEF Waiting
<1>2. CASE ~(pc = "trigger" /\ fromQueue)
  BY <1>2 DEF Waiting, Rest, UnderWay
<1> QED
  BY <1>1, <1>2

\* The packet under way leaves what waits when process_packet returns.
LEMMA LeaveWaiting ==
    ASSUME Inv, Inv', pc = "trigger", Leave
    PROVE  current.tok \in Waiting /\ Waiting' = Waiting \ {current.tok}
<1>1. /\ pc' # "trigger" /\ queue' = IF fromQueue THEN Tail(queue) ELSE queue
      /\ UNCHANGED <<input, pending>>
  BY DEF Leave
<1>2. Rest' = Rest /\ UnderWay' = {} /\ UnderWay = {current.tok}
  BY <1>1 DEF Rest, UnderWay
<1>3. Waiting' = Tokens(input') \cup Tokens(Rest') \cup Tokens(pending') \cup UnderWay'
  <2>1. Rest' = queue'
    BY <1>1 DEF Rest
  <2> QED
    BY <1>1, <1>2, <2>1 DEF Waiting
<1>4. current.tok \notin Tokens(input) \cup Tokens(Rest) \cup Tokens(pending)
  BY <1>2 DEF Inv, HandledOnce, AllDistinct, OneFate
<1> QED
  BY <1>1, <1>2, <1>3, <1>4, WaitingParts

\* The program starts where the abstract specification starts.
LEMMA DeliveryInit == Init => Delivery!Init
BY EmptyTokens DEF Init, Delivery!Init, Waiting

\* Every step delivers or blocks one packet, lets packets arrive, or changes
\* nothing the abstract specification sees.
LEMMA DeliveryNext == Inv /\ Inv' /\ [Next]_vars => [Delivery!Next]_(Delivery!vars)
<1> SUFFICES ASSUME Inv, Inv', [Next]_vars PROVE [Delivery!Next]_(Delivery!vars)
  OBVIOUS
<1>1. ASSUME Waiting' = Waiting, UNCHANGED <<made, sent, dropped>>
      PROVE  UNCHANGED Delivery!vars
  BY <1>1 DEF Delivery!vars
<1>2. CASE Receive
  <2>1. PICK size \in OutputSizes, sizes \in BoundedSeq(ClientSizes, MaxBuffer) :
          BeginBuffer(sizes, size)
    BY <1>2 DEF Receive
  <2>2. /\ pc = "idle" /\ pc' = "input" /\ made' = made + Len(sizes)
        /\ UNCHANGED <<queue, pending, sent, dropped>>
    BY <2>1 DEF BeginBuffer
  <2>3. Len(sizes) \in Nat /\ made \in Nat
    BY InputIsSeq DEF Inv, Typed, TypeOK
  <2>4. Tokens(input') = made + 1 .. made'
    BY <2>1, <2>2, <2>3, InputTokens DEF BeginBuffer
  <2>5. Tokens(input) = {}
    BY <2>2, EmptyTokens DEF Inv, Typed, Control
  <2>6. Waiting' = Waiting \cup (made + 1 .. made')
    BY <2>2, <2>4, <2>5 DEF Waiting
  <2>7. 1 .. made \subseteq 1 .. made' /\ (1 .. made') \ (1 .. made) = made + 1 .. made'
    BY <2>2, <2>3
  <2>8. Delivery!Arrive
    BY <2>2, <2>6, <2>7 DEF Delivery!Arrive
  <2> QED
    BY <2>8 DEF Delivery!Next
<1>3. CASE TakeInput
  <2>1. /\ pc = "input" /\ pc' = "trigger" /\ input # <<>> /\ input' = Tail(input)
        /\ current' = Head(input)
        /\ UNCHANGED <<queue, pending, made, sent, dropped>>
    BY <1>3 DEF TakeInput, Start
  <2>2. Tokens(input) = {Head(input).tok} \cup Tokens(input')
    BY <2>1, TailTokens DEF Inv, Typed, TypeOK, HandledOnce, AllDistinct
  <2>3. Waiting' = Waiting
    BY <2>1, <2>2 DEF Waiting
  <2> QED
    BY <1>1, <2>1, <2>3
<1>4. CASE DelayInput
  <2>1. /\ pc = "input" /\ pc' = pc /\ input # <<>> /\ input' = Tail(input)
        /\ queue' = <<Head(input)>> \o queue
        /\ UNCHANGED <<pending, made, sent, dropped>>
    BY <1>4 DEF DelayInput, history
  <2>2. Head(input) \in Packet /\ Tokens(input) = {Head(input).tok} \cup Tokens(input')
    BY <2>1, TailTokens, HeadTailProperties DEF Inv, Typed, TypeOK, HandledOnce, AllDistinct
  <2>3. Distinct(queue) /\ Tokens(input) \cap Tokens(queue) = {}
    BY <2>1 DEF Inv, HandledOnce, AllDistinct, Rest
  <2>4. /\ <<Head(input)>> \in Seq(Packet) /\ Distinct(<<Head(input)>>)
        /\ Tokens(<<Head(input)>>) = {Head(input).tok}
    BY <2>2, SingleTokens
  <2>5. Tokens(<<Head(input)>>) \cap Tokens(queue) = {}
    BY <2>2, <2>3, <2>4
  <2>6. Tokens(queue') = {Head(input).tok} \cup Tokens(queue)
    BY <2>1, <2>3, <2>4, <2>5, ConcatTokens DEF Inv, Typed, TypeOK
  <2>7. Waiting' = Waiting
    BY <2>1, <2>2, <2>6 DEF Waiting
  <2> QED
    BY <1>1, <2>1, <2>7
<1>5. CASE EndInput \/ EndBuffer
  BY <1>1, <1>5 DEF EndInput, EndBuffer, history, Waiting
<1>6. CASE TakeQueued
  <2>1. /\ pc = "drain" /\ pc' = "trigger" /\ queue # <<>> /\ current' = Head(queue)
        /\ UNCHANGED <<input, queue, pending, made, sent, dropped>>
    BY <1>6 DEF TakeQueued, Start
  <2>2. Head(queue).tok \in Tokens(queue)
    BY <2>1, TailTokens DEF Inv, Typed, TypeOK, HandledOnce, AllDistinct, Rest
  <2>3. Waiting' = Waiting
    BY <2>1, <2>2 DEF Waiting
  <2> QED
    BY <1>1, <2>1, <2>3
<1>7. CASE Interpret
  BY <1>1, <1>7 DEF Interpret, LeaveAlone, Block, Modify, Answer, Waiting
<1>8. CASE Finish
  <2>1. pc = "trigger" /\ Leave /\ made' = made
    BY <1>8 DEF Finish, FinishBlocked, FinishOriginal, FinishModified, Triggered, Leave
  <2>2. current.tok \in Waiting /\ Waiting' = Waiting \ {current.tok}
    BY <2>1, LeaveWaiting
  <2>3. \/ dropped' = dropped \cup {current.tok} /\ sent' = sent
        \/ sent' = sent \cup {current.tok} /\ dropped' = dropped
    BY <1>8 DEF Finish, FinishBlocked, FinishOriginal, FinishModified, Write
  <2>4. Delivery!Deliver \/ Delivery!Block
    BY <2>1, <2>2, <2>3 DEF Delivery!Deliver, Delivery!Block
  <2> QED
    BY <2>4 DEF Delivery!Next
<1>9. ASSUME NEW i \in Interps, NEW size \in InjectSizes, Inject(i, size)
      PROVE  Delivery!Next
  <2> DEFINE new == [tok |-> made + 1, by |-> i, size |-> Padded(size)]
  <2>1. /\ made' = made + 1 /\ pending' = Append(pending, new)
        /\ UNCHANGED <<input, queue, pc, current, sent, dropped>>
    BY <1>9 DEF Inject
  <2>2. made \in Nat /\ new \in Packet /\ new.tok = made + 1
    BY PaddedNat DEF Inv, Typed, TypeOK, Packet
  <2> HIDE DEF new
  <2>3. new.tok \notin Tokens(pending)
    BY <2>2 DEF Inv, HandledOnce, AllMade
  <2>4. Tokens(pending') = Tokens(pending) \cup {new.tok}
    BY <2>1, <2>2, <2>3, AppendTokens DEF Inv, HandledOnce, AllDistinct, Typed, TypeOK
  <2>5. Waiting' = Waiting \cup {new.tok}
    BY <2>1, <2>4 DEF Waiting
  <2>6. 1 .. made \subseteq 1 .. made' /\ (1 .. made') \ (1 .. made) = {new.tok}
    BY <2>1, <2>2
  <2>7. Delivery!Arrive
    BY <2>1, <2>5, <2>6 DEF Delivery!Arrive
  <2> QED
    BY <2>7 DEF Delivery!Next
<1>10. CASE Frame
  <2>1. /\ pc = "idle" /\ queue' = queue \o pending /\ pending' = <<>>
        /\ UNCHANGED <<input, pc, current, made, sent, dropped>>
    BY <1>10 DEF Frame, history
  <2>2. Rest = queue
    BY <2>1 DEF Rest
  <2>3. Tokens(queue') = Tokens(queue) \cup Tokens(pending)
    BY <2>1, <2>2, ConcatTokens DEF Inv, HandledOnce, AllDistinct, Typed, TypeOK
  <2>4. Waiting' = Waiting
    BY <2>1, <2>3, EmptyTokens DEF Waiting
  <2> QED
    BY <1>1, <2>1, <2>4
<1>11. CASE UNCHANGED vars
  BY <1>1, <1>11 DEF vars, program, history, Waiting
<1> QED
  BY <1>2, <1>3, <1>4, <1>5, <1>6, <1>7, <1>8, <1>9, <1>10, <1>11 DEF Next, Process

\* Whatever the sizes, the number of interpreters and the order of frames,
\* buffers and injections, a packet is delivered or blocked, never both, never
\* twice, and never forgotten.
THEOREM DeliveryHolds == Spec => DeliverySpec
<1>1. Inv /\ Inv' /\ [Next]_vars => [Delivery!Next]_(Delivery!vars)
  BY DeliveryNext
<1>2. Spec => Delivery!Init
  BY DeliveryInit DEF Spec
<1> QED
  BY <1>1, <1>2, Invariance, PTL DEF Spec, DeliverySpec, Delivery!Spec

-----------------------------------------------------------------------------
(***************************************************************************)
(* The output buffer                                                       *)
(***************************************************************************)

\* How far the output buffer is filled.
Filled == IF output = <<>> THEN 0 ELSE End(output[Len(output)])

\* The span of what is left starts where the last packet ends, and the packet
\* under way had room when it was taken: nothing is written before it.
LaidOut ==
    /\ room >= 0
    /\ Filled = bufSize - room
    /\ \A k \in DOMAIN output :
          /\ output[k].start = (IF k = 1 THEN 0 ELSE End(output[k - 1]))
          /\ End(output[k]) <= bufSize - room
    /\ pc = "trigger" => current.size + HeaderSize <= room

\* Where a packet ends is a number.
LEMMA EndInt ==
    ASSUME NEW s \in Seq(Written), NEW k \in 1 .. Len(s)
    PROVE  End(s[k]) \in Int
<1>1. s[k] \in Written
  BY ElementOfSeq
<1>2. s[k].start \in Int /\ s[k].size \in Nat
  BY <1>1 DEF Written
<1> QED
  BY <1>2 DEF End, HeaderSize

\* A packet that has room is laid behind the others.
LEMMA WriteLaidOut ==
    ASSUME Typed, LaidOut, pc' # "trigger", bufSize' = bufSize,
           NEW size \in Nat, size + HeaderSize <= room,
           NEW modified \in BOOLEAN, Write(size, modified)
    PROVE  LaidOut'
<1> DEFINE new == [tok |-> current.tok, by |-> current.by, start |-> bufSize - room,
                   size |-> size, modified |-> modified]
<1>1. /\ bufSize \in Nat /\ room \in Int /\ output \in Seq(Written) /\ room >= 0
      /\ room' = room - (size + HeaderSize) /\ output' = Append(output, new)
  BY DEF Typed, TypeOK, LaidOut, Write
<1>2. /\ new \in Written
      /\ new.start = bufSize - room /\ new.size = size
  BY <1>1 DEF Typed, TypeOK, Packet, Written
<1> HIDE DEF new
<1>3. /\ Len(output) \in Nat /\ DOMAIN output = 1 .. Len(output)
      /\ output' \in Seq(Written) /\ Len(output') = Len(output) + 1 /\ output' # <<>>
      /\ DOMAIN output' = 1 .. Len(output) + 1
      /\ \A i \in 1 .. Len(output) : output'[i] = output[i]
      /\ output'[Len(output) + 1] = new
  BY <1>1, <1>2, AppendProperties, LenProperties
<1>4. room' >= 0
  BY <1>1 DEF HeaderSize
<1>5. End(new) = bufSize' - room'
  BY <1>1, <1>2 DEF End, HeaderSize
<1>6. Filled' = bufSize' - room'
  BY <1>3, <1>5 DEF Filled, End, HeaderSize
<1>7. new.start = IF Len(output) = 0 THEN 0 ELSE End(output[Len(output)])
  BY <1>1, <1>2, EmptySeq DEF LaidOut, Filled
<1>8. ASSUME NEW k \in DOMAIN output'
      PROVE  /\ output'[k].start = (IF k = 1 THEN 0 ELSE End(output'[k - 1]))
             /\ End(output'[k]) <= bufSize' - room'
  <2>1. CASE k = Len(output) + 1
    <3>1. k = 1 <=> Len(output) = 0
      BY <1>3, <2>1
    <3>2. k # 1 => output'[k - 1] = output[Len(output)]
      BY <1>3, <2>1
    <3>3. output'[k] = new
      BY <1>3, <2>1
    <3>4. End(output'[k]) <= bufSize' - room'
      <4>1. bufSize' - room' \in Int
        BY <1>1 DEF HeaderSize
      <4> QED
        BY <1>5, <3>3, <4>1
    <3>5. output'[k].start = (IF k = 1 THEN 0 ELSE End(output'[k - 1]))
      BY <1>7, <3>1, <3>2, <3>3
    <3> QED
      BY <3>4, <3>5
  <2>2. CASE k \in 1 .. Len(output)
    <3>1. output'[k] = output[k] /\ (k # 1 => output'[k - 1] = output[k - 1])
      BY <1>3, <2>2
    <3>2. /\ output[k].start = (IF k = 1 THEN 0 ELSE End(output[k - 1]))
          /\ End(output[k]) <= bufSize - room
      BY <1>3, <2>2 DEF LaidOut
    <3>3. End(output[k]) \in Int
      BY <1>1, <1>3, <2>2, EndInt
    <3>4. bufSize - room <= bufSize' - room'
      BY <1>1 DEF HeaderSize
    <3> QED
      BY <1>1, <3>1, <3>2, <3>3, <3>4
  <2> QED
    BY <1>3, <2>1, <2>2
<1> QED
  BY <1>4, <1>6, <1>8 DEF LaidOut

\* LaidOut looks at nothing else.
LEMMA SameLaidOut ==
    ASSUME LaidOut, UNCHANGED <<room, bufSize, output>>,
           pc' = "trigger" => current'.size + HeaderSize <= room
    PROVE  LaidOut'
BY DEF LaidOut, Filled, End, HeaderSize

\* Every action keeps LaidOut.
LEMMA NextLaidOut == Typed /\ LaidOut /\ [Next]_vars => LaidOut'
<1> SUFFICES ASSUME Typed, LaidOut, [Next]_vars PROVE LaidOut'
  OBVIOUS
<1>1. CASE Receive
  <2>1. PICK size \in OutputSizes, sizes \in BoundedSeq(ClientSizes, MaxBuffer) :
          BeginBuffer(sizes, size)
    BY <1>1 DEF Receive
  <2>2. bufSize' \in Nat /\ room' = bufSize'
    BY <2>1, SizesAssumption DEF BeginBuffer, Typed, TypeOK, Larger
  <2>3. output' = <<>> /\ pc' = "input"
    BY <2>1 DEF BeginBuffer
  <2>4. DOMAIN output' = {}
    BY <2>3
  <2>5. Filled' = 0
    BY <2>3 DEF Filled
  <2>6. bufSize' - room' = 0 /\ room' >= 0
    <3>1. \A n \in Nat : n - n = 0 /\ n >= 0
      OBVIOUS
    <3> QED
      BY <2>2, <3>1
  <2> QED
    BY <2>3, <2>4, <2>5, <2>6 DEF LaidOut
<1>2. CASE TakeInput
  BY <1>2, SameLaidOut DEF TakeInput, Start, Fits
<1>3. CASE TakeQueued
  BY <1>3, SameLaidOut DEF TakeQueued, Start, Fits
<1>4. CASE DelayInput \/ EndInput \/ EndBuffer
  BY <1>4, SameLaidOut DEF DelayInput, EndInput, EndBuffer
<1>5. CASE Interpret
  <2>1. UNCHANGED <<room, bufSize, output, pc, current>>
    BY <1>5 DEF Interpret, LeaveAlone, Block, Modify, Answer
  <2> QED
    BY <2>1, SameLaidOut DEF LaidOut
<1>6. CASE Finish
  <2>1. pc = "trigger" /\ pc' # "trigger" /\ bufSize' = bufSize
    BY <1>6 DEF Finish, FinishBlocked, FinishOriginal, FinishModified, Triggered, Leave
  <2>2. CASE FinishBlocked
    BY <2>1, <2>2, SameLaidOut DEF FinishBlocked
  <2>3. CASE FinishOriginal
    <3>1. current.size \in Nat /\ current.size + HeaderSize <= room
      BY <2>1 DEF Typed, TypeOK, Packet, LaidOut
    <3> QED
      BY <2>1, <2>3, <3>1, WriteLaidOut DEF FinishOriginal
  <2>4. CASE FinishModified
    <3>1. verdict.size \in Nat /\ verdict.size + HeaderSize <= room
      BY <2>4 DEF Typed, TypeOK, Verdict, FinishModified, ResultFits
    <3> QED
      BY <2>1, <2>4, <3>1, WriteLaidOut DEF FinishModified
  <2> QED
    BY <1>6, <2>2, <2>3, <2>4 DEF Finish
<1>7. ASSUME NEW i \in Interps, NEW size \in InjectSizes, Inject(i, size)
      PROVE  LaidOut'
  BY <1>7, SameLaidOut DEF Inject, LaidOut
<1>8. CASE Frame
  BY <1>8, SameLaidOut DEF Frame
<1>9. CASE UNCHANGED vars
  BY <1>9, SameLaidOut DEF vars, program, LaidOut
<1> QED
  BY <1>1, <1>2, <1>3, <1>4, <1>5, <1>6, <1>7, <1>8, <1>9 DEF Next, Process

\* What process_buffer writes never passes the end of the output buffer.
THEOREM OutputFitsHolds == Spec => []OutputFits
<1>1. Init => LaidOut
  BY DEF Init, LaidOut, Filled
<1>2. Typed /\ LaidOut => OutputFits
  <2> SUFFICES ASSUME Typed, LaidOut PROVE OutputFits
    OBVIOUS
  <2>1. ASSUME NEW k \in DOMAIN output PROVE End(output[k]) <= bufSize
    <3>1. End(output[k]) \in Int
      BY <2>1, EndInt, LenProperties DEF Typed, TypeOK
    <3> QED
      BY <2>1, <3>1 DEF Typed, TypeOK, LaidOut
  <2> QED
    BY <2>1 DEF LaidOut, OutputFits
<1> QED
  BY <1>1, <1>2, NextLaidOut, Typing, PTL DEF Spec
-----------------------------------------------------------------------------
(***************************************************************************)
(* Delayed packets go first                                                *)
(***************************************************************************)

\* The delayed packets of the client are a prefix of the queue.
ClientFirst ==
    /\ \A i, j \in DOMAIN queue : i < j /\ queue[j].by = Client => queue[i].by = Client
    /\ \A i \in DOMAIN pending : pending[i].by # Client
    /\ \A i \in DOMAIN input : input[i].by = Client

\* What leaves the queue and the input alone leaves the order.
LEMMA SameClientFirst == ClientFirst /\ UNCHANGED <<queue, pending, input>> => ClientFirst'
BY DEF ClientFirst

\* A tail has the elements of its sequence, one place further on.
LEMMA TailAt ==
    ASSUME NEW s \in Seq(Packet), s # <<>>
    PROVE  /\ Tail(s) \in Seq(Packet)
           /\ \A i \in DOMAIN Tail(s) :
                 i \in Nat /\ i + 1 \in DOMAIN s /\ Tail(s)[i] = s[i + 1]
BY HeadTailProperties, LenProperties

\* Every action keeps ClientFirst.
LEMMA NextClientFirst == Typed /\ ClientFirst /\ [Next]_vars => ClientFirst'
<1> SUFFICES ASSUME Typed, ClientFirst, [Next]_vars PROVE ClientFirst'
  OBVIOUS
<1>0. queue \in Seq(Packet) /\ pending \in Seq(Packet) /\ input \in Seq(Packet)
  BY DEF Typed, TypeOK
<1>1. CASE Receive
  <2>1. PICK size \in OutputSizes, sizes \in BoundedSeq(ClientSizes, MaxBuffer) :
          BeginBuffer(sizes, size)
    BY <1>1 DEF Receive
  <2>2. \A i \in DOMAIN input' : input'[i].by = Client
    BY <2>1 DEF BeginBuffer
  <2> QED
    BY <2>1, <2>2 DEF BeginBuffer, ClientFirst
<1>2. CASE TakeInput
  <2>1. input # <<>> /\ input' = Tail(input) /\ UNCHANGED <<queue, pending>>
    BY <1>2 DEF TakeInput, Start
  <2>2. \A i \in DOMAIN input' : input'[i].by = Client
    BY <1>0, <2>1, TailAt DEF ClientFirst
  <2> QED
    BY <2>1, <2>2 DEF ClientFirst
<1>3. CASE DelayInput
  <2>1. /\ input # <<>> /\ input' = Tail(input)
        /\ queue' = <<Head(input)>> \o queue /\ pending' = pending
    BY <1>3 DEF DelayInput
  <2>2. \A i \in DOMAIN input' : input'[i].by = Client
    BY <1>0, <2>1, TailAt DEF ClientFirst
  <2>3. Head(input) = input[1] /\ 1 \in DOMAIN input
    BY <1>0, <2>1, HeadTailProperties, LenProperties, EmptySeq
  <2>4. Head(input) \in Packet /\ Head(input).by = Client
    BY <1>0, <2>3, ElementOfSeq, LenProperties DEF ClientFirst
  <2>5. <<Head(input)>> \in Seq(Packet) /\ Len(<<Head(input)>>) = 1
        /\ <<Head(input)>>[1] = Head(input)
    BY <2>4
  <2>6. \A i \in DOMAIN queue' :
            /\ i \in Nat
            /\ i = 1 => queue'[i].by = Client
            /\ i # 1 => i - 1 \in DOMAIN queue /\ queue'[i] = queue[i - 1]
    BY <1>0, <2>1, <2>4, <2>5, ConcatProperties, LenProperties
  <2>7. ASSUME NEW i \in DOMAIN queue', NEW j \in DOMAIN queue', i < j, queue'[j].by = Client
        PROVE  queue'[i].by = Client
    <3>1. CASE i = 1
      BY <2>6, <3>1
    <3>2. CASE i # 1
      <4>1. i - 1 < j - 1 /\ j # 1
        BY <2>6, <2>7, <3>2, <1>0, LenProperties
      <4> QED
        BY <2>6, <2>7, <3>2, <4>1 DEF ClientFirst
    <3> QED
      BY <3>1, <3>2
  <2> QED
    BY <2>1, <2>2, <2>7 DEF ClientFirst
<1>4. CASE EndInput \/ TakeQueued \/ EndBuffer \/ Interpret
  BY <1>4, SameClientFirst
     DEF EndInput, TakeQueued, EndBuffer, Interpret, LeaveAlone, Block, Modify, Answer, Start
<1>5. CASE Finish
  <2>1. pc = "trigger" /\ UNCHANGED <<pending, input>>
        /\ queue' = IF fromQueue THEN Tail(queue) ELSE queue
    BY <1>5 DEF Finish, FinishBlocked, FinishOriginal, FinishModified, Triggered, Leave
  <2>2. CASE fromQueue
    <3>1. queue # <<>> /\ queue' = Tail(queue)
      BY <2>1, <2>2 DEF Typed, Control
    <3>2. \A i \in DOMAIN queue' :
              i \in Nat /\ i + 1 \in DOMAIN queue /\ queue'[i] = queue[i + 1]
      BY <1>0, <3>1, TailAt
    <3>3. ASSUME NEW i \in DOMAIN queue', NEW j \in DOMAIN queue', i < j, queue'[j].by = Client
          PROVE  queue'[i].by = Client
      <4>1. i + 1 < j + 1
        BY <3>2, <3>3
      <4> QED
        BY <3>2, <3>3, <4>1 DEF ClientFirst
    <3> QED
      BY <2>1, <3>3 DEF ClientFirst
  <2>3. CASE ~fromQueue
    BY <2>1, <2>3, SameClientFirst
  <2> QED
    BY <2>2, <2>3
<1>6. ASSUME NEW i \in Interps, NEW size \in InjectSizes, Inject(i, size)
      PROVE  ClientFirst'
  <2> DEFINE packet == [tok |-> made + 1, by |-> i, size |-> Padded(size)]
  <2>1. pending' = Append(pending, packet) /\ UNCHANGED <<queue, input>>
    BY <1>6 DEF Inject
  <2>2. packet \in Packet /\ packet.by # Client
    BY PaddedNat, SizesAssumption DEF Packet, Typed, TypeOK, Client, Interps
  <2> HIDE DEF packet
  <2>3. \A k \in DOMAIN pending' : pending'[k].by # Client
    BY <1>0, <2>1, <2>2, AppendProperties, LenProperties DEF ClientFirst
  <2> QED
    BY <2>1, <2>3 DEF ClientFirst
<1>7. CASE Frame
  <2>1. queue' = queue \o pending /\ pending' = <<>> /\ input' = input
    BY <1>7 DEF Frame
  <2>2. \A i \in DOMAIN queue' :
            /\ i \in Nat
            /\ i <= Len(queue) => i \in DOMAIN queue /\ queue'[i] = queue[i]
            /\ i > Len(queue) =>
                  i - Len(queue) \in DOMAIN pending /\ queue'[i] = pending[i - Len(queue)]
    BY <1>0, <2>1, ConcatProperties, LenProperties
  <2>3. Len(queue) \in Nat
    BY <1>0, LenProperties
  <2>4. ASSUME NEW i \in DOMAIN queue', NEW j \in DOMAIN queue', i < j, queue'[j].by = Client
        PROVE  queue'[i].by = Client
    <3>1. j <= Len(queue)
      BY <2>2, <2>3, <2>4 DEF ClientFirst
    <3>2. i <= Len(queue)
      BY <2>2, <2>3, <2>4, <3>1
    <3> QED
      BY <2>2, <2>4, <3>1, <3>2 DEF ClientFirst
  <2>5. DOMAIN pending' = {}
    BY <2>1
  <2> QED
    BY <2>1, <2>4, <2>5 DEF ClientFirst
<1>8. CASE UNCHANGED vars
  BY <1>8, SameClientFirst DEF vars, program
<1> QED
  BY <1>1, <1>2, <1>3, <1>4, <1>5, <1>6, <1>7, <1>8 DEF Next, Process

\* No injected packet is taken while one of the client is delayed.
THEOREM DelayedFirstHolds == Spec => DelayedFirst
<1> DEFINE Taken == pc = "drain" /\ pc' = "trigger" /\ current'.by # Client
                        => \A p \in ToSet(queue) : p.by # Client
<1>1. Init => ClientFirst
  BY DEF Init, ClientFirst
<1>2. Typed /\ ClientFirst /\ [Next]_vars => [Taken]_vars
  <2> SUFFICES ASSUME Typed, ClientFirst, Next,
                      pc = "drain", pc' = "trigger", current'.by # Client,
                      NEW p \in ToSet(queue)
               PROVE  p.by # Client
    OBVIOUS
  <2>1. TakeQueued
    BY DEF Next, Receive, BeginBuffer, Process, TakeInput, DelayInput, EndInput, EndBuffer,
           Interpret, LeaveAlone, Block, Modify, Answer,
           Finish, FinishBlocked, FinishOriginal, FinishModified, Triggered, Inject, Frame
  <2>2. queue # <<>> /\ current' = Head(queue)
    BY <2>1 DEF TakeQueued, Start
  <2>3. queue \in Seq(Packet)
    BY DEF Typed, TypeOK
  <2>4. Head(queue) = queue[1] /\ 1 \in DOMAIN queue
    BY <2>2, <2>3, HeadTailProperties, LenProperties, EmptySeq
  <2>5. PICK i \in DOMAIN queue : p = queue[i]
    BY DEF ToSet
  <2>6. i = 1 \/ 1 < i
    BY <2>3, <2>5, LenProperties
  <2> QED
    BY <2>2, <2>4, <2>5, <2>6 DEF ClientFirst
<1> QED
  BY <1>1, <1>2, NextClientFirst, Typing, PTL DEF Spec, DelayedFirst

-----------------------------------------------------------------------------
(***************************************************************************)
(* Every interpreter sees the same packets                                 *)
(***************************************************************************)

\* What is under way was taken last.
View ==
    /\ SameView
    /\ pc = "trigger" => taken # <<>> /\ current = taken[Len(taken)]

\* The tokens of the first n packets taken.
Shown(n) == [k \in 1 .. n |-> taken[k].tok]

\* A step between two packets leaves what has been seen alone.
LEMMA SameShown ==
    ASSUME View, UNCHANGED <<seen, taken>>,
           \/ UNCHANGED <<pc, at, current>>
           \/ pc # "trigger" /\ pc' # "trigger"
           \/ pc = "trigger" /\ at = Interpreters /\ pc' # "trigger"
    PROVE  View'
<1>1. ASSUME NEW i \in Interps
      PROVE  seen'[i] = [k \in 1 .. (IF pc' = "trigger" /\ i > at'
                                      THEN Len(taken') - 1 ELSE Len(taken')) |-> taken'[k].tok]
  <2>1. pc = "trigger" /\ at = Interpreters => ~(i > at)
    BY <1>1, SizesAssumption DEF Interps
  <2> QED
    BY <1>1, <2>1 DEF View, SameView
<1> QED
  BY <1>1 DEF View, SameView

\* A packet that is taken is still to be shown to all.
LEMMA StartView ==
    ASSUME Typed, View, pc # "trigger", NEW packet \in Packet, NEW queued, Start(packet, queued)
    PROVE  View'
<1>1. taken \in Seq(Packet)
  BY DEF Typed, TypeOK
<1>2. /\ taken' = Append(taken, packet) /\ at' = 0 /\ pc' = "trigger"
      /\ current' = packet /\ seen' = seen
  BY DEF Start
<1>3. /\ Len(taken) \in Nat
      /\ Len(taken') = Len(taken) + 1
      /\ taken'[Len(taken')] = packet
      /\ \A k \in 1 .. Len(taken) : taken'[k] = taken[k]
  BY <1>1, <1>2, AppendProperties, LenProperties
<1>4. ASSUME NEW i \in Interps
      PROVE  seen'[i] = [k \in 1 .. (IF pc' = "trigger" /\ i > at'
                                      THEN Len(taken') - 1 ELSE Len(taken')) |-> taken'[k].tok]
  <2>1. seen[i] = [k \in 1 .. Len(taken) |-> taken[k].tok]
    BY <1>4 DEF View, SameView
  <2>2. i > at' /\ Len(taken') - 1 = Len(taken)
    BY <1>2, <1>3, <1>4 DEF Interps
  <2> QED
    BY <1>2, <1>3, <2>1, <2>2
<1>5. taken' # <<>>
  BY <1>1, <1>2, AppendProperties
<1> QED
  BY <1>2, <1>3, <1>4, <1>5 DEF View, SameView

\* The interpreter that is asked sees the packet after those before it.
LEMMA AnswerView ==
    ASSUME Typed, View, NEW v, Answer(v)
    PROVE  View'
<1>1. /\ pc = "trigger" /\ at < Interpreters /\ at' = at + 1
      /\ seen' = [seen EXCEPT ![at + 1] = Append(@, current.tok)]
      /\ UNCHANGED <<pc, taken, current>>
  BY DEF Answer
<1>2. at \in Nat /\ at + 1 \in Interps /\ Interpreters \in Nat
  BY <1>1, SizesAssumption DEF Typed, TypeOK, Interps
<1>3. taken \in Seq(Packet) /\ seen \in [Interps -> Seq(Nat)] /\ current.tok \in Nat
  BY DEF Typed, TypeOK, Packet
<1>4. Len(taken) \in Nat \ {0} /\ taken[Len(taken)] = current
  BY <1>1, <1>3, LenProperties, EmptySeq DEF View
<1>5. ASSUME NEW k \in 1 .. Len(taken) PROVE taken[k].tok \in Nat
  <2>1. taken[k] \in Packet
    BY <1>3, <1>5, ElementOfSeq
  <2> QED
    BY <2>1 DEF Packet
<1>6. seen'[at + 1] = Shown(Len(taken))
  <2>1. seen[at + 1] = Shown(Len(taken) - 1)
    <3>1. at + 1 > at
      BY <1>2
    <3> QED
      BY <1>1, <1>2, <3>1 DEF View, SameView, Shown
  <2>2. seen[at + 1] \in Seq(Nat)
    BY <1>2, <1>3
  <2>3. seen'[at + 1] = Append(seen[at + 1], current.tok)
    BY <1>1, <1>2, <1>3
  <2>4. Len(seen[at + 1]) = Len(taken) - 1
    BY <1>4, <2>1, <2>2, LenProperties DEF Shown
  <2>5. /\ seen'[at + 1] \in Seq(Nat)
        /\ Len(seen'[at + 1]) = Len(taken)
        /\ \A k \in 1 .. Len(taken) - 1 : seen'[at + 1][k] = seen[at + 1][k]
        /\ seen'[at + 1][Len(taken)] = current.tok
    BY <1>3, <1>4, <2>2, <2>3, <2>4, AppendProperties
  <2>6. \A k \in 1 .. Len(taken) : seen'[at + 1][k] = taken[k].tok
    <3>1. ASSUME NEW k \in 1 .. Len(taken), k # Len(taken)
          PROVE  seen'[at + 1][k] = taken[k].tok
      <4>1. k \in 1 .. Len(taken) - 1
        BY <1>4, <3>1
      <4> QED
        BY <2>1, <2>5, <4>1 DEF Shown
    <3> QED
      BY <1>4, <2>5, <3>1
  <2>7. Shown(Len(taken)) \in Seq(Nat) /\ Len(Shown(Len(taken))) = Len(taken)
    <3>1. Shown(Len(taken)) \in [1 .. Len(taken) -> Nat]
      BY <1>5 DEF Shown
    <3>2. Shown(Len(taken)) \in Seq(Nat)
      BY <1>4, <3>1, SeqDef
    <3> QED
      BY <1>4, <3>1, <3>2, LenProperties
  <2> QED
    BY <2>5, <2>6, <2>7, SeqEqual DEF Shown
<1>7. ASSUME NEW i \in Interps
      PROVE  seen'[i] = [k \in 1 .. (IF pc' = "trigger" /\ i > at'
                                      THEN Len(taken') - 1 ELSE Len(taken')) |-> taken'[k].tok]
  <2>1. CASE i = at + 1
    <3>1. ~(i > at')
      BY <1>1, <1>2, <2>1
    <3> QED
      BY <1>1, <1>6, <2>1, <3>1 DEF Shown
  <2>2. CASE i # at + 1
    <3>1. seen'[i] = seen[i]
      BY <1>1, <1>3, <2>2
    <3>2. (i > at') = (i > at)
      BY <1>1, <1>2, <1>7, <2>2 DEF Interps
    <3> QED
      BY <1>1, <1>7, <3>1, <3>2 DEF View, SameView
  <2> QED
    BY <2>1, <2>2
<1> QED
  BY <1>1, <1>7 DEF View, SameView

\* Every action keeps View.
LEMMA NextView == Typed /\ View /\ [Next]_vars => View'
<1> SUFFICES ASSUME Typed, View, [Next]_vars PROVE View'
  OBVIOUS
<1>0. queue \in Seq(Packet) /\ input \in Seq(Packet)
  BY DEF Typed, TypeOK
<1>1. CASE Receive
  BY <1>1, SameShown DEF Receive, BeginBuffer
<1>2. CASE TakeInput
  <2>1. Head(input) \in Packet
    BY <1>0, <1>2, HeadTailProperties DEF TakeInput
  <2> QED
    BY <1>2, <2>1, StartView DEF TakeInput
<1>3. CASE TakeQueued
  <2>1. Head(queue) \in Packet
    BY <1>0, <1>3, HeadTailProperties DEF TakeQueued
  <2> QED
    BY <1>3, <2>1, StartView DEF TakeQueued
<1>4. CASE DelayInput \/ EndInput \/ EndBuffer
  BY <1>4, SameShown DEF DelayInput, EndInput, EndBuffer, history
<1>5. CASE Interpret
  BY <1>5, AnswerView DEF Interpret, LeaveAlone, Block, Modify
<1>6. CASE Finish
  BY <1>6, SameShown
     DEF Finish, FinishBlocked, FinishOriginal, FinishModified, Triggered, Leave
<1>7. ASSUME NEW i \in Interps, NEW size \in InjectSizes, Inject(i, size)
      PROVE  View'
  BY <1>7, SameShown DEF Inject
<1>8. CASE Frame
  BY <1>8, SameShown DEF Frame, history
<1>9. CASE UNCHANGED vars
  BY <1>9, SameShown DEF vars, program, history
<1> QED
  BY <1>1, <1>2, <1>3, <1>4, <1>5, <1>6, <1>7, <1>8, <1>9 DEF Next, Process

\* All interpreters see the packets that were taken, in the order they were.
THEOREM SameViewHolds == Spec => []SameView
<1>1. Init => View
  BY EmptySeq DEF Init, View, SameView
<1>2. View => SameView
  BY DEF View
<1> QED
  BY <1>1, <1>2, NextView, Typing, PTL DEF Spec

-----------------------------------------------------------------------------
(***************************************************************************)
(* Injected packets keep their order                                       *)
(***************************************************************************)

\* The injected packets of a sequence come in the order of the calls.
Ordered(s) ==
    \A a, b \in DOMAIN s :
        a < b /\ s[a].by # Client /\ s[b].by # Client => s[a].tok < s[b].tok

\* Those of one were injected before those of the other.
Before(s, t) ==
    \A a \in DOMAIN s, b \in DOMAIN t :
        s[a].by # Client /\ t[b].by # Client => s[a].tok < t[b].tok

\* What was taken is older than what is queued, and that than what is pending.
InjectedOrder ==
    /\ Ordered(taken) /\ Ordered(Rest) /\ Ordered(pending)
    /\ Before(taken, Rest) /\ Before(taken, pending) /\ Before(Rest, pending)

\* A sequence and one more at its end.
LEMMA AppendAt ==
    ASSUME NEW s \in Seq(Packet), NEW p \in Packet
    PROVE  /\ Len(s) \in Nat
           /\ \A i \in DOMAIN Append(s, p) :
                 /\ i \in Nat /\ i <= Len(s) + 1
                 /\ i # Len(s) + 1 => i \in DOMAIN s /\ Append(s, p)[i] = s[i]
                 /\ i = Len(s) + 1 => Append(s, p)[i] = p
BY AppendProperties, LenProperties

\* One more packet is in order if it is not older than those before it.
LEMMA AppendOrdered ==
    ASSUME NEW s \in Seq(Packet), NEW p \in Packet, Ordered(s),
           \A a \in DOMAIN s : s[a].by # Client /\ p.by # Client => s[a].tok < p.tok
    PROVE  Ordered(Append(s, p))
<1> DEFINE t == Append(s, p)
<1>1. Len(s) \in Nat
  BY LenProperties
<1>2. \A i \in DOMAIN t :
          /\ i \in Nat /\ i <= Len(s) + 1
          /\ i # Len(s) + 1 => i \in DOMAIN s /\ t[i] = s[i]
          /\ i = Len(s) + 1 => t[i] = p
  BY AppendAt
<1> HIDE DEF t
<1>3. ASSUME NEW a \in DOMAIN t, NEW b \in DOMAIN t, a < b, t[a].by # Client, t[b].by # Client
      PROVE  t[a].tok < t[b].tok
  <2>1. a # Len(s) + 1
    BY <1>1, <1>2, <1>3
  <2>2. CASE b = Len(s) + 1
    BY <1>2, <1>3, <2>1, <2>2
  <2>3. CASE b # Len(s) + 1
    BY <1>2, <1>3, <2>1, <2>3 DEF Ordered
  <2> QED
    BY <2>2, <2>3
<1> QED
  BY <1>3 DEF Ordered, t

\* What is appended on the left is not younger than what is on the right.
LEMMA AppendBefore ==
    ASSUME NEW s \in Seq(Packet), NEW p \in Packet, NEW t, Before(s, t), Before(<<p>>, t)
    PROVE  Before(Append(s, p), t)
<1>1. ASSUME NEW a \in DOMAIN Append(s, p), NEW b \in DOMAIN t,
             Append(s, p)[a].by # Client, t[b].by # Client
      PROVE  Append(s, p)[a].tok < t[b].tok
  <2>1. CASE a = Len(s) + 1
    BY <1>1, <2>1, AppendAt DEF Before
  <2>2. CASE a # Len(s) + 1
    BY <1>1, <2>2, AppendAt DEF Before
  <2> QED
    BY <2>1, <2>2
<1> QED
  BY <1>1 DEF Before

\* What is appended on the right is not older than what is on the left.
LEMMA BeforeAppend ==
    ASSUME NEW s \in Seq(Packet), NEW p \in Packet, NEW t, Before(t, s), Before(t, <<p>>)
    PROVE  Before(t, Append(s, p))
<1>1. ASSUME NEW a \in DOMAIN t, NEW b \in DOMAIN Append(s, p),
             t[a].by # Client, Append(s, p)[b].by # Client
      PROVE  t[a].tok < Append(s, p)[b].tok
  <2>1. CASE b = Len(s) + 1
    BY <1>1, <2>1, AppendAt DEF Before
  <2>2. CASE b # Len(s) + 1
    BY <1>1, <2>2, AppendAt DEF Before
  <2> QED
    BY <2>1, <2>2
<1> QED
  BY <1>1 DEF Before

\* The elements of a concatenation.
LEMMA ConcatAt ==
    ASSUME NEW s \in Seq(Packet), NEW t \in Seq(Packet)
    PROVE  /\ s \o t \in Seq(Packet) /\ Len(s) \in Nat
           /\ \A i \in DOMAIN (s \o t) :
                 /\ i \in Nat
                 /\ i <= Len(s) => i \in DOMAIN s /\ (s \o t)[i] = s[i]
                 /\ i > Len(s) => i - Len(s) \in DOMAIN t /\ (s \o t)[i] = t[i - Len(s)]
BY ConcatProperties, LenProperties

\* Two sequences in order, one before the other.
LEMMA ConcatOrdered ==
    ASSUME NEW s \in Seq(Packet), NEW t \in Seq(Packet),
           Ordered(s), Ordered(t), Before(s, t)
    PROVE  Ordered(s \o t)
<1> DEFINE u == s \o t
<1>1. /\ Len(s) \in Nat
      /\ \A i \in DOMAIN u :
            /\ i \in Nat
            /\ i <= Len(s) => i \in DOMAIN s /\ u[i] = s[i]
            /\ i > Len(s) => i - Len(s) \in DOMAIN t /\ u[i] = t[i - Len(s)]
  BY ConcatAt
<1> HIDE DEF u
<1>2. ASSUME NEW a \in DOMAIN u, NEW b \in DOMAIN u, a < b, u[a].by # Client, u[b].by # Client
      PROVE  u[a].tok < u[b].tok
  <2>1. CASE b <= Len(s)
    <3>1. a <= Len(s)
      BY <1>1, <1>2, <2>1
    <3> QED
      BY <1>1, <1>2, <2>1, <3>1 DEF Ordered
  <2>2. CASE b > Len(s) /\ a <= Len(s)
    BY <1>1, <1>2, <2>2 DEF Before
  <2>3. CASE a > Len(s)
    <3>1. b > Len(s) /\ a - Len(s) < b - Len(s)
      BY <1>1, <1>2, <2>3
    <3> QED
      BY <1>1, <1>2, <2>3, <3>1 DEF Ordered
  <2> QED
    BY <1>1, <2>1, <2>2, <2>3
<1> QED
  BY <1>2 DEF Ordered, u

\* A concatenation is after what both its parts are after.
LEMMA BeforeConcat ==
    ASSUME NEW s \in Seq(Packet), NEW t \in Seq(Packet), NEW u, Before(u, s), Before(u, t)
    PROVE  Before(u, s \o t)
<1>1. ASSUME NEW a \in DOMAIN u, NEW b \in DOMAIN (s \o t),
             u[a].by # Client, (s \o t)[b].by # Client
      PROVE  u[a].tok < (s \o t)[b].tok
  <2>1. CASE b <= Len(s)
    BY <1>1, <2>1, ConcatAt DEF Before
  <2>2. CASE b > Len(s)
    BY <1>1, <2>2, ConcatAt DEF Before
  <2> QED
    BY <2>1, <2>2, ConcatAt
<1> QED
  BY <1>1 DEF Before

\* A concatenation is before what both its parts are before.
LEMMA ConcatBefore ==
    ASSUME NEW s \in Seq(Packet), NEW t \in Seq(Packet), NEW u, Before(s, u), Before(t, u)
    PROVE  Before(s \o t, u)
<1>1. ASSUME NEW a \in DOMAIN (s \o t), NEW b \in DOMAIN u,
             (s \o t)[a].by # Client, u[b].by # Client
      PROVE  (s \o t)[a].tok < u[b].tok
  <2>1. CASE a <= Len(s)
    BY <1>1, <2>1, ConcatAt DEF Before
  <2>2. CASE a > Len(s)
    BY <1>1, <2>2, ConcatAt DEF Before
  <2> QED
    BY <2>1, <2>2, ConcatAt
<1> QED
  BY <1>1 DEF Before

\* What leaves a queue in order at its front is older than the rest.
LEMMA TailOrdered ==
    ASSUME NEW s \in Seq(Packet), s # <<>>, Ordered(s)
    PROVE  /\ Ordered(Tail(s))
           /\ Before(<<Head(s)>>, Tail(s))
           /\ \A u : Before(u, s) => Before(u, Tail(s))
           /\ \A u : Before(s, u) => Before(<<Head(s)>>, u) /\ Before(Tail(s), u)
<1>1. \A i \in DOMAIN Tail(s) : i \in Nat /\ i + 1 \in DOMAIN s /\ Tail(s)[i] = s[i + 1]
  BY TailAt
<1>2. Head(s) = s[1] /\ 1 \in DOMAIN s
  BY HeadTailProperties, LenProperties, EmptySeq
<1>3. \A i \in DOMAIN <<Head(s)>> : <<Head(s)>>[i] = s[1]
  BY <1>2
<1>4. Ordered(Tail(s))
  <2>1. ASSUME NEW a \in DOMAIN Tail(s), NEW b \in DOMAIN Tail(s), a < b,
               Tail(s)[a].by # Client, Tail(s)[b].by # Client
        PROVE  Tail(s)[a].tok < Tail(s)[b].tok
    <3>1. a + 1 < b + 1
      BY <1>1, <2>1
    <3> QED
      BY <1>1, <2>1, <3>1 DEF Ordered
  <2> QED
    BY <2>1 DEF Ordered
<1>5. Before(<<Head(s)>>, Tail(s))
  <2>1. ASSUME NEW b \in DOMAIN Tail(s), s[1].by # Client, Tail(s)[b].by # Client
        PROVE  s[1].tok < Tail(s)[b].tok
    <3>1. 1 < b + 1
      <4>1. b \in Nat /\ b # 0
        BY <2>1, TailAt, LenProperties
      <4> QED
        BY <4>1
    <3> QED
      BY <1>1, <1>2, <2>1, <3>1 DEF Ordered
  <2> QED
    BY <1>3, <2>1 DEF Before
<1>6. ASSUME NEW u, Before(u, s) PROVE Before(u, Tail(s))
  BY <1>1, <1>6 DEF Before
<1>7. ASSUME NEW u, Before(s, u) PROVE Before(<<Head(s)>>, u) /\ Before(Tail(s), u)
  BY <1>1, <1>2, <1>3, <1>7 DEF Before
<1> QED
  BY <1>4, <1>5, <1>6, <1>7

\* A packet of the client has no place in the order.
LEMMA ClientOrdered ==
    ASSUME NEW p \in Packet, p.by = Client
    PROVE  /\ <<p>> \in Seq(Packet) /\ Ordered(<<p>>)
           /\ \A u : Before(<<p>>, u) /\ Before(u, <<p>>)
<1>1. \A i \in DOMAIN <<p>> : <<p>>[i] = p
  OBVIOUS
<1> QED
  BY <1>1 DEF Ordered, Before

\* A step that takes, queues and injects nothing keeps the order.
LEMMA SameOrder == InjectedOrder /\ UNCHANGED <<Rest, pending, taken>> => InjectedOrder'
BY DEF InjectedOrder, Ordered, Before

\* Tokens are given out in order, so a new one is younger than all there are.
LEMMA NewestToken ==
    ASSUME Inv, NEW p, p.tok = made + 1
    PROVE  /\ Before(taken, <<p>>) /\ Before(Rest, <<p>>) /\ Before(pending, <<p>>)
           /\ \A a \in DOMAIN pending : pending[a].tok < p.tok
<1>1. made \in Nat
  BY DEF Inv, Typed, TypeOK
<1>2. \A i \in DOMAIN <<p>> : <<p>>[i] = p
  OBVIOUS
<1>3. /\ \A a \in DOMAIN taken : taken[a].tok \in 1 .. made
      /\ \A a \in DOMAIN Rest : Rest[a].tok \in 1 .. made
      /\ \A a \in DOMAIN pending : pending[a].tok \in 1 .. made
  BY DEF Inv, HandledOnce, AllMade, Tokens
<1>4. \A k \in 1 .. made : k < p.tok
  BY <1>1
<1> QED
  BY <1>2, <1>3, <1>4 DEF Before

\* Every action keeps InjectedOrder.
LEMMA NextInjectedOrder == Inv /\ ClientFirst /\ InjectedOrder /\ [Next]_vars => InjectedOrder'
<1> SUFFICES ASSUME Inv, ClientFirst, InjectedOrder, [Next]_vars PROVE InjectedOrder'
  OBVIOUS
<1>0. /\ queue \in Seq(Packet) /\ pending \in Seq(Packet)
      /\ input \in Seq(Packet) /\ taken \in Seq(Packet)
  BY DEF Inv, Typed, TypeOK
<1>1. CASE Receive
  BY <1>1, SameOrder DEF Receive, BeginBuffer, Rest
<1>2. CASE TakeInput
  <2> DEFINE p == Head(input)
  <2>1. /\ pc = "input" /\ input # <<>> /\ pc' = "trigger" /\ fromQueue' = FALSE
        /\ taken' = Append(taken, p) /\ UNCHANGED <<queue, pending>>
    BY <1>2 DEF TakeInput, Start
  <2>2. p = input[1] /\ 1 \in DOMAIN input /\ p \in Packet
    BY <1>0, <2>1, HeadTailProperties, LenProperties, EmptySeq
  <2>3. p.by = Client
    BY <2>2 DEF ClientFirst
  <2> HIDE DEF p
  <2>4. Rest = queue /\ Rest' = queue
    BY <2>1 DEF Rest
  <2>5. Ordered(taken')
    BY <1>0, <2>1, <2>2, <2>3, AppendOrdered DEF InjectedOrder
  <2>6. Before(taken', queue) /\ Before(taken', pending)
    BY <1>0, <2>1, <2>2, <2>3, <2>4, AppendBefore, ClientOrdered DEF InjectedOrder
  <2> QED
    BY <2>1, <2>4, <2>5, <2>6 DEF InjectedOrder
<1>3. CASE DelayInput
  <2> DEFINE p == Head(input)
  <2>1. /\ pc = "input" /\ input # <<>> /\ pc' = "input"
        /\ queue' = <<p>> \o queue /\ UNCHANGED <<pending, taken>>
    BY <1>3 DEF DelayInput, history
  <2>2. p = input[1] /\ 1 \in DOMAIN input /\ p \in Packet
    BY <1>0, <2>1, HeadTailProperties, LenProperties, EmptySeq
  <2>3. p.by = Client
    BY <2>2 DEF ClientFirst
  <2> HIDE DEF p
  <2>4. Rest = queue /\ Rest' = <<p>> \o queue
    BY <2>1 DEF Rest
  <2>5. <<p>> \in Seq(Packet) /\ Ordered(<<p>>) /\ \A u : Before(<<p>>, u) /\ Before(u, <<p>>)
    BY <2>2, <2>3, ClientOrdered
  <2>6. Ordered(<<p>> \o queue)
    BY <1>0, <2>4, <2>5, ConcatOrdered DEF InjectedOrder
  <2>7. Before(taken, <<p>> \o queue)
    BY <1>0, <2>4, <2>5, BeforeConcat DEF InjectedOrder
  <2>8. Before(<<p>> \o queue, pending)
    BY <1>0, <2>4, <2>5, ConcatBefore DEF InjectedOrder
  <2> QED
    BY <2>1, <2>4, <2>6, <2>7, <2>8 DEF InjectedOrder
<1>4. CASE TakeQueued
  <2> DEFINE p == Head(queue)
  <2>1. /\ pc = "drain" /\ queue # <<>> /\ pc' = "trigger" /\ fromQueue' = TRUE
        /\ taken' = Append(taken, p) /\ UNCHANGED <<queue, pending>>
    BY <1>4 DEF TakeQueued, Start
  <2>2. p = queue[1] /\ 1 \in DOMAIN queue /\ p \in Packet
    BY <1>0, <2>1, HeadTailProperties, LenProperties, EmptySeq
  <2>3. Rest = queue /\ Rest' = Tail(queue)
    BY <2>1 DEF Rest
  <2>4. /\ Ordered(Tail(queue)) /\ Before(<<p>>, Tail(queue))
        /\ Before(taken, Tail(queue)) /\ Before(Tail(queue), pending)
        /\ Before(<<p>>, pending)
    BY <1>0, <2>1, <2>3, TailOrdered DEF InjectedOrder
  <2>5. \A a \in DOMAIN taken : taken[a].by # Client /\ p.by # Client => taken[a].tok < p.tok
    BY <2>2, <2>3 DEF InjectedOrder, Before
  <2> HIDE DEF p
  <2>6. Ordered(taken')
    BY <1>0, <2>1, <2>2, <2>5, AppendOrdered DEF InjectedOrder
  <2>7. Before(taken', Tail(queue))
    BY <1>0, <2>1, <2>2, <2>4, AppendBefore
  <2>8. Before(taken', pending)
    BY <1>0, <2>1, <2>2, <2>4, AppendBefore DEF InjectedOrder
  <2> QED
    BY <2>1, <2>3, <2>4, <2>6, <2>7, <2>8 DEF InjectedOrder
<1>5. CASE EndInput \/ EndBuffer
  BY <1>5, SameOrder DEF EndInput, EndBuffer, history, Rest
<1>6. CASE Interpret
  <2>1. UNCHANGED <<queue, pc, fromQueue, pending, taken>>
    BY <1>6 DEF Interpret, LeaveAlone, Block, Modify, Answer
  <2> QED
    BY <2>1, SameOrder DEF Rest
<1>7. CASE Finish
  <2>1. /\ pc = "trigger" /\ pc' # "trigger" /\ UNCHANGED <<pending, taken>>
        /\ queue' = IF fromQueue THEN Tail(queue) ELSE queue
    BY <1>7 DEF Finish, FinishBlocked, FinishOriginal, FinishModified, Triggered, Leave
  <2>2. Rest' = Rest
    BY <2>1 DEF Rest
  <2> QED
    BY <2>1, <2>2, SameOrder
<1>8. ASSUME NEW i \in Interps, NEW size \in InjectSizes, Inject(i, size)
      PROVE  InjectedOrder'
  <2> DEFINE p == [tok |-> made + 1, by |-> i, size |-> Padded(size)]
  <2>1. pending' = Append(pending, p) /\ UNCHANGED <<queue, pc, fromQueue, taken>>
    BY <1>8 DEF Inject
  <2>2. p \in Packet /\ p.tok = made + 1
    BY PaddedNat, SizesAssumption DEF Packet, Inv, Typed, TypeOK
  <2> HIDE DEF p
  <2>3. /\ Before(taken, <<p>>) /\ Before(Rest, <<p>>)
        /\ \A a \in DOMAIN pending : pending[a].tok < p.tok
    BY <2>2, NewestToken
  <2>4. Rest' = Rest
    BY <2>1 DEF Rest
  <2>5. Ordered(pending')
    BY <1>0, <2>1, <2>2, <2>3, AppendOrdered DEF InjectedOrder
  <2>6. Before(taken, pending')
    BY <1>0, <2>1, <2>2, <2>3, BeforeAppend DEF InjectedOrder
  <2>7. Before(Rest, pending')
    BY <1>0, <2>1, <2>2, <2>3, BeforeAppend DEF InjectedOrder
  <2> QED
    BY <2>1, <2>4, <2>5, <2>6, <2>7 DEF InjectedOrder, Ordered, Before
<1>9. CASE Frame
  <2>1. /\ pc = "idle" /\ pc' = "idle" /\ queue' = queue \o pending
        /\ pending' = <<>> /\ taken' = taken
    BY <1>9 DEF Frame, history
  <2>2. Rest = queue /\ Rest' = queue \o pending
    BY <2>1 DEF Rest
  <2>3. Ordered(queue \o pending)
    BY <1>0, <2>2, ConcatOrdered DEF InjectedOrder
  <2>4. Before(taken, queue \o pending)
    BY <1>0, <2>2, BeforeConcat DEF InjectedOrder
  <2>5. DOMAIN pending' = {}
    BY <2>1
  <2>6. Ordered(pending') /\ Before(taken', pending') /\ Before(Rest', pending')
    BY <2>5 DEF Ordered, Before
  <2> QED
    BY <2>1, <2>2, <2>3, <2>4, <2>6 DEF InjectedOrder
<1>10. CASE UNCHANGED vars
  BY <1>10, SameOrder DEF vars, program, history, Rest
<1> QED
  BY <1>1, <1>2, <1>3, <1>4, <1>5, <1>6, <1>7, <1>8, <1>9, <1>10 DEF Next, Process

\* Injected packets reach the interpreters in the order of the inject calls,
\* whatever is delayed in between.
THEOREM InjectedInOrderHolds == Spec => []InjectedInOrder
<1>1. Init => ClientFirst /\ InjectedOrder
  <2> SUFFICES ASSUME Init PROVE ClientFirst /\ InjectedOrder
    OBVIOUS
  <2>1. Rest = <<>> /\ taken = <<>> /\ pending = <<>> /\ queue = <<>> /\ input = <<>>
    BY DEF Init, Rest
  <2> QED
    BY <2>1 DEF ClientFirst, InjectedOrder, Ordered, Before
<1>2. Inv => Typed
  BY DEF Inv
<1>3. InjectedOrder => InjectedInOrder
  BY DEF InjectedOrder, Ordered, InjectedInOrder
<1> QED
  BY <1>1, <1>2, <1>3, NextClientFirst, NextInjectedOrder, Invariance, PTL DEF Spec
=============================================================================

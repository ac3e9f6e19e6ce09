---------------------------- MODULE PacketQueue ----------------------------
(***************************************************************************)
(* One direction of the packet pipeline: windower::packet_queue, the       *)
(* trigger_packet chain that shows a packet to every Lua interpreter, and  *)
(* the injection path of the core.packet module.                           *)
(*                                                                         *)
(* The game hands the hook a buffer of packets; process_buffer shows each  *)
(* one to the interpreters and writes it, unless it is blocked, to an      *)
(* output buffer.  A client packet the output has no room for is put at    *)
(* the front of m_queue.  When the input is used up, m_queue is drained    *)
(* into the room that is left.  An addon injects a packet by queueing a    *)
(* function that the next frame runs, and that appends it to m_queue.      *)
(*                                                                         *)
(* A packet is known by its token: client packets are numbered when they   *)
(* arrive and injected ones when they are injected, from the same counter. *)
(* Its bytes are abstracted to their number.                               *)
(***************************************************************************)
EXTENDS Integers, Sequences, SequencesExt

CONSTANTS
    Interpreters,   \* how many interpreters there are: the script environment, then the addons
    ClientSizes,    \* data sizes of the packets the game sends or receives
    InjectSizes,    \* data sizes of the packets addons ask to inject
    ResultSizes,    \* data sizes a handler may change a packet to
    OutputSizes,    \* output_size arguments of process_buffer
    MaxBuffer,      \* bound: packets in one input buffer
    MaxPackets      \* bound: packets in the whole run

(***************************************************************************)
(* A client packet's size was read from its header, so it is a multiple of *)
(* four that fits the header.  verify_packet limits what can be injected.  *)
(* What a handler assigns to p.data is not checked at all.                 *)
(***************************************************************************)
ASSUME SizesAssumption ==
    /\ Interpreters \in Nat
    /\ ClientSizes \subseteq {4 * k : k \in 0 .. 126}
    /\ InjectSizes \subseteq 0 .. 508
    /\ ResultSizes \subseteq Nat
    /\ OutputSizes \subseteq Nat
    /\ MaxBuffer \in Nat
    /\ MaxPackets \in Nat

VARIABLES
    queue,      \* m_queue
    pending,    \* the functions given to run_on_next_frame, each queueing one packet
    bufSize,    \* m_output_buffer.size(), which never shrinks
    room,       \* output.size(): what is left of the output buffer
    input,      \* what is left of the input of the process_buffer call under way
    output,     \* the packets written by the call under way, with their offsets
    pc,         \* where the game's thread is
    current,    \* the packet process_packet is at work on
    fromQueue,  \* whether it is m_queue.front()
    at,         \* how many interpreters have seen it
    verdict,    \* blocked, unchanged and the result of trigger_packet
    made,       \* how many packets there have been
    taken,      \* history: the packets given to process_packet, in order
    sent,       \* history: the tokens written to an output buffer
    dropped,    \* history: the tokens left out of the output as blocked
    vetoed,     \* history: the tokens some interpreter has blocked
    seen        \* history: the tokens each interpreter has seen, in order

program == <<queue, pending, bufSize, room, input, output, pc, current,
             fromQueue, at, verdict>>
history == <<made, taken, sent, dropped, vetoed, seen>>
vars == <<program, history>>

-----------------------------------------------------------------------------
HeaderSize == 4
Client == 0                                 \* an empty injected_by

Interps == 1 .. Interpreters
Packet == [tok : Nat, by : Interps \cup {Client}, size : Nat]
Verdict == [blocked : BOOLEAN, unchanged : BOOLEAN, size : Nat]
Written == [tok : Nat, by : Interps \cup {Client}, start : Int, size : Nat,
            modified : BOOLEAN]

Unchanged == [blocked |-> FALSE, unchanged |-> TRUE, size |-> 0]
NoPacket == [tok |-> 0, by |-> Client, size |-> 0]

Larger(a, b) == IF a < b THEN b ELSE a

\* verify_packet pads the data to whole words.
Padded(size) == 4 * ((size + 3) \div 4)

\* The seven bits packet_header keeps of the size, in words, header included.
HeaderField(size) == ((size + HeaderSize) \div 4) % 128

\* m_queue.front() fits the room left (peek_size).
Fits(packet) == packet.size + HeaderSize <= room

Init ==
    /\ queue = <<>> /\ pending = <<>>
    /\ bufSize = 0 /\ room = 0
    /\ input = <<>> /\ output = <<>>
    /\ pc = "idle" /\ current = NoPacket /\ fromQueue = FALSE
    /\ at = 0 /\ verdict = Unchanged
    /\ made = 0 /\ taken = <<>> /\ sent = {} /\ dropped = {}
    /\ vetoed = {}
    /\ seen = [i \in Interps |-> <<>>]

-----------------------------------------------------------------------------
(***************************************************************************)
(* process_buffer                                                          *)
(***************************************************************************)

\* The game calls the hook with packets of the given sizes.
BeginBuffer(sizes, size) ==
    /\ pc = "idle"
    /\ made + Len(sizes) <= MaxPackets
    /\ bufSize' = Larger(bufSize, size)
    /\ room' = bufSize'
    /\ input' = [i \in 1 .. Len(sizes) |->
                    [tok |-> made + i, by |-> Client, size |-> sizes[i]]]
    /\ output' = <<>>
    /\ made' = made + Len(sizes)
    /\ pc' = "input"
    /\ UNCHANGED <<queue, pending, current, fromQueue, at, verdict, taken,
                   sent, dropped, vetoed, seen>>

\* process_packet is entered: trigger_packet starts from an empty result.
Start(packet, queued) ==
    /\ current' = packet
    /\ fromQueue' = queued
    /\ at' = 0
    /\ verdict' = Unchanged
    /\ taken' = Append(taken, packet)
    /\ pc' = "trigger"
    /\ UNCHANGED <<pending, bufSize, room, output, made, sent, dropped,
                   vetoed, seen>>

\* The next client packet has room.
TakeInput ==
    /\ pc = "input"
    /\ input # <<>>
    /\ Fits(Head(input))
    /\ input' = Tail(input)
    /\ Start(Head(input), FALSE)
    /\ UNCHANGED queue

\* Mutant of DelayInput: the packet goes behind what is queued (emplace_back).
DelayAtBack ==
    /\ pc = "input"
    /\ input # <<>>
    /\ ~Fits(Head(input))
    /\ queue' = Append(queue, Head(input))
    /\ input' = Tail(input)
    /\ UNCHANGED <<pending, bufSize, room, output, pc, current, fromQueue, at,
                   verdict, history>>

\* Mutant of DelayInput: a packet without room is skipped.
SkipInput ==
    /\ pc = "input"
    /\ input # <<>>
    /\ ~Fits(Head(input))
    /\ input' = Tail(input)
    /\ UNCHANGED <<queue, pending, bufSize, room, output, pc, current, fromQueue,
                   at, verdict, history>>

\* The next client packet has no room: it is delayed (emplace_front).
DelayInput ==
    /\ pc = "input"
    /\ input # <<>>
    /\ ~Fits(Head(input))
    /\ queue' = <<Head(input)>> \o queue
    /\ input' = Tail(input)
    /\ UNCHANGED <<pending, bufSize, room, output, pc, current, fromQueue, at,
                   verdict, history>>

EndInput ==
    /\ pc = "input"
    /\ input = <<>>
    /\ pc' = "drain"
    /\ UNCHANGED <<queue, pending, bufSize, room, input, output, current,
                   fromQueue, at, verdict, history>>

\* m_queue.front() has room.  It stays in m_queue while it is processed.
TakeQueued ==
    /\ pc = "drain"
    /\ queue # <<>>
    /\ Fits(Head(queue))
    /\ Start(Head(queue), TRUE)
    /\ UNCHANGED <<queue, input>>

EndBuffer ==
    /\ pc = "drain"
    /\ queue # <<>> => ~Fits(Head(queue))
    /\ pc' = "idle"
    /\ UNCHANGED <<queue, pending, bufSize, room, input, output, current,
                   fromQueue, at, verdict, history>>

-----------------------------------------------------------------------------
(***************************************************************************)
(* trigger_packet: every interpreter sees the packet, also a blocked one,  *)
(* as the one before it left it.                                           *)
(***************************************************************************)

\* Mutant of Answer: a blocked packet is not shown to the interpreters left.
AnswerUnlessBlocked(v) ==
    /\ pc = "trigger"
    /\ at < Interpreters
    /\ at' = at + 1
    /\ seen' = IF verdict.blocked THEN seen
               ELSE [seen EXCEPT ![at + 1] = Append(@, current.tok)]
    /\ verdict' = IF verdict.blocked THEN verdict ELSE v
    /\ UNCHANGED <<queue, pending, bufSize, room, input, output, pc, current,
                   fromQueue, made, taken, sent, dropped>>

\* Mutant of Answer: the last answer wins.
AnswerLastWins(v) ==
    /\ pc = "trigger"
    /\ at < Interpreters
    /\ at' = at + 1
    /\ seen' = [seen EXCEPT ![at + 1] = Append(@, current.tok)]
    /\ verdict' = v
    /\ UNCHANGED <<queue, pending, bufSize, room, input, output, pc, current,
                   fromQueue, made, taken, sent, dropped>>

\* Mutant of Answer: one interpreter too many is asked.
AnswerOneMore(v) ==
    /\ pc = "trigger"
    /\ at <= Interpreters
    /\ at' = at + 1
    /\ seen' = [seen EXCEPT ![(at % Interpreters) + 1] = Append(@, current.tok)]
    /\ verdict' = IF verdict.blocked THEN verdict ELSE v
    /\ UNCHANGED <<queue, pending, bufSize, room, input, output, pc, current,
                   fromQueue, made, taken, sent, dropped>>

\* The interpreter's answer becomes v unless the packet is blocked already.
Answer(v) ==
    /\ pc = "trigger"
    /\ at < Interpreters
    /\ at' = at + 1
    /\ seen' = [seen EXCEPT ![at + 1] = Append(@, current.tok)]
    /\ verdict' = IF verdict.blocked THEN verdict ELSE v
    /\ UNCHANGED <<queue, pending, bufSize, room, input, output, pc, current,
                   fromQueue, made, taken, sent, dropped>>

LeaveAlone ==
    /\ Answer(verdict)
    /\ UNCHANGED vetoed

Block ==
    /\ Answer([verdict EXCEPT !.blocked = TRUE])
    /\ vetoed' = vetoed \cup {current.tok}

Modify(size) ==
    /\ Answer([blocked |-> FALSE, unchanged |-> FALSE, size |-> size])
    /\ UNCHANGED vetoed

-----------------------------------------------------------------------------
(***************************************************************************)
(* The rest of process_packet, and pop_front for a queued packet.          *)
(***************************************************************************)
\* Mutant of Leave: a queued packet is never popped.
LeaveQueued ==
    /\ UNCHANGED queue
    /\ pc' = IF fromQueue THEN "drain" ELSE "input"
    /\ UNCHANGED <<pending, bufSize, input, current, fromQueue, at, verdict,
                   made, taken, vetoed, seen>>

Leave ==
    /\ queue' = IF fromQueue THEN Tail(queue) ELSE queue
    /\ pc' = IF fromQueue THEN "drain" ELSE "input"
    /\ UNCHANGED <<pending, bufSize, input, current, fromQueue, at, verdict,
                   made, taken, vetoed, seen>>

Write(size, modified) ==
    /\ output' = Append(output, [tok |-> current.tok, by |-> current.by,
                                 start |-> bufSize - room, size |-> size,
                                 modified |-> modified])
    /\ room' = room - (size + HeaderSize)
    /\ sent' = sent \cup {current.tok}
    /\ UNCHANGED dropped

Triggered == pc = "trigger" /\ at = Interpreters

\* A result that does not fit is dropped and the original written.
ResultFits == verdict.size + HeaderSize <= room

FinishBlocked ==
    /\ Triggered
    /\ verdict.blocked
    /\ dropped' = dropped \cup {current.tok}
    /\ UNCHANGED <<output, room, sent>>
    /\ Leave

FinishOriginal ==
    /\ Triggered
    /\ ~verdict.blocked
    /\ verdict.unchanged \/ ~ResultFits
    /\ Write(current.size, FALSE)
    /\ Leave

FinishModified ==
    /\ Triggered
    /\ ~verdict.blocked
    /\ ~verdict.unchanged
    /\ ResultFits
    /\ Write(verdict.size, TRUE)
    /\ Leave

-----------------------------------------------------------------------------
(***************************************************************************)
(* Injection                                                               *)
(***************************************************************************)

\* inject_incoming or inject_outgoing, from a handler or from any other code
\* of the interpreter: the packet is queued on the next frame.
Inject(i, size) ==
    /\ made < MaxPackets
    /\ size < 509
    /\ made' = made + 1
    /\ pending' = Append(pending, [tok |-> made + 1, by |-> i, size |-> Padded(size)])
    /\ UNCHANGED <<queue, bufSize, room, input, output, pc, current, fromQueue,
                   at, verdict, taken, sent, dropped, vetoed, seen>>

\* Mutant of Frame: the functions' packets go before those already queued.
FrameAtFront ==
    /\ pc = "idle"
    /\ pending # <<>>
    /\ queue' = pending \o queue
    /\ pending' = <<>>
    /\ UNCHANGED <<bufSize, room, input, output, pc, current, fromQueue, at,
                   verdict, history>>

\* Mutant of Frame: only the first of the queued functions is run.
FrameFirstOnly ==
    /\ pc = "idle"
    /\ pending # <<>>
    /\ queue' = Append(queue, Head(pending))
    /\ pending' = <<>>
    /\ UNCHANGED <<bufSize, room, input, output, pc, current, fromQueue, at,
                   verdict, history>>

\* core::update runs the queued functions.  The game draws and handles packets
\* on one thread, so no process_buffer is under way.
Frame ==
    /\ pc = "idle"
    /\ pending # <<>>
    /\ queue' = queue \o pending
    /\ pending' = <<>>
    /\ UNCHANGED <<bufSize, room, input, output, pc, current, fromQueue, at,
                   verdict, history>>

-----------------------------------------------------------------------------
Interpret ==
    \/ LeaveAlone
    \/ Block
    \/ \E size \in ResultSizes : Modify(size)

Finish == FinishBlocked \/ FinishOriginal \/ FinishModified

Process ==
    \/ TakeInput
    \/ DelayInput
    \/ EndInput
    \/ TakeQueued
    \/ EndBuffer
    \/ Interpret
    \/ Finish

\* A buffer of the game's.  Each header gives the size of what follows it; one that gives
\* more than is left, which process_buffer skips, is left out.
Receive ==
    \E size \in OutputSizes, sizes \in BoundedSeq(ClientSizes, MaxBuffer) :
        BeginBuffer(sizes, size)

Next ==
    \/ Receive
    \/ Process
    \/ \E i \in Interps, size \in InjectSizes : Inject(i, size)
    \/ Frame

Spec == Init /\ [][Next]_vars

(***************************************************************************)
(* The game keeps calling the hook, with an empty buffer when it has       *)
(* nothing to send (encode_packet expects one), and every handler returns. *)
(* Frame is disabled while a buffer is handled, so weak fairness would not *)
(* be enough for it: the game's loop draws a frame every time round.       *)
(***************************************************************************)
FairSpec ==
    /\ Spec
    /\ WF_vars(Receive)
    /\ WF_vars(Process)
    /\ SF_vars(Frame)

-----------------------------------------------------------------------------
(***************************************************************************)
(* Properties                                                              *)
(***************************************************************************)
Tokens(packets) == {packets[i].tok : i \in DOMAIN packets}

\* The packets that have arrived and are neither written nor blocked.
Waiting ==
    Tokens(input) \cup Tokens(queue) \cup Tokens(pending)
        \cup (IF pc = "trigger" THEN {current.tok} ELSE {})

End(written) == written.start + HeaderSize + written.size

TypeOK ==
    /\ queue \in Seq(Packet) /\ pending \in Seq(Packet) /\ input \in Seq(Packet)
    /\ bufSize \in Nat /\ room \in Int
    /\ output \in Seq(Written)
    /\ pc \in {"idle", "input", "trigger", "drain"}
    /\ current \in Packet /\ fromQueue \in BOOLEAN
    /\ at \in 0 .. Interpreters /\ verdict \in Verdict
    /\ made \in Nat /\ taken \in Seq(Packet)
    /\ sent \subseteq Nat /\ dropped \subseteq Nat /\ vetoed \subseteq Nat
    /\ seen \in [Interps -> Seq(Nat)]

\* What process_buffer writes is laid end to end from the start of
\* m_output_buffer and never passes its end, whatever the handlers make of the
\* packets.
OutputFits ==
    /\ \A k \in DOMAIN output :
          output[k].start = (IF k = 1 THEN 0 ELSE End(output[k - 1]))
    /\ \A k \in DOMAIN output : End(output[k]) <= bufSize

\* A packet is shown to the interpreters once: not again after it was delayed,
\* and not again from the queue.
ShownOnce == IsInjective(taken)

\* Every interpreter sees the same packets in the same order, blocked ones and
\* injected ones included; only the packet under way may be missing.
SameView ==
    \A i \in Interps :
        seen[i] = [k \in 1 .. (IF pc = "trigger" /\ i > at
                                THEN Len(taken) - 1 ELSE Len(taken)) |-> taken[k].tok]

\* A packet one interpreter blocked stays blocked, whatever the interpreters
\* after it answer.
BlockSticks == sent \cap vetoed = {}

\* Injected packets reach the interpreters in the order of the inject calls.
InjectedInOrder ==
    \A a, b \in DOMAIN taken :
        a < b /\ taken[a].by # Client /\ taken[b].by # Client
            => taken[a].tok < taken[b].tok

\* Packets of the client reach the interpreters in the order the client gave
\* them.  This fails: two packets delayed by one call change places.
ClientInOrder ==
    \A a, b \in DOMAIN taken :
        a < b /\ taken[a].by = Client /\ taken[b].by = Client
            => taken[a].tok < taken[b].tok

\* No injected packet overtakes a client packet that was delayed.
DelayedFirst ==
    [][pc = "drain" /\ pc' = "trigger" /\ current'.by # Client
        => \A p \in ToSet(queue) : p.by # Client]_vars

\* The header written before an injected packet nobody changed gives the size
\* of the data that follows it.  This fails for the largest size that
\* verify_packet lets through.
InjectedFramed ==
    \A p \in ToSet(output) :
        p.by # Client /\ ~p.modified => 4 * HeaderField(p.size) = p.size + HeaderSize

\* A packet is delivered or blocked, once, and never lost (see PacketDelivery).
Delivery == INSTANCE PacketDelivery WITH
    arrived <- 1 .. made, waiting <- Waiting,
    delivered <- sent, blocked <- dropped

DeliverySpec == Delivery!Spec

\* When no more packets come, those that wait are written or blocked in the end, however
\* often they were delayed.  While packets of the client go on coming nothing is promised:
\* they are served first, and if they fill every buffer the queued and the injected ones
\* wait for ever (packet_queue.cpp:128-150).
HandledWhenNoMoreCome == []<><<made' # made>>_vars \/ <>[](sent \cup dropped = 1 .. made)
=============================================================================

--------------------------- MODULE ChannelProofs ---------------------------
(***************************************************************************)
(* Messages of an endpoint come out in the order they went in, for every    *)
(* number of endpoints and callers, whatever their calls interleave.        *)
(***************************************************************************)
EXTENDS Channel, SequenceTheorems, TLAPS

Message == [n : Nat, size : 0 .. MAX_MSG_SIZE]

(* A caller's place in a call: with the message it carries or, for the last *)
(* step of close, without one.                                              *)
Place ==
    {ChIdle}
    \cup [at : {"check", "push", "add", "signal", "sub", "space"}, ep : Endpoints, msg : Message]
    \cup [at : {"signal"}, ep : Endpoints]

(* The inductive invariant: the types, and what is queued is what was       *)
(* pushed less what was popped.                                             *)
ChannelInv ==
    /\ ChannelTypeOK
    /\ ch_call \in [ChCallers -> Place]
    /\ ch_numbers \in Nat
    /\ ch_queue \in [Endpoints -> Seq(Message)]
    /\ ch_sent \in [Endpoints -> Seq(Message)]
    /\ ch_got \in [Endpoints -> Seq(Message)]
    /\ DeliveredInOrder

(* Popping the head of a queue and appending it to what was read leaves the *)
(* whole history as it was.                                                 *)
LEMMA PopKeepsHistory ==
    ASSUME NEW S, NEW got \in Seq(S), NEW q \in Seq(S), q # << >>
    PROVE  Append(got, Head(q)) \o Tail(q) = got \o q
<1>1. Head(q) \in S /\ Tail(q) \in Seq(S) /\ <<Head(q)>> \in Seq(S)
  BY HeadTailProperties
<1>2. <<Head(q)>> \o Tail(q) = q
  <2>1. Len(q) \in Nat /\ Len(Tail(q)) = Len(q) - 1
    BY LenProperties, HeadTailProperties
  <2>2. /\ <<Head(q)>> \o Tail(q) \in Seq(S)
        /\ Len(<<Head(q)>> \o Tail(q)) = Len(q)
    BY <1>1, <2>1, ConcatProperties
  <2>3. ASSUME NEW i \in 1 .. Len(q)
        PROVE  (<<Head(q)>> \o Tail(q))[i] = q[i]
    BY <1>1, <2>1, HeadTailProperties, ConcatProperties
  <2>4. QED
    BY <2>2, <2>3, SeqEqual
<1>3. Append(got, Head(q)) = got \o <<Head(q)>>
  BY <1>1, AppendIsConcat
<1>4. QED
  BY SMTT(40), <1>1, <1>2, <1>3, ConcatAssociative

(* Appending a message to a queue appends it to the history.                *)
LEMMA PushKeepsHistory ==
    ASSUME NEW S, NEW got \in Seq(S), NEW q \in Seq(S), NEW x \in S
    PROVE  got \o Append(q, x) = Append(got \o q, x)
<1>1. <<x>> \in Seq(S) /\ got \o q \in Seq(S)
  BY ConcatProperties
<1>2. Append(q, x) = q \o <<x>> /\ Append(got \o q, x) = (got \o q) \o <<x>>
  BY <1>1, AppendIsConcat
<1>3. QED
  BY <1>1, <1>2, ConcatAssociative

(* A new channel is empty.                                                  *)
LEMMA ChannelStarts == ChannelInit => ChannelInv
<1>1. SUFFICES ASSUME ChannelInit PROVE ChannelInv
  OBVIOUS
<1>2. << >> \in Seq(Message) /\ << >> \o << >> = << >>
  BY EmptySeq, ConcatEmptySeq
<1>3. ChannelTypeOK /\ ch_call \in [ChCallers -> Place] /\ ch_numbers \in Nat
  BY <1>1, ChannelAssumption DEF ChannelInit, ChannelTypeOK, Place
<1>4. QED
  BY <1>1, <1>2, <1>3 DEF ChannelInit, ChannelInv, DeliveredInOrder

(* A caller that goes on in its call keeps its endpoint and its message.    *)
LEMMA GoesOn ==
    ASSUME ChannelInv, NEW c \in ChCallers,
           NEW a \in {"check", "push", "add", "signal", "sub", "space"},
           NEW b \in {"idle", "push", "add", "signal", "space"},
           Goes(c, a, b), b = "idle" \/ a # "signal"
    PROVE  /\ ch_call' \in [ChCallers -> Place]
           /\ ch_call[c].ep \in Endpoints
           /\ a # "signal" => ch_call[c].msg \in Message
<1>1. ch_call[c] \in Place /\ ch_call[c].at = a
  BY DEF ChannelInv, Goes
<1>2. ch_call[c].ep \in Endpoints /\ (a # "signal" => ch_call[c].msg \in Message)
  BY <1>1 DEF Place, ChIdle
<1>3. ch_call' \in [ChCallers -> Place]
  <2>1. CASE b = "idle"
    BY <2>1 DEF Goes, ChannelInv, Place
  <2>2. CASE b # "idle"
    <3>1. [ch_call[c] EXCEPT !.at = b] \in Place
      BY <1>1, <2>2 DEF Place, ChIdle
    <3>2. QED
      BY <2>2, <3>1 DEF Goes, ChannelInv
  <2>3. QED
    BY <2>1, <2>2
<1>4. QED
  BY <1>2, <1>3

(* A sum or a difference, taken modulo the word, is in the word.            *)
LEMMA InWord ==
    ASSUME NEW x \in Int
    PROVE  x % ChWrap \in 0 .. ChWrap - 1
BY ChannelAssumption

(* A place says all that the type invariant says of callers.                *)
LEMMA PlaceTypes ==
    ASSUME NEW p \in Place, p # ChIdle
    PROVE  p.at \in {"check", "push", "add", "signal", "sub", "space"} /\ p.ep \in Endpoints
BY SMTT(40) DEF Place

(* Every step of every call keeps the invariant.                            *)
LEMMA ChannelStep == ChannelInv /\ [ChannelNext]_channelVars => ChannelInv'
<1> SUFFICES ASSUME ChannelInv, [ChannelNext]_channelVars PROVE ChannelInv'
  OBVIOUS
<1> USE DEF ChannelInv, ChannelTypeOK, DeliveredInOrder
<1>1. ASSUME NEW c \in ChCallers, NEW e \in Endpoints, NEW size \in 0 .. MAX_MSG_SIZE,
             Channel_write(c, e, size)
      PROVE  ChannelInv'
  <2>1. [at |-> "check", ep |-> e, msg |-> [n |-> ch_numbers + 1, size |-> size]] \in Place
    BY DEF Place, Message
  <2>2. ch_call' \in [ChCallers -> Place]
    BY <1>1, <2>1 DEF Channel_write
  <2>3. /\ ch_numbers' \in Nat
        /\ UNCHANGED <<ch_state, ch_queue, ch_bytes, ch_readable, ch_writable, ch_sent, ch_got>>
    BY <1>1 DEF Channel_write
  <2>4. QED
    BY SMTT(40), <2>2, <2>3, PlaceTypes
<1>2. ASSUME NEW c \in ChCallers, write_check(c) PROVE ChannelInv'
  <2>1. ch_call' \in [ChCallers -> Place]
    <3>1. Goes(c, "check", "idle") \/ Goes(c, "check", "push")
      BY <1>2 DEF write_check
    <3>2. ASSUME Goes(c, "check", "idle") PROVE ch_call' \in [ChCallers -> Place]
      BY <3>2, GoesOn
    <3>3. ASSUME Goes(c, "check", "push") PROVE ch_call' \in [ChCallers -> Place]
      BY <3>3, GoesOn
    <3>4. QED
      BY <3>1, <3>2, <3>3
  <2>2. QED
    BY <1>2, <2>1, PlaceTypes DEF write_check
<1>3. ASSUME NEW c \in ChCallers, write_push(c) PROVE ChannelInv'
  <2> DEFINE e == ch_call[c].ep
             x == ch_call[c].msg
  <2>1. ch_call' \in [ChCallers -> Place] /\ e \in Endpoints /\ x \in Message
    BY <1>3, GoesOn DEF write_push
  <2>2. /\ ch_queue' = [ch_queue EXCEPT ![e] = Append(@, x)]
        /\ ch_sent' = [ch_sent EXCEPT ![e] = Append(@, x)]
        /\ UNCHANGED <<ch_state, ch_bytes, ch_readable, ch_writable, ch_numbers, ch_got>>
    BY <1>3 DEF write_push
  <2> HIDE DEF e, x
  <2>3. ch_got[e] \o Append(ch_queue[e], x) = Append(ch_sent[e], x)
    BY SMTT(40), <2>1, PushKeepsHistory
  <2>4. DeliveredInOrder'
    BY ZenonT(40), <2>1, <2>2, <2>3
  <2>5. ch_queue' \in [Endpoints -> Seq(Message)] /\ ch_sent' \in [Endpoints -> Seq(Message)]
    BY <2>1, <2>2, AppendProperties
  <2>6. ChannelTypeOK'
    BY <2>1, <2>2, PlaceTypes
  <2>7. ch_numbers' \in Nat /\ ch_got' \in [Endpoints -> Seq(Message)]
    BY <2>2
  <2> HIDE DEF DeliveredInOrder, ChannelTypeOK
  <2>8. QED
    BY <2>1, <2>4, <2>5, <2>6, <2>7
<1>4. ASSUME NEW c \in ChCallers, write_add(c) PROVE ChannelInv'
  <2>1. /\ ch_call' \in [ChCallers -> Place]
        /\ ch_call[c].ep \in Endpoints /\ ch_call[c].msg \in Message
    BY <1>4, GoesOn DEF write_add
  <2>2. (ch_bytes[ch_call[c].ep] + ch_call[c].msg.size) % ChWrap \in 0 .. ChWrap - 1
    <3> DEFINE bytes == ch_bytes[ch_call[c].ep] + ch_call[c].msg.size
    <3>1. bytes \in Int
      BY SMTT(40), <2>1, ChannelAssumption DEF Message
    <3> HIDE DEF bytes
    <3>2. bytes % ChWrap \in 0 .. ChWrap - 1
      BY <3>1, InWord
    <3>3. QED
      BY <3>2 DEF bytes
  <2>3. ch_bytes' \in [Endpoints -> 0 .. ChWrap - 1]
    BY <1>4, <2>1, <2>2 DEF write_add
  <2>4. QED
    BY SMTT(40), <1>4, <2>1, <2>3, PlaceTypes DEF write_add
<1>5. ASSUME NEW c \in ChCallers, write_signal(c) PROVE ChannelInv'
  BY <1>5, GoesOn, PlaceTypes DEF write_signal
<1>6. ASSUME NEW c \in ChCallers, NEW e \in Endpoints, Channel_read(c, e) PROVE ChannelInv'
  <2>1. Head(ch_queue[e]) \in Message /\ Tail(ch_queue[e]) \in Seq(Message)
    BY <1>6, HeadTailProperties DEF Channel_read
  <2>2. [at |-> "sub", ep |-> e, msg |-> Head(ch_queue[e])] \in Place
    BY <2>1 DEF Place
  <2>3. ch_call' \in [ChCallers -> Place]
    BY <1>6, <2>2 DEF Channel_read
  <2>4. Append(ch_got[e], Head(ch_queue[e])) \o Tail(ch_queue[e]) = ch_sent[e]
    <3>1. ch_got[e] \in Seq(Message) /\ ch_queue[e] \in Seq(Message) /\ ch_queue[e] # << >>
      BY <1>6 DEF Channel_read
    <3>2. ch_got[e] \o ch_queue[e] = ch_sent[e]
      OBVIOUS
    <3>3. QED
      BY ZenonT(40), <3>1, <3>2, PopKeepsHistory
  <2>5. DeliveredInOrder'
    BY ZenonT(40), <1>6, <2>4 DEF Channel_read
  <2>6. ch_queue' \in [Endpoints -> Seq(Message)] /\ ch_got' \in [Endpoints -> Seq(Message)]
    BY <1>6, <2>1, AppendProperties DEF Channel_read
  <2>7. QED
    BY ZenonT(40), <1>6, <2>3, <2>5, <2>6, PlaceTypes DEF Channel_read
<1>7. ASSUME NEW c \in ChCallers, read_sub(c) PROVE ChannelInv'
  <2>1. /\ ch_call' \in [ChCallers -> Place]
        /\ ch_call[c].ep \in Endpoints /\ ch_call[c].msg \in Message
    BY <1>7, GoesOn DEF read_sub
  <2>2. (ch_bytes[ch_call[c].ep] - ch_call[c].msg.size) % ChWrap \in 0 .. ChWrap - 1
    <3> DEFINE bytes == ch_bytes[ch_call[c].ep] - ch_call[c].msg.size
    <3>1. bytes \in Int
      BY SMTT(40), <2>1, ChannelAssumption DEF Message
    <3> HIDE DEF bytes
    <3>2. bytes % ChWrap \in 0 .. ChWrap - 1
      BY <3>1, InWord
    <3>3. QED
      BY <3>2 DEF bytes
  <2>3. ch_bytes' \in [Endpoints -> 0 .. ChWrap - 1]
    BY <1>7, <2>1, <2>2 DEF read_sub
  <2>4. QED
    BY <1>7, <2>1, <2>3, PlaceTypes DEF read_sub
<1>8. ASSUME NEW c \in ChCallers, read_signal(c) PROVE ChannelInv'
  BY SMTT(40), <1>8, GoesOn, PlaceTypes DEF read_signal
<1>9. ASSUME NEW c \in ChCallers, NEW e \in Endpoints, Channel_close(c, e) PROVE ChannelInv'
  <2>1. [at |-> "signal", ep |-> e] \in Place
    BY DEF Place
  <2>2. ch_call' \in [ChCallers -> Place]
    BY <1>9, <2>1 DEF Channel_close
  <2>3. QED
    BY <1>9, <2>2, PlaceTypes DEF Channel_close
<1>10. CASE UNCHANGED channelVars
  BY <1>10 DEF channelVars
<1>11. QED
  BY ZenonT(40), <1>1, <1>2, <1>3, <1>4, <1>5, <1>6, <1>7, <1>8, <1>9, <1>10 DEF ChannelNext

(* What an endpoint has handed out, followed by what it still queues, is    *)
(* what was pushed: in order, each message once, none lost.                 *)
THEOREM AlwaysDeliveredInOrder == ChannelSpec => []DeliveredInOrder
<1>1. ChannelInv => DeliveredInOrder
  BY DEF ChannelInv
<1>2. QED
  BY <1>1, ChannelStarts, ChannelStep, PTL DEF ChannelSpec

(* The byte counter stays in its word and every caller in a legal place.    *)
THEOREM ChannelTypeCorrect == ChannelSpec => []ChannelTypeOK
<1>1. ChannelInv => ChannelTypeOK
  BY DEF ChannelInv
<1>2. QED
  BY <1>1, ChannelStarts, ChannelStep, PTL DEF ChannelSpec
=============================================================================

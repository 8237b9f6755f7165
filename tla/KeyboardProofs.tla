--------------------------- MODULE KeyboardProofs ---------------------------
(***************************************************************************)
(* The keyboard driver implements KeyQueue, for a ring of any size: the     *)
(* handler and the readers share it without a lock, and what they do to it  *)
(* is still what a first-in first-out queue of N - 1 characters would do.   *)
(***************************************************************************)
EXTENDS Keyboard, SequenceTheorems, TLAPS

(* The inductive invariant: the types, and a slot a reader has loaded is    *)
(* still the oldest character, whatever the handler wrote since.            *)
KeyboardInv ==
    /\ KeyboardTypeOK
    /\ loaded # NoChar => HasData /\ loaded = data[read_pos]

Stored == Chars \cup {NoChar}

-----------------------------------------------------------------------------
(* Positions wrap once at most: the sum of two of them modulo N.            *)
LEMMA WrapOnce ==
    ASSUME NEW r \in 0 .. N - 1, NEW k \in 0 .. N - 1
    PROVE  (r + k) % N = IF r + k < N THEN r + k ELSE r + k - N
BY KeyboardAssumption

(* The next position, without the modulo.                                   *)
LEMMA SuccIs ==
    ASSUME NEW pos \in 0 .. N - 1
    PROVE  Succ(pos) = IF pos = N - 1 THEN 0 ELSE pos + 1
<1>1. (pos + 1) % N = IF pos + 1 < N THEN pos + 1 ELSE pos + 1 - N
  <2>1. 1 \in 0 .. N - 1
    BY KeyboardAssumption
  <2>2. QED
    BY <2>1, WrapOnce
<1>2. QED
  BY <1>1, KeyboardAssumption DEF Succ

(* How many characters the ring holds, and which positions they are at.     *)
LEMMA RingShape ==
    ASSUME KeyboardTypeOK
    PROVE  /\ available \in 0 .. N - 1
           /\ RingKeys \in Seq(Stored)
           /\ Len(RingKeys) = available
           /\ HasData <=> available # 0
           /\ \A i \in 1 .. available : RingKeys[i] = data[(read_pos + i - 1) % N]
<1>1. available \in 0 .. N - 1 /\ (HasData <=> available # 0)
  BY KeyboardAssumption DEF KeyboardTypeOK, available, HasData
<1>2. ASSUME NEW i \in 1 .. available
      PROVE  (read_pos + i - 1) % N \in 0 .. N - 1
  <2> DEFINE k == i - 1
  <2>1. k \in 0 .. N - 1 /\ read_pos \in 0 .. N - 1 /\ read_pos + i - 1 = read_pos + k
    BY <1>1, KeyboardAssumption DEF KeyboardTypeOK
  <2> HIDE DEF k
  <2>2. QED
    BY <2>1, WrapOnce, KeyboardAssumption
<1>3. RingKeys \in [1 .. available -> Stored]
  BY <1>2 DEF RingKeys, Stored, KeyboardTypeOK
<1>4. RingKeys \in Seq(Stored) /\ Len(RingKeys) = available
  <2>1. available \in Nat
    BY <1>1, KeyboardAssumption
  <2>2. QED
    BY <1>3, <2>1
<1>5. QED
  BY <1>1, <1>4 DEF RingKeys

-----------------------------------------------------------------------------
(* A character typed goes behind the others, or is dropped when the ring is *)
(* full; the positions stay in the ring and the oldest slot is not touched. *)
LEMMA WriteTypes ==
    ASSUME KeyboardTypeOK, NEW c \in Chars, write(c)
    PROVE  /\ data' \in [0 .. N - 1 -> Stored]
           /\ read_pos' = read_pos /\ write_pos' \in 0 .. N - 1
           /\ HasData => HasData' /\ data'[read_pos'] = data[read_pos]
           /\ RingKeys' = IF Len(RingKeys) < N - 1 THEN Append(RingKeys, c) ELSE RingKeys
<1> USE DEF Stored
<1>1. /\ data \in [0 .. N - 1 -> Stored] /\ read_pos \in 0 .. N - 1
      /\ write_pos \in 0 .. N - 1 /\ N \in Nat /\ N > 1
  BY KeyboardAssumption DEF KeyboardTypeOK
<1>2. Succ(write_pos) = IF write_pos = N - 1 THEN 0 ELSE write_pos + 1
  BY <1>1, SuccIs
<1>3. IsFull <=> available = N - 1
  BY <1>1, <1>2 DEF IsFull, available
<1>4. CASE IsFull
  BY <1>1, <1>3, <1>4, RingShape DEF write, ring, RingKeys, available, HasData
<1>5. CASE ~IsFull
  <2>1. /\ data' = [data EXCEPT ![write_pos] = c]
        /\ write_pos' = Succ(write_pos) /\ read_pos' = read_pos
    BY <1>5 DEF write
  <2>2. available' = available + 1 /\ available < N - 1 /\ available \in Nat
    BY <1>1, <1>2, <1>3, <1>5, <2>1, RingShape DEF available, IsFull
  <2>3. \A i \in 1 .. available' :
            RingKeys'[i] = IF i = available' THEN c ELSE RingKeys[i]
    <3> SUFFICES ASSUME NEW i \in 1 .. available'
                 PROVE  RingKeys'[i] = IF i = available' THEN c ELSE RingKeys[i]
      OBVIOUS
    <3> DEFINE k == i - 1
    <3>1. k \in 0 .. N - 1 /\ i \in 1 .. available + 1
      BY <1>1, <2>2
    <3>2. (read_pos + i - 1) % N = IF read_pos + k < N THEN read_pos + k ELSE read_pos + k - N
      <4>1. read_pos + i - 1 = read_pos + k
        BY <1>1, <3>1
      <4> HIDE DEF k
      <4>2. QED
        BY ZenonT(40), <1>1, <3>1, <4>1, WrapOnce
    <3>3. (read_pos + i - 1) % N = write_pos <=> i = available + 1
      BY <1>1, <2>2, <3>1, <3>2 DEF available
    <3>4. (read_pos + i - 1) % N \in 0 .. N - 1
      BY <1>1, <3>1, <3>2
    <3>5. RingKeys'[i] = data'[(read_pos + i - 1) % N]
      BY <2>1 DEF RingKeys
    <3>6. RingKeys'[i] = IF i = available + 1 THEN c ELSE data[(read_pos + i - 1) % N]
      BY <1>1, <2>1, <3>3, <3>4, <3>5
    <3>7. i # available + 1 => RingKeys[i] = data[(read_pos + i - 1) % N]
      BY <2>2, <3>1, RingShape
    <3>8. QED
      BY <2>2, <3>6, <3>7
  <2>4. data' \in [0 .. N - 1 -> Stored] /\ write_pos' \in 0 .. N - 1
    BY <1>1, <1>2, <2>1
  <2>5. HasData => HasData' /\ data'[read_pos'] = data[read_pos]
    BY <1>1, <1>2, <1>5, <2>1 DEF HasData, IsFull
  <2>6. RingKeys' = Append(RingKeys, c)
    <3>1. RingKeys \in Seq(Stored) /\ Len(RingKeys) = available /\ c \in Stored
      BY RingShape
    <3>2. RingKeys' \in Seq(Stored) /\ Len(RingKeys') = available'
      <4>1. RingKeys' \in [1 .. available' -> Stored]
        <5>1. \A i \in 1 .. available' : RingKeys'[i] \in Stored
          BY <2>2, <2>3, <3>1, ElementOfSeq
        <5>2. RingKeys' = [i \in 1 .. available' |-> RingKeys'[i]]
          BY DEF RingKeys
        <5>3. QED
          BY <5>1, <5>2
      <4>2. QED
        BY <2>2, <4>1
    <3>3. /\ Append(RingKeys, c) \in Seq(Stored)
          /\ Len(Append(RingKeys, c)) = available + 1
          /\ \A i \in 1 .. available : Append(RingKeys, c)[i] = RingKeys[i]
          /\ Append(RingKeys, c)[available + 1] = c
      BY <3>1, AppendProperties
    <3>4. \A i \in 1 .. Len(RingKeys') : RingKeys'[i] = Append(RingKeys, c)[i]
      BY <2>2, <2>3, <3>2, <3>3
    <3>5. QED
      BY <2>2, <3>2, <3>3, <3>4, SeqEqual
  <2>7. QED
    BY <2>1, <2>2, <2>4, <2>5, <2>6, RingShape
<1>6. QED
  BY <1>4, <1>5

(* A reader that advances takes the oldest character off the queue.         *)
LEMMA AdvancePops ==
    ASSUME KeyboardTypeOK, HasData,
           read_pos' = Succ(read_pos), UNCHANGED <<data, write_pos>>
    PROVE  /\ read_pos' \in 0 .. N - 1
           /\ RingKeys # << >> /\ Head(RingKeys) = data[read_pos]
           /\ RingKeys' = Tail(RingKeys)
<1> USE DEF Stored
<1>1. /\ data \in [0 .. N - 1 -> Stored] /\ read_pos \in 0 .. N - 1
      /\ write_pos \in 0 .. N - 1 /\ N \in Nat /\ N > 1
  BY KeyboardAssumption DEF KeyboardTypeOK
<1>2. read_pos' = IF read_pos = N - 1 THEN 0 ELSE read_pos + 1
  BY <1>1, SuccIs
<1>3. available \in Nat \ {0} /\ available < N /\ available' = available - 1
  BY <1>1, <1>2, RingShape DEF available, HasData
<1>4. ASSUME NEW i \in 1 .. available'
      PROVE  RingKeys'[i] = RingKeys[i + 1]
  <2> DEFINE k == i - 1
  <2>1. i \in 1 .. N - 2 /\ k \in 0 .. N - 1
    BY <1>1, <1>3
  <2>2. (read_pos + i) % N = IF read_pos + i < N THEN read_pos + i ELSE read_pos + i - N
    BY <1>1, <2>1, WrapOnce
  <2>3. (read_pos' + k) % N = IF read_pos' + k < N THEN read_pos' + k ELSE read_pos' + k - N
    <3>1. read_pos' \in 0 .. N - 1
      BY <1>1, <1>2
    <3> HIDE DEF k
    <3>2. QED
      BY <2>1, <3>1, WrapOnce
  <2>4. (read_pos' + i - 1) % N = (read_pos + (i + 1) - 1) % N
    <3>1. read_pos' + i - 1 = read_pos' + k /\ read_pos + (i + 1) - 1 = read_pos + i
      BY <1>1, <1>2, <2>1
    <3>2. QED
      BY <1>1, <1>2, <2>1, <2>2, <2>3, <3>1
  <2>5. RingKeys'[i] = data[(read_pos' + i - 1) % N]
    BY DEF RingKeys
  <2>6. RingKeys[i + 1] = data[(read_pos + (i + 1) - 1) % N]
    BY <1>3, <2>1, RingShape
  <2>7. QED
    BY <2>4, <2>5, <2>6
<1>5. RingKeys \in Seq(Stored) /\ Len(RingKeys) = available /\ RingKeys # << >>
  BY <1>3, RingShape
<1>6. RingKeys[1] = data[read_pos]
  <2>1. RingKeys[1] = data[(read_pos + 1 - 1) % N]
    BY <1>3, RingShape
  <2>2. read_pos + 1 - 1 = read_pos
    BY <1>1
  <2>3. read_pos % N = read_pos
    BY <1>1
  <2>4. QED
    BY <2>1, <2>2, <2>3
<1>7. /\ Tail(RingKeys) \in Seq(Stored) /\ Len(Tail(RingKeys)) = available - 1
      /\ \A i \in 1 .. available - 1 : Tail(RingKeys)[i] = RingKeys[i + 1]
  BY <1>5, HeadTailProperties
<1>8. RingKeys' \in Seq(Stored) /\ Len(RingKeys') = available'
  <2>1. \A i \in 1 .. available' : RingKeys'[i] \in Stored
    BY <1>3, <1>4, <1>5, ElementOfSeq
  <2>2. RingKeys' = [i \in 1 .. available' |-> RingKeys'[i]]
    BY DEF RingKeys
  <2>3. RingKeys' \in [1 .. available' -> Stored] /\ available' \in Nat
    BY <1>3, <2>1, <2>2
  <2>4. QED
    BY <2>3
<1>9. RingKeys' = Tail(RingKeys)
  BY <1>3, <1>4, <1>7, <1>8, SeqEqual
<1>10. QED
  BY <1>1, <1>2, <1>5, <1>6, <1>9

-----------------------------------------------------------------------------
(* The driver starts with an empty queue and nothing read.                  *)
LEMMA KeyboardStarts == KeyboardInit => KeyboardInv /\ Queue!Init
<1>1. SUFFICES ASSUME KeyboardInit PROVE KeyboardInv /\ Queue!Init
  OBVIOUS
<1>2. KeyboardTypeOK
  <2>1. read_pos \in 0 .. N - 1 /\ write_pos \in 0 .. N - 1
    BY <1>1, KeyboardAssumption DEF KeyboardInit
  <2>2. data \in [0 .. N - 1 -> Chars \cup {NoChar}]
    BY <1>1 DEF KeyboardInit
  <2>3. modifiers \subseteq Modifiers /\ held \subseteq Keys /\ extended \in BOOLEAN
    BY ZenonT(40), <1>1 DEF KeyboardInit
  <2>4. /\ call \in {"none", "read_char", "flush", "sys_read"}
        /\ loaded \in Chars \cup {NoChar} /\ out \in Chars \cup {NoChar}
    BY <1>1 DEF KeyboardInit
  <2>5. QED
    BY <2>1, <2>2, <2>3, <2>4 DEF KeyboardTypeOK
<1>3. available = 0
  BY <1>1 DEF KeyboardInit, available
<1>4. RingKeys = << >>
  BY <1>2, <1>3, RingShape, EmptySeq
<1>5. QED
  BY <1>1, <1>2, <1>4 DEF KeyboardInit, KeyboardInv, Queue!Init

(* The ring is as it was, so the queue is too.                              *)
LEMMA RingUnchanged == UNCHANGED ring => UNCHANGED RingKeys
BY DEF ring, RingKeys, available

(* What an interrupt does to the modifiers and to the ring: at most one     *)
(* character is typed.                                                      *)
LEMMA IrqTypes ==
    ASSUME KeyboardTypeOK, handle_irq
    PROVE  /\ modifiers' \subseteq Modifiers /\ extended' \in BOOLEAN
           /\ UNCHANGED <<held, reader>>
           /\ UNCHANGED ring \/ \E c \in Chars : write(c)
<1> DEFINE event == scancode_to_keyevent(Head(wire).code, Head(wire).release, extended)
<1>1. event.event = "Ascii" => event.value \in Chars
  BY DEF scancode_to_keyevent, Ascii, Special, Release, Chars
<1> HIDE DEF event
<1>2. Modified(event, extended) \subseteq Modifiers
  BY DEF Modified, Modifiers, KeyboardTypeOK
<1>3. CASE Head(wire).code = "E0"
  BY <1>3 DEF handle_irq, KeyboardTypeOK
<1>4. CASE Head(wire).code # "E0"
  <2>1. /\ extended' = FALSE /\ modifiers' = Modified(event, extended)
        /\ IF event.event = "Ascii" THEN write(event.value)
           ELSE IF event = Special("Enter") THEN write("\n")
           ELSE UNCHANGED ring
        /\ UNCHANGED <<held, reader>>
    BY <1>4 DEF handle_irq, event
  <2>2. UNCHANGED ring \/ \E c \in Chars : write(c)
    <3>1. "\n" \in Chars
      BY DEF Chars
    <3>2. QED
      BY <1>1, <2>1, <3>1
  <2>3. QED
    BY ZenonT(40), <1>2, <2>1, <2>2
<1>5. QED
  BY <1>3, <1>4

(* An interrupt keeps the invariant and types a character or does nothing.  *)
LEMMA IrqStep ==
    ASSUME KeyboardInv, handle_irq
    PROVE  KeyboardInv' /\ [Queue!Next]_<<RingKeys, out>>
<1>1. /\ modifiers' \subseteq Modifiers /\ extended' \in BOOLEAN
      /\ held' = held /\ call' = call /\ loaded' = loaded /\ out' = out
      /\ UNCHANGED ring \/ \E c \in Chars : write(c)
  BY IrqTypes DEF KeyboardInv, reader
<1>2. CASE UNCHANGED ring
  <2>1. UNCHANGED RingKeys
    BY <1>2, RingUnchanged
  <2>2. KeyboardInv'
    BY <1>1, <1>2 DEF KeyboardInv, KeyboardTypeOK, ring, HasData
  <2>3. QED
    BY <1>1, <2>1, <2>2
<1>3. ASSUME NEW c \in Chars, write(c) PROVE KeyboardInv' /\ [Queue!Next]_<<RingKeys, out>>
  <2>1. /\ data' \in [0 .. N - 1 -> Stored]
        /\ read_pos' = read_pos /\ write_pos' \in 0 .. N - 1
        /\ HasData => HasData' /\ data'[read_pos'] = data[read_pos]
        /\ RingKeys' = IF Len(RingKeys) < N - 1 THEN Append(RingKeys, c) ELSE RingKeys
    BY <1>3, WriteTypes DEF KeyboardInv
  <2>2. KeyboardInv'
    BY <1>1, <2>1 DEF KeyboardInv, KeyboardTypeOK, Stored
  <2>3. Queue!Type(c)
    BY <1>1, <2>1 DEF Queue!Type
  <2>4. QED
    BY <2>2, <2>3 DEF Queue!Next
<1>4. QED
  BY <1>1, <1>2, <1>3

(* Every step keeps the invariant and is a step of the queue or none.       *)
LEMMA KeyboardStep ==
    KeyboardInv /\ [KeyboardNext]_keyboardVars
        => KeyboardInv' /\ [Queue!Next]_<<RingKeys, out>>
<1> SUFFICES ASSUME KeyboardInv, [KeyboardNext]_keyboardVars
             PROVE  KeyboardInv' /\ [Queue!Next]_<<RingKeys, out>>
  OBVIOUS
<1>1. CASE handle_irq
  BY <1>1, IrqStep
<1>2. ASSUME NEW key \in Keys, press(key) \/ release(key)
      PROVE  KeyboardInv' /\ [Queue!Next]_<<RingKeys, out>>
  <2>1. UNCHANGED <<modifiers, extended, ring, reader>> /\ held' \subseteq Keys
    BY <1>2 DEF press, release, Send, KeyboardInv, KeyboardTypeOK
  <2>2. UNCHANGED RingKeys
    BY <2>1, RingUnchanged
  <2>3. QED
    BY <2>1, <2>2 DEF KeyboardInv, KeyboardTypeOK, HasData, ring, reader
<1>3. ASSUME NEW how \in {"read_char", "flush", "sys_read"}, read_begin(how)
      PROVE  KeyboardInv' /\ [Queue!Next]_<<RingKeys, out>>
  <2>1. UNCHANGED RingKeys /\ out' = NoChar
    BY <1>3, RingUnchanged DEF read_begin
  <2>2. Queue!Forget
    BY <2>1 DEF Queue!Forget
  <2>3. KeyboardInv'
    BY <1>3 DEF read_begin, KeyboardInv, KeyboardTypeOK, HasData, ring, keys
  <2>4. QED
    BY <2>2, <2>3 DEF Queue!Next
<1>4. CASE read_empty
  <2>1. UNCHANGED <<RingKeys, out>>
    BY <1>4, RingUnchanged DEF read_empty
  <2>2. KeyboardInv'
    BY <1>4 DEF read_empty, KeyboardInv, KeyboardTypeOK, HasData, ring, keys
  <2>3. QED
    BY <2>1, <2>2
<1>5. CASE read_load
  <2>1. UNCHANGED <<RingKeys, out>>
    BY <1>5, RingUnchanged DEF read_load
  <2>2. data[read_pos] \in Chars \cup {NoChar}
    BY DEF KeyboardInv, KeyboardTypeOK
  <2>3. KeyboardInv'
    BY <1>5, <2>2 DEF read_load, KeyboardInv, KeyboardTypeOK, HasData, ring, keys
  <2>4. QED
    BY <2>1, <2>3
<1>6. CASE read_advance
  <2>1. HasData /\ loaded = data[read_pos]
    BY <1>6 DEF read_advance, KeyboardInv
  <2>2. /\ read_pos' \in 0 .. N - 1
        /\ RingKeys # << >> /\ Head(RingKeys) = data[read_pos]
        /\ RingKeys' = Tail(RingKeys)
    BY <1>6, <2>1, AdvancePops DEF read_advance, KeyboardInv
  <2>3. Queue!Read
    BY <1>6, <2>1, <2>2 DEF read_advance, Queue!Read
  <2>4. KeyboardInv'
    BY <1>6, <2>2 DEF read_advance, KeyboardInv, KeyboardTypeOK, keys
  <2>5. QED
    BY <2>3, <2>4 DEF Queue!Next
<1>7. CASE UNCHANGED keyboardVars
  <2>1. UNCHANGED <<RingKeys, out>>
    BY <1>7, RingUnchanged DEF keyboardVars, reader
  <2>2. KeyboardInv'
    BY <1>7 DEF keyboardVars, KeyboardInv, KeyboardTypeOK, HasData, ring, keys, reader
  <2>3. QED
    BY <2>1, <2>2
<1>8. CASE read_wait
  BY <1>7, <1>8 DEF read_wait
<1>9. QED
  BY <1>1, <1>2, <1>3, <1>4, <1>5, <1>6, <1>7, <1>8 DEF KeyboardNext, read

-----------------------------------------------------------------------------
(* The handler and the readers never index outside the ring, for a ring of  *)
(* any size.                                                                *)
THEOREM KeyboardTypeCorrect == KeyboardSpec => []KeyboardTypeOK
<1>1. KeyboardInv => KeyboardTypeOK
  BY DEF KeyboardInv
<1>2. QED
  BY <1>1, KeyboardStarts, KeyboardStep, PTL DEF KeyboardSpec

(* The driver implements the queue: characters are read in the order they   *)
(* were typed, each once, and only those typed into a full ring are lost.   *)
THEOREM AlwaysReadsInOrder == KeyboardSpec => ReadsInOrder
<1>1. KeyboardInit => KeyboardInv /\ Queue!Init
  BY KeyboardStarts
<1>2. KeyboardInv /\ [KeyboardNext]_keyboardVars
          => KeyboardInv' /\ [Queue!Next]_<<RingKeys, out>>
  BY KeyboardStep
<1>3. QED
  BY <1>1, <1>2, PTL DEF KeyboardSpec, ReadsInOrder, Queue!Spec
=============================================================================

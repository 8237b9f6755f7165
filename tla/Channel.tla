------------------------------ MODULE Channel ------------------------------
(***************************************************************************)
(* Channel endpoints (object/channel.rs).  An endpoint keeps its messages   *)
(* behind one lock, the number of queued bytes in an atomic beside it, its  *)
(* state behind another lock, and two events.  A call takes each of them in *)
(* turn, so calls on the same endpoint overlap between those steps.         *)
(*                                                                         *)
(* A message is its number and its size.  Its handles are left out.         *)
(***************************************************************************)
EXTENDS Integers, Sequences, FiniteSets, FiniteSetsExt

CONSTANTS
    Endpoints,        \* the endpoints of one pair
    ChCallers,        \* contexts that use them
    MAX_MSG_SIZE,     \* largest message (64 KB)
    max_queue_bytes,  \* bytes an endpoint holds before it refuses (256 KB)
    ChWrap,           \* 2^64, for the byte counter
    MaxMessages       \* bound: messages written

ASSUME ChannelAssumption == ChWrap \in Nat \ {0} /\ MAX_MSG_SIZE \in Nat

VARIABLES
    ch_state,        \* endpoint -> ChannelState
    ch_queue,        \* endpoint -> the queued messages, oldest first
    ch_bytes,        \* endpoint -> queue_size
    ch_readable, ch_writable,   \* endpoint -> read_event and write_event signaled
    ch_call,         \* caller -> the call it is in and how far it got
    ch_numbers,      \* messages written so far
    ch_sent, ch_got  \* history: endpoint -> messages pushed, messages popped

channelVars == <<ch_state, ch_queue, ch_bytes, ch_readable, ch_writable, ch_call, ch_numbers,
                 ch_sent, ch_got>>

ChIdle == [at |-> "idle"]

ChannelInit ==
    /\ ch_state = [e \in Endpoints |-> "Active"]
    /\ ch_queue = [e \in Endpoints |-> << >>]
    /\ ch_bytes = [e \in Endpoints |-> 0]
    /\ ch_readable = [e \in Endpoints |-> FALSE]
    /\ ch_writable = [e \in Endpoints |-> TRUE]
    /\ ch_call = [c \in ChCallers |-> ChIdle]
    /\ ch_numbers = 0
    /\ ch_sent = [e \in Endpoints |-> << >>]
    /\ ch_got = [e \in Endpoints |-> << >>]

\* Caller c, in a call at step a, goes on to step b, or is done when b is "idle".
Goes(c, a, b) ==
    /\ ch_call[c].at = a
    /\ ch_call' = [ch_call EXCEPT ![c] = IF b = "idle" THEN ChIdle ELSE [@ EXCEPT !.at = b]]

-----------------------------------------------------------------------------
\* write: the state is Active and the message is not too large.
Channel_write(c, e, size) ==
    /\ ch_call[c] = ChIdle /\ ch_numbers < MaxMessages
    /\ ch_state[e] = "Active" /\ size <= MAX_MSG_SIZE
    /\ ch_numbers' = ch_numbers + 1
    /\ ch_call' = [ch_call EXCEPT ![c] =
          [at |-> "check", ep |-> e, msg |-> [n |-> ch_numbers + 1, size |-> size]]]
    /\ UNCHANGED <<ch_state, ch_queue, ch_bytes, ch_readable, ch_writable, ch_sent, ch_got>>

write_check_Unbounded(c) ==
    /\ Goes(c, "check", "push")
    /\ UNCHANGED <<ch_state, ch_queue, ch_bytes, ch_readable, ch_writable, ch_numbers,
                   ch_sent, ch_got>>

\* queue_size is loaded and compared; the sum wraps like the counter.
write_check(c) ==
    /\ ch_call[c].at = "check"
    /\ LET full == (ch_bytes[ch_call[c].ep] + ch_call[c].msg.size) % ChWrap > max_queue_bytes
       IN  Goes(c, "check", IF full THEN "idle" ELSE "push")
    /\ UNCHANGED <<ch_state, ch_queue, ch_bytes, ch_readable, ch_writable, ch_numbers,
                   ch_sent, ch_got>>

write_push_Front(c) ==
    /\ Goes(c, "push", "add")
    /\ LET e == ch_call[c].ep IN
          /\ ch_queue' = [ch_queue EXCEPT ![e] = <<ch_call[c].msg>> \o @]
          /\ ch_sent' = [ch_sent EXCEPT ![e] = Append(@, ch_call[c].msg)]
    /\ UNCHANGED <<ch_state, ch_bytes, ch_readable, ch_writable, ch_numbers, ch_got>>

write_push(c) ==
    /\ Goes(c, "push", "add")
    /\ LET e == ch_call[c].ep IN
          /\ ch_queue' = [ch_queue EXCEPT ![e] = Append(@, ch_call[c].msg)]
          /\ ch_sent' = [ch_sent EXCEPT ![e] = Append(@, ch_call[c].msg)]
    /\ UNCHANGED <<ch_state, ch_bytes, ch_readable, ch_writable, ch_numbers, ch_got>>

write_add(c) ==
    /\ Goes(c, "add", "signal")
    /\ LET e == ch_call[c].ep
       IN  ch_bytes' = [ch_bytes EXCEPT ![e] = (@ + ch_call[c].msg.size) % ChWrap]
    /\ UNCHANGED <<ch_state, ch_queue, ch_readable, ch_writable, ch_numbers, ch_sent, ch_got>>

write_signal(c) ==
    /\ Goes(c, "signal", "idle")
    /\ ch_readable' = [ch_readable EXCEPT ![ch_call[c].ep] = TRUE]
    /\ UNCHANGED <<ch_state, ch_queue, ch_bytes, ch_writable, ch_numbers, ch_sent, ch_got>>

-----------------------------------------------------------------------------
\* read: the oldest message is popped; an empty queue is an error either way.
Channel_read(c, e) ==
    /\ ch_call[c] = ChIdle /\ ch_queue[e] # << >>
    /\ ch_queue' = [ch_queue EXCEPT ![e] = Tail(@)]
    /\ ch_got' = [ch_got EXCEPT ![e] = Append(@, Head(ch_queue[e]))]
    /\ ch_call' = [ch_call EXCEPT ![c] = [at |-> "sub", ep |-> e, msg |-> Head(ch_queue[e])]]
    /\ UNCHANGED <<ch_state, ch_bytes, ch_readable, ch_writable, ch_numbers, ch_sent>>

read_sub(c) ==
    /\ Goes(c, "sub", "space")
    /\ LET e == ch_call[c].ep
       IN  ch_bytes' = [ch_bytes EXCEPT ![e] = (@ - ch_call[c].msg.size) % ChWrap]
    /\ UNCHANGED <<ch_state, ch_queue, ch_readable, ch_writable, ch_numbers, ch_sent, ch_got>>

read_signal(c) ==
    /\ Goes(c, "space", "idle")
    /\ ch_writable' = [ch_writable EXCEPT ![ch_call[c].ep] = TRUE]
    /\ UNCHANGED <<ch_state, ch_queue, ch_bytes, ch_readable, ch_numbers, ch_sent, ch_got>>

\* close: the peer is not told.  The reference count is HandleTable's.
Channel_close(c, e) ==
    /\ ch_call[c] = ChIdle /\ ch_state[e] = "Active"
    /\ ch_state' = [ch_state EXCEPT ![e] = "Closed"]
    /\ ch_call' = [ch_call EXCEPT ![c] = [at |-> "signal", ep |-> e]]
    /\ UNCHANGED <<ch_queue, ch_bytes, ch_readable, ch_writable, ch_numbers, ch_sent, ch_got>>

ChannelNext == \E c \in ChCallers :
    \/ \E e \in Endpoints, size \in 0 .. MAX_MSG_SIZE : Channel_write(c, e, size)
    \/ write_check(c)
    \/ write_push(c)
    \/ write_add(c)
    \/ write_signal(c)
    \/ \E e \in Endpoints : Channel_read(c, e)
    \/ read_sub(c)
    \/ read_signal(c)
    \/ \E e \in Endpoints : Channel_close(c, e)

ChannelSpec == ChannelInit /\ [][ChannelNext]_channelVars

-----------------------------------------------------------------------------
Sizes(msgs) == MapThenSumSet(LAMBDA i : msgs[i].size, 1 .. Len(msgs))

\* The bytes that the callers at step a of a call on e carry.
Carried(e, a) ==
    LET at == {c \in ChCallers : ch_call[c].at = a}
    IN  MapThenSumSet(LAMBDA c : ch_call[c].msg.size, {c \in at : ch_call[c].ep = e})

(* Every variable has its type, and a caller carries the endpoint and the   *)
(* message of its call.                                                     *)
ChannelTypeOK ==
    /\ ch_state \in [Endpoints -> {"Active", "PeerClosed", "Closed"}]
    /\ ch_bytes \in [Endpoints -> 0 .. ChWrap - 1]
    /\ ch_readable \in [Endpoints -> BOOLEAN] /\ ch_writable \in [Endpoints -> BOOLEAN]
    /\ \A c \in ChCallers : ch_call[c] # ChIdle =>
          /\ ch_call[c].at \in {"check", "push", "add", "signal", "sub", "space"}
          /\ ch_call[c].ep \in Endpoints

(* Messages come out in the order they went in, each once, whatever reads   *)
(* and writes overlap ("FIFO ordering").                                    *)
DeliveredInOrder == \A e \in Endpoints : ch_got[e] \o ch_queue[e] = ch_sent[e]

(* The byte counter is what is queued, less what writers have pushed and    *)
(* not counted, plus what readers have popped and not subtracted: it is     *)
(* exact whenever no call is in flight, also when a reader's subtraction    *)
(* overtook the writer's addition and the counter wrapped below zero.       *)
BytesConserved == \A e \in Endpoints :
    ch_bytes[e] = (Sizes(ch_queue[e]) - Carried(e, "add") + Carried(e, "sub")) % ChWrap

(* Backpressure ("Bounded queue"): checking the space and pushing are       *)
(* separate steps, so every other caller may push one message past the      *)
(* limit, and no more than that.                                            *)
Backpressure == \A e \in Endpoints :
    Sizes(ch_queue[e]) <= max_queue_bytes + (Cardinality(ChCallers) - 1) * MAX_MSG_SIZE

(* Writers and readers that overlap between the check, the queue and the    *)
(* counter (write, read) neither corrupt the counter for good nor exceed    *)
(* the limit by more than a message each.                                   *)
BytesBounded == BytesConserved /\ Backpressure

(* A message written to one endpoint reaches the queue of the other.        *)
PeerReceives == \A e \in Endpoints :
    ch_sent[e] # << >> => \E f \in Endpoints \ {e} : ch_queue[f] # << >>
=============================================================================

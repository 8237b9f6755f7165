------------------------------ MODULE KeyQueue ------------------------------
(***************************************************************************)
(* What the keyboard driver promises its readers: a bounded first-in       *)
(* first-out queue of characters that drops what is typed while it is full. *)
(***************************************************************************)
EXTENDS Integers, Sequences

CONSTANTS Chars, Capacity, NoChar

VARIABLES
    queue,   \* characters typed and not yet read
    out      \* the character the last read returned

Init == queue = <<>> /\ out = NoChar

Type(c) ==
    /\ queue' = IF Len(queue) < Capacity THEN Append(queue, c) ELSE queue
    /\ UNCHANGED out

Read ==
    /\ queue # <<>>
    /\ out' = Head(queue)
    /\ queue' = Tail(queue)

Forget ==
    /\ out' = NoChar
    /\ UNCHANGED queue

Next == (\E c \in Chars : Type(c)) \/ Read \/ Forget

Spec == Init /\ [][Next]_<<queue, out>>

=============================================================================

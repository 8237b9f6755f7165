---------------------------- MODULE PriorityFifo ----------------------------
(***************************************************************************)
(* What the run queue promises: one bounded first-in first-out line of      *)
(* thread ids per priority.  A step puts an id at the end of its line       *)
(* (when the line has room), takes the first id of the highest line that    *)
(* is not empty, takes one and puts another, or deletes the first           *)
(* occurrence of an id in the lowest line that holds it.                    *)
(***************************************************************************)
EXTENDS Integers, Sequences

CONSTANTS Priorities, Ids, Capacity

VARIABLE lines

Init == lines = [p \in Priorities |-> << >>]

\* The lines with t at the end of line p; a full line drops it.
WithPut(ls, p, t) ==
    IF Len(ls[p]) < Capacity THEN [ls EXCEPT ![p] = Append(@, t)] ELSE ls

Highest(ls, p) == ls[p] # << >> /\ \A q \in Priorities : q > p => ls[q] = << >>

Put == \E p \in Priorities, t \in Ids : lines' = WithPut(lines, p, t)

Take == \E p \in Priorities :
    Highest(lines, p) /\ lines' = [lines EXCEPT ![p] = Tail(@)]

TakeThenPut == \E p, q \in Priorities, t \in Ids :
    /\ Highest(lines, p)
    /\ lines' = WithPut([lines EXCEPT ![p] = Tail(@)], q, t)

Holds(p, t) == \E i \in 1 .. Len(lines[p]) : lines[p][i] = t

Delete == \E p \in Priorities, t \in Ids, i \in 1 .. Capacity :
    /\ i <= Len(lines[p]) /\ lines[p][i] = t
    /\ \A j \in 1 .. i - 1 : lines[p][j] # t
    /\ \A q \in Priorities : q < p => ~Holds(q, t)
    /\ lines' = [lines EXCEPT ![p] = SubSeq(@, 1, i - 1) \o SubSeq(@, i + 1, Len(@))]

Next == Put \/ Take \/ TakeThenPut \/ Delete

Spec == Init /\ [][Next]_lines
=============================================================================

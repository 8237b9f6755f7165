---------------------------- MODULE HandleTable ----------------------------
(***************************************************************************)
(* Kernel objects, handles and a process's handle table.  Every slot has    *)
(* its own lock: an operation on one slot is a step, and add visits the     *)
(* slots one after the other while other callers work on them.             *)
(*                                                                         *)
(* A caller has at most one free-standing handle in its hand: "owned" when  *)
(* it stands for a reference (Handle::new on a new object, HandleOwner,     *)
(* Handle::duplicate), "borrowed" when it is the copy HandleTable::get      *)
(* makes, which counts for none.  Callers add and close only what they own. *)
(* Handle ids come from a 64-bit counter and nothing compares them: they    *)
(* are left out.                                                            *)
(***************************************************************************)
EXTENDS Integers, FiniteSets

CONSTANTS
    MAX_HANDLES,   \* slots of a table (256)
    Objects,
    Callers,
    NoObject,      \* the null base
    Rights,        \* single rights; "DUPLICATE" and "SAME_RIGHTS" have a meaning here
    MaxRefs        \* bound: references an object may have

ASSUME HandleAssumption ==
    /\ MAX_HANDLES \in Nat /\ MaxRefs \in Nat
    /\ NoObject \notin Objects
    /\ IsFiniteSet(Callers)
    /\ "DUPLICATE" \in Rights /\ "SAME_RIGHTS" \notin Rights

VARIABLES
    slots,       \* HandleTable.slots
    count,       \* HandleTable.count
    ref_count,   \* KernelObjectBase.ref_count of every object, 0 before it exists
    hand,        \* the handle each caller has in hand
    scan,        \* the add each caller is in: the next slot and the handle
    granted,     \* the rights an object's first handle had; {} before it exists
    lost         \* references dropped by an add that found the table full

tableVars == <<slots, count>>

vars == <<slots, count, ref_count, hand, scan, granted, lost>>

Handle == [base : Objects \cup {NoObject}, rights : SUBSET Rights]

NoHandle == [base |-> NoObject, rights |-> {}]

Slots == 0 .. MAX_HANDLES - 1

Masks == SUBSET Rights \cup {{"SAME_RIGHTS"}}

Empty == [kind |-> "none", handle |-> NoHandle]

Idle == [slot |-> 0, handle |-> NoHandle]

Init ==
    /\ slots = [v \in Slots |-> NoHandle] /\ count = 0
    /\ ref_count = [o \in Objects |-> 0]
    /\ hand = [c \in Callers |-> Empty]
    /\ scan = [c \in Callers |-> Idle]
    /\ granted = [o \in Objects |-> {}]
    /\ lost = [o \in Objects |-> 0]

-----------------------------------------------------------------------------
(* Rights.                                                                  *)

contains(rights, right) == right \in rights

reduce(rights, mask) == rights \cap mask

Duplicated_MaskGrants(rights, mask) ==
    IF contains(mask, "SAME_RIGHTS") THEN rights ELSE mask

Duplicated(rights, mask) ==
    IF contains(mask, "SAME_RIGHTS") THEN rights ELSE reduce(rights, mask)

is_valid(handle) == handle.base # NoObject /\ handle.rights # {}

-----------------------------------------------------------------------------
(* Reference counts.                                                        *)

ref_inc_Lost(o) == UNCHANGED ref_count

ref_inc(o) ==
    /\ ref_count[o] < MaxRefs
    /\ ref_count' = [ref_count EXCEPT ![o] = @ + 1]

ref_dec(o) == ref_count' = [ref_count EXCEPT ![o] = @ - 1]

-----------------------------------------------------------------------------
(* An object is made with one reference, and its first handle stands for it.*)
Handle_new(c, o, rights) ==
    /\ granted[o] = {} /\ rights # {}
    /\ hand[c] = Empty
    /\ ref_count' = [ref_count EXCEPT ![o] = 1]
    /\ granted' = [granted EXCEPT ![o] = rights]
    /\ hand' = [hand EXCEPT ![c] = [kind |-> "owned",
                                    handle |-> [base |-> o, rights |-> rights]]]
    /\ UNCHANGED <<tableVars, scan, lost>>

(* Handle::close, and the drop of a HandleOwner.                            *)
Handle_close(c) ==
    /\ hand[c].kind = "owned"
    /\ ref_dec(hand[c].handle.base)
    /\ hand' = [hand EXCEPT ![c] = Empty]
    /\ UNCHANGED <<tableVars, scan, granted, lost>>

(* The add of a new handle starts at the first slot.                        *)
StartAdd(c, base, rights) ==
    scan' = [scan EXCEPT ![c] = [slot |-> 0, handle |-> [base |-> base, rights |-> rights]]]

(* Handle::duplicate_with_mask on the handle in hand, and add of the copy.  *)
Handle_duplicate(c, mask) ==
    LET handle == hand[c].handle IN
    /\ scan[c] = Idle
    /\ is_valid(handle) /\ contains(handle.rights, "DUPLICATE")
    /\ ref_inc(handle.base)
    /\ StartAdd(c, handle.base, Duplicated(handle.rights, mask))
    /\ UNCHANGED <<tableVars, hand, granted, lost>>

add(c) ==
    /\ scan[c] = Idle
    /\ hand[c].kind = "owned"
    /\ StartAdd(c, hand[c].handle.base, hand[c].handle.rights)
    /\ hand' = [hand EXCEPT ![c] = Empty]
    /\ UNCHANGED <<tableVars, ref_count, granted, lost>>

add_slot(c) ==
    LET v == scan[c].slot IN
    /\ scan[c] # Idle
    /\ v < MAX_HANDLES
    /\ IF slots[v] = NoHandle
       THEN /\ slots' = [slots EXCEPT ![v] = scan[c].handle]
            /\ count' = count + 1
            /\ scan' = [scan EXCEPT ![c] = Idle]
       ELSE /\ scan' = [scan EXCEPT ![c].slot = v + 1]
            /\ UNCHANGED tableVars
    /\ UNCHANGED <<ref_count, hand, granted, lost>>

(* "handle table full".  The handle was moved into add and has no drop of   *)
(* its own: its reference stays counted.                                    *)
add_full(c) ==
    /\ scan[c] # Idle
    /\ scan[c].slot = MAX_HANDLES
    /\ lost' = [lost EXCEPT ![scan[c].handle.base] = @ + 1]
    /\ scan' = [scan EXCEPT ![c] = Idle]
    /\ UNCHANGED <<tableVars, ref_count, hand, granted>>

get(c, v) ==
    /\ hand[c].kind # "owned"
    /\ hand' = [hand EXCEPT ![c] =
          IF slots[v] = NoHandle THEN Empty ELSE [kind |-> "borrowed", handle |-> slots[v]]]
    /\ UNCHANGED <<tableVars, ref_count, scan, granted, lost>>

remove_KeepsCount(v) ==
    /\ slots[v] # NoHandle
    /\ slots' = [slots EXCEPT ![v] = NoHandle]
    /\ ref_dec(slots[v].base)
    /\ UNCHANGED <<count, hand, scan, granted, lost>>

remove(v) ==
    /\ slots[v] # NoHandle
    /\ slots' = [slots EXCEPT ![v] = NoHandle]
    /\ count' = count - 1
    /\ ref_dec(slots[v].base)
    /\ UNCHANGED <<hand, scan, granted, lost>>

duplicate(c, v, mask) ==
    /\ scan[c] = Idle
    /\ slots[v] # NoHandle
    /\ contains(slots[v].rights, "DUPLICATE")
    /\ ref_inc(slots[v].base)
    /\ StartAdd(c, slots[v].base, Duplicated(slots[v].rights, mask))
    /\ UNCHANGED <<tableVars, hand, granted, lost>>

Next ==
    \E c \in Callers :
        \/ \E o \in Objects, rights \in SUBSET Rights : Handle_new(c, o, rights)
        \/ Handle_close(c)
        \/ \E mask \in Masks : Handle_duplicate(c, mask)
        \/ add(c)
        \/ add_slot(c)
        \/ add_full(c)
        \/ \E v \in Slots : get(c, v)
        \/ \E v \in Slots : remove(v)
        \/ \E v \in Slots, mask \in Masks : duplicate(c, v, mask)

Spec == Init /\ [][Next]_vars

-----------------------------------------------------------------------------
InTable(o) == {v \in Slots : slots[v].base = o}

Owners(o) == {c \in Callers : hand[c].kind = "owned" /\ hand[c].handle.base = o}

Adding(o) == {c \in Callers : scan[c].handle.base = o}

(* Types, and the table's count is the number of its occupied slots.        *)
TypeOK ==
    /\ slots \in [Slots -> Handle]
    /\ count = Cardinality({v \in Slots : slots[v] # NoHandle})
    /\ ref_count \in [Objects -> Int]
    /\ hand \in [Callers -> [kind : {"none", "owned", "borrowed"}, handle : Handle]]
    /\ scan \in [Callers -> [slot : 0 .. MAX_HANDLES, handle : Handle]]
    /\ granted \in [Objects -> SUBSET Rights]
    /\ lost \in [Objects -> Nat]

(* An object's reference count is exactly the number of handles that stand  *)
(* for it: in the table, in a caller's hand, on their way into the table,   *)
(* and those dropped at a full table.  No interleaving of duplicate, remove *)
(* and add counts a handle twice or not at all.                             *)
ReferencesAccountedFor ==
    \A o \in Objects :
        ref_count[o] = Cardinality(InTable(o)) + Cardinality(Owners(o))
                       + Cardinality(Adding(o)) + lost[o]

(* However often a handle is duplicated, fetched and duplicated again, no   *)
(* handle has a right that the object's first handle did not have.          *)
RightsNeverGrow ==
    /\ \A v \in Slots : \A o \in Objects :
          slots[v].base = o => slots[v].rights \subseteq granted[o]
    /\ \A c \in Callers : \A o \in Objects :
          /\ hand[c].handle.base = o => hand[c].handle.rights \subseteq granted[o]
          /\ scan[c].handle.base = o => scan[c].handle.rights \subseteq granted[o]

-----------------------------------------------------------------------------
(* What the code's own comments say of it and the model refutes.            *)

(* handle.rs on ref_dec and Handle::close: "Returns true if this was the    *)
(* last reference."  Then no reference to the object can appear again.      *)
LastReferenceIsLast ==
    [][\A o \in Objects : granted[o] # {} /\ ref_count[o] = 0 => ref_count'[o] = 0]_vars

=============================================================================

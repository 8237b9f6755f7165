------------------------- MODULE HandleTableProofs -------------------------
(***************************************************************************)
(* Rights never grow and references are accounted for, for every number of  *)
(* slots, objects and callers.                                              *)
(***************************************************************************)
EXTENDS HandleTable, FiniteSetTheorems, TLAPS

(* The objects that have been made.                                         *)
Made == {o \in Objects : granted[o] # {}}

(* What every variable looks like: a handle that is kept names an object    *)
(* that has been made, and only such an object has references.              *)
Shape ==
    /\ slots \in [Slots -> Handle]
    /\ ref_count \in [Objects -> Int]
    /\ hand \in [Callers -> [kind : {"none", "owned", "borrowed"}, handle : Handle]]
    /\ scan \in [Callers -> [slot : 0 .. MAX_HANDLES, handle : Handle]]
    /\ granted \in [Objects -> SUBSET Rights]
    /\ lost \in [Objects -> Nat]
    /\ \A v \in Slots : slots[v] # NoHandle => slots[v].base \in Made
    /\ \A c \in Callers : hand[c] # Empty => hand[c].handle.base \in Made
    /\ \A c \in Callers : scan[c] # Idle => scan[c].handle.base \in Made
    /\ \A o \in Objects : o \notin Made => ref_count[o] = 0

(* A duplicate's rights are among the rights it was made from, whatever     *)
(* the mask (Handle::duplicate_with_mask and HandleTable::duplicate).       *)
LEMMA DuplicatedReduces ==
    ASSUME NEW rights \in SUBSET Rights, NEW mask
    PROVE  Duplicated(rights, mask) \subseteq rights
BY DEF Duplicated, reduce

(* The initial state has the shape.                                         *)
LEMMA InitShape == Init => Shape
<1>1. SUFFICES ASSUME Init PROVE Shape
  OBVIOUS
<1>2. NoHandle \in Handle /\ Empty.handle = NoHandle /\ Idle.handle = NoHandle
  BY DEF NoHandle, Handle, Empty, Idle
<1>3. Idle \in [slot : 0 .. MAX_HANDLES, handle : Handle]
  BY <1>2, HandleAssumption DEF Idle
<1>4. Empty \in [kind : {"none", "owned", "borrowed"}, handle : Handle]
  BY <1>2 DEF Empty
<1>5. QED
  BY <1>1, <1>2, <1>3, <1>4 DEF Init, Shape, Made

(* Taking a reference changes that object's count and no other.             *)
LEMMA RefInc ==
    ASSUME Shape, NEW o \in Made, ref_inc(o)
    PROVE  /\ ref_count' \in [Objects -> Int]
           /\ ref_count'[o] = ref_count[o] + 1
           /\ \A p \in Objects : p # o => ref_count'[p] = ref_count[p]
           /\ \A p \in Objects : p \notin Made => ref_count'[p] = 0
<1>1. ref_count \in [Objects -> Int] /\ o \in Objects
  BY DEF Shape, Made
<1>2. /\ ref_count'[o] = ref_count[o] + 1
      /\ \A p \in Objects : p # o => ref_count'[p] = ref_count[p]
  BY <1>1 DEF ref_inc
<1>3. ref_count' \in [Objects -> Int]
  BY <1>1 DEF ref_inc
<1>4. \A p \in Objects : p \notin Made => ref_count'[p] = 0
  BY <1>2 DEF Shape
<1>5. QED
  BY <1>2, <1>3, <1>4

(* So does dropping one.                                                    *)
LEMMA RefDec ==
    ASSUME Shape, NEW o \in Made, ref_dec(o)
    PROVE  /\ ref_count' \in [Objects -> Int]
           /\ ref_count'[o] = ref_count[o] - 1
           /\ \A p \in Objects : p # o => ref_count'[p] = ref_count[p]
           /\ \A p \in Objects : p \notin Made => ref_count'[p] = 0
<1>1. ref_count \in [Objects -> Int] /\ o \in Objects
  BY DEF Shape, Made
<1>2. /\ ref_count'[o] = ref_count[o] - 1
      /\ \A p \in Objects : p # o => ref_count'[p] = ref_count[p]
  BY <1>1 DEF ref_dec
<1>3. ref_count' \in [Objects -> Int]
  BY <1>1 DEF ref_dec
<1>4. \A p \in Objects : p \notin Made => ref_count'[p] = 0
  BY <1>2 DEF Shape
<1>5. QED
  BY <1>2, <1>3, <1>4

(* The handle an add starts with, and the other callers' adds, are typed.   *)
LEMMA StartAddShape ==
    ASSUME Shape, NEW c \in Callers, NEW base \in Made, NEW rights \in SUBSET Rights,
           StartAdd(c, base, rights)
    PROVE  /\ scan' \in [Callers -> [slot : 0 .. MAX_HANDLES, handle : Handle]]
           /\ scan'[c].handle = [base |-> base, rights |-> rights]
           /\ \A d \in Callers : d # c => scan'[d] = scan[d]
           /\ \A d \in Callers : scan'[d] # Idle => scan'[d].handle.base \in Made
<1> DEFINE new == [slot |-> 0, handle |-> [base |-> base, rights |-> rights]]
<1>1. new \in [slot : 0 .. MAX_HANDLES, handle : Handle]
  BY HandleAssumption DEF Handle, Made
<1>2. scan' = [scan EXCEPT ![c] = new]
  BY DEF StartAdd
<1>3. scan \in [Callers -> [slot : 0 .. MAX_HANDLES, handle : Handle]]
  BY DEF Shape
<1>4. scan'[c] = new /\ \A d \in Callers : d # c => scan'[d] = scan[d]
  BY <1>2, <1>3
<1>5. scan' \in [Callers -> [slot : 0 .. MAX_HANDLES, handle : Handle]]
  BY <1>1, <1>2, <1>3
<1>6. \A d \in Callers : scan'[d] # Idle => scan'[d].handle.base \in Made
  BY <1>4 DEF Shape
<1>7. QED
  BY <1>4, <1>5, <1>6

(* Every operation keeps the shape.                                         *)
LEMMA NextShape == Shape /\ [Next]_vars => Shape'
<1> SUFFICES ASSUME Shape, [Next]_vars PROVE Shape'
  OBVIOUS
<1> USE DEF Shape
<1> DEFINE Hands == [kind : {"none", "owned", "borrowed"}, handle : Handle]
<1>0. /\ NoHandle \in Handle /\ NoHandle.base = NoObject /\ NoObject \notin Objects
      /\ Empty \in Hands /\ Empty.kind # "owned" /\ Empty.handle = NoHandle
      /\ Idle \in [slot : 0 .. MAX_HANDLES, handle : Handle]
  BY SMTT(40), HandleAssumption DEF NoHandle, Handle, Empty, Idle
<1>1. ASSUME NEW c \in Callers, NEW o \in Objects, NEW rights \in SUBSET Rights,
             Handle_new(c, o, rights)
      PROVE  Shape'
  <2>1. [kind |-> "owned", handle |-> [base |-> o, rights |-> rights]] \in Hands
    BY DEF Handle
  <2>2. hand' \in [Callers -> Hands]
    BY <1>1, <2>1 DEF Handle_new
  <2>3. /\ ref_count' \in [Objects -> Int] /\ granted' \in [Objects -> SUBSET Rights]
        /\ \A p \in Objects : p # o => granted'[p] = granted[p] /\ ref_count'[p] = ref_count[p]
        /\ granted'[o] # {}
    BY <1>1 DEF Handle_new
  <2>4. Made' = Made \cup {o}
    BY <2>3 DEF Made
  <2>5. \A d \in Callers : hand'[d] # Empty => hand'[d].handle.base \in Made'
    BY <1>1, <2>4 DEF Handle_new
  <2>6. \A p \in Objects : p \notin Made' => ref_count'[p] = 0
    BY <2>3, <2>4
  <2>7. QED
    BY <1>1, <2>2, <2>3, <2>4, <2>5, <2>6 DEF Handle_new, tableVars
<1>2. ASSUME NEW c \in Callers, Handle_close(c) PROVE Shape'
  <2>1. hand[c].handle.base \in Made
    BY <1>0, <1>2 DEF Handle_close
  <2>2. Made' = Made
    BY <1>2 DEF Handle_close, Made
  <2>3. /\ ref_count' \in [Objects -> Int]
        /\ \A p \in Objects : p \notin Made => ref_count'[p] = 0
    BY <1>2, <2>1, RefDec DEF Handle_close
  <2>4. hand' \in [Callers -> Hands]
    BY <1>0, <1>2 DEF Handle_close
  <2>5. \A d \in Callers : hand'[d] # Empty => hand'[d].handle.base \in Made
    BY <1>2 DEF Handle_close
  <2>6. QED
    BY <1>2, <2>2, <2>3, <2>4, <2>5 DEF Handle_close, tableVars
<1>3. ASSUME NEW c \in Callers, NEW mask \in Masks, Handle_duplicate(c, mask) PROVE Shape'
  <2>1. hand[c].handle.base \in Made /\ hand[c].handle.rights \in SUBSET Rights
    BY <1>0, <1>3 DEF Handle_duplicate, is_valid, Handle
  <2>2. Made' = Made
    BY <1>3 DEF Handle_duplicate, Made
  <2>3. /\ ref_count' \in [Objects -> Int]
        /\ \A p \in Objects : p \notin Made => ref_count'[p] = 0
    BY <1>3, <2>1, RefInc DEF Handle_duplicate
  <2>4. /\ scan' \in [Callers -> [slot : 0 .. MAX_HANDLES, handle : Handle]]
        /\ \A d \in Callers : scan'[d] # Idle => scan'[d].handle.base \in Made
    <3>1. Duplicated(hand[c].handle.rights, mask) \in SUBSET Rights
      BY <2>1, DuplicatedReduces
    <3>2. StartAdd(c, hand[c].handle.base, Duplicated(hand[c].handle.rights, mask))
      BY <1>3 DEF Handle_duplicate
    <3>3. QED
      BY ZenonT(40), <2>1, <3>1, <3>2, StartAddShape
  <2>5. QED
    BY <1>3, <2>2, <2>3, <2>4 DEF Handle_duplicate, tableVars
<1>4. ASSUME NEW c \in Callers, add(c) PROVE Shape'
  <2>1. hand[c].handle.base \in Made /\ hand[c].handle.rights \in SUBSET Rights
    BY <1>0, <1>4 DEF add, Handle
  <2>2. Made' = Made
    BY <1>4 DEF add, Made
  <2>3. /\ scan' \in [Callers -> [slot : 0 .. MAX_HANDLES, handle : Handle]]
        /\ \A d \in Callers : scan'[d] # Idle => scan'[d].handle.base \in Made
    BY ZenonT(40), <1>4, <2>1, StartAddShape DEF add
  <2>4. hand' \in [Callers -> Hands]
    BY <1>0, <1>4 DEF add
  <2>5. \A d \in Callers : hand'[d] # Empty => hand'[d].handle.base \in Made
    BY <1>4 DEF add
  <2>6. QED
    BY <1>4, <2>2, <2>3, <2>4, <2>5 DEF add, tableVars
<1>5. ASSUME NEW c \in Callers, add_slot(c) PROVE Shape'
  <2>1. /\ scan[c].handle \in Handle /\ scan[c].handle.base \in Made
        /\ scan[c].slot \in Slots
    BY <1>5, HandleAssumption DEF add_slot, Slots
  <2>2. Made' = Made
    BY <1>5 DEF add_slot, Made
  <2>3. CASE slots[scan[c].slot] = NoHandle
    <3>1. /\ slots' = [slots EXCEPT ![scan[c].slot] = scan[c].handle]
          /\ scan' = [scan EXCEPT ![c] = Idle]
      BY <1>5, <2>3 DEF add_slot
    <3>2. /\ slots' \in [Slots -> Handle]
          /\ \A v \in Slots : slots'[v] # NoHandle => slots'[v].base \in Made
      BY <2>1, <3>1
    <3>3. /\ scan' \in [Callers -> [slot : 0 .. MAX_HANDLES, handle : Handle]]
          /\ \A d \in Callers : scan'[d] # Idle => scan'[d].handle.base \in Made
      BY <1>0, <3>1
    <3>4. QED
      BY <1>5, <2>2, <3>2, <3>3 DEF add_slot
  <2>4. CASE slots[scan[c].slot] # NoHandle
    <3>1. scan' = [scan EXCEPT ![c].slot = scan[c].slot + 1] /\ UNCHANGED slots
      BY <1>5, <2>4 DEF add_slot, tableVars
    <3>2. scan[c].slot + 1 \in 0 .. MAX_HANDLES
      BY <2>1, HandleAssumption DEF Slots
    <3>3. scan'[c].handle = scan[c].handle /\ \A d \in Callers : d # c => scan'[d] = scan[d]
      BY <3>1
    <3>4. scan' \in [Callers -> [slot : 0 .. MAX_HANDLES, handle : Handle]]
      BY <3>1, <3>2
    <3>5. \A d \in Callers : scan'[d] # Idle => scan'[d].handle.base \in Made
      BY <2>1, <3>3
    <3>6. QED
      BY <1>5, <2>2, <3>1, <3>4, <3>5 DEF add_slot
  <2>5. QED
    BY <2>3, <2>4
<1>6. ASSUME NEW c \in Callers, add_full(c) PROVE Shape'
  <2>1. scan[c].handle.base \in Objects
    BY <1>6 DEF add_full, Made
  <2>2. Made' = Made
    BY <1>6 DEF add_full, Made
  <2>3. lost' \in [Objects -> Nat]
    BY <1>6, <2>1 DEF add_full
  <2>4. /\ scan' \in [Callers -> [slot : 0 .. MAX_HANDLES, handle : Handle]]
        /\ \A d \in Callers : scan'[d] # Idle => scan'[d].handle.base \in Made
    BY <1>0, <1>6 DEF add_full
  <2>5. QED
    BY <1>6, <2>2, <2>3, <2>4 DEF add_full, tableVars
<1>7. ASSUME NEW c \in Callers, NEW v \in Slots, get(c, v) PROVE Shape'
  <2>1. Made' = Made
    BY <1>7 DEF get, Made
  <2>2. PICK new : /\ hand' = [hand EXCEPT ![c] = new]
                   /\ new = IF slots[v] = NoHandle THEN Empty
                            ELSE [kind |-> "borrowed", handle |-> slots[v]]
    BY ZenonT(40), <1>7 DEF get
  <2>3. new \in Hands /\ (new # Empty => new.handle.base \in Made)
    BY <1>0, <2>2
  <2>4. hand' \in [Callers -> Hands]
    BY <2>2, <2>3
  <2>5. \A d \in Callers : hand'[d] # Empty => hand'[d].handle.base \in Made
    BY <2>2, <2>3
  <2>6. QED
    BY <1>7, <2>1, <2>4, <2>5 DEF get, tableVars
<1>8. ASSUME NEW v \in Slots, remove(v) PROVE Shape'
  <2>1. slots[v].base \in Made
    BY <1>8 DEF remove
  <2>2. Made' = Made
    BY <1>8 DEF remove, Made
  <2>3. /\ ref_count' \in [Objects -> Int]
        /\ \A p \in Objects : p \notin Made => ref_count'[p] = 0
    BY <1>8, <2>1, RefDec DEF remove
  <2>4. /\ slots' \in [Slots -> Handle]
        /\ \A w \in Slots : slots'[w] # NoHandle => slots'[w].base \in Made
    BY <1>0, <1>8 DEF remove
  <2>5. QED
    BY <1>8, <2>2, <2>3, <2>4 DEF remove
<1>9. ASSUME NEW c \in Callers, NEW v \in Slots, NEW mask \in Masks, duplicate(c, v, mask)
      PROVE  Shape'
  <2>1. slots[v].base \in Made /\ slots[v].rights \in SUBSET Rights
    BY <1>9 DEF duplicate, Handle
  <2>2. Made' = Made
    BY SMTT(40), <1>9 DEF duplicate, Made
  <2>3. /\ ref_count' \in [Objects -> Int]
        /\ \A p \in Objects : p \notin Made => ref_count'[p] = 0
    BY <1>9, <2>1, RefInc DEF duplicate
  <2>4. /\ scan' \in [Callers -> [slot : 0 .. MAX_HANDLES, handle : Handle]]
        /\ \A d \in Callers : scan'[d] # Idle => scan'[d].handle.base \in Made
    <3>1. Duplicated(slots[v].rights, mask) \in SUBSET Rights
      BY <2>1, DuplicatedReduces
    <3>2. QED
      BY ZenonT(40), <1>9, <2>1, <3>1, StartAddShape DEF duplicate
  <2>5. QED
    BY <1>9, <2>2, <2>3, <2>4 DEF duplicate, tableVars
<1>10. CASE UNCHANGED vars
  BY <1>10 DEF vars, Made
<1>11. QED
  BY <1>1, <1>2, <1>3, <1>4, <1>5, <1>6, <1>7, <1>8, <1>9, <1>10 DEF Next

-----------------------------------------------------------------------------
(* The rights of a handle are among those granted with its object.          *)
Bounded(handle) == \A o \in Objects : handle.base = o => handle.rights \subseteq granted[o]

(* RightsNeverGrow, one handle at a time.                                   *)
LEMMA RightsPointwise ==
    RightsNeverGrow <=> /\ \A v \in Slots : Bounded(slots[v])
                        /\ \A c \in Callers : Bounded(hand[c].handle)
                        /\ \A c \in Callers : Bounded(scan[c].handle)
BY DEF RightsNeverGrow, Bounded

(* A handle with fewer rights on the same object stays within the grant.    *)
LEMMA BoundedDuplicate ==
    ASSUME NEW handle \in Handle, NEW mask, Bounded(handle)
    PROVE  Bounded([base |-> handle.base, rights |-> Duplicated(handle.rights, mask)])
<1>1. Duplicated(handle.rights, mask) \subseteq handle.rights
  BY DuplicatedReduces DEF Handle
<1>2. QED
  BY <1>1 DEF Bounded

(* No operation gives a handle a right its object was not granted.          *)
LEMMA NextRights == Shape /\ RightsNeverGrow /\ [Next]_vars => RightsNeverGrow'
<1> SUFFICES ASSUME Shape, RightsNeverGrow, [Next]_vars PROVE RightsNeverGrow'
  OBVIOUS
<1>a. /\ \A v \in Slots : Bounded(slots[v]) /\ slots[v] \in Handle
      /\ \A c \in Callers : Bounded(hand[c].handle) /\ hand[c].handle \in Handle
      /\ \A c \in Callers : Bounded(scan[c].handle)
  BY RightsPointwise DEF Shape
<1>c. Bounded(NoHandle)
  BY HandleAssumption DEF Bounded, NoHandle
<1>d. Empty.handle = NoHandle /\ Idle.handle = NoHandle
  BY DEF Empty, Idle
<1>e. ASSUME NEW c \in Callers, NEW handle \in Handle, Bounded(handle), NEW mask,
             StartAdd(c, handle.base, Duplicated(handle.rights, mask))
      PROVE  \A d \in Callers : Bounded(scan'[d].handle)
  <2>1. \A d \in Callers : scan'[d].handle =
            IF d = c THEN [base |-> handle.base, rights |-> Duplicated(handle.rights, mask)]
            ELSE scan[d].handle
    BY <1>e DEF StartAdd, Shape
  <2>2. Bounded([base |-> handle.base, rights |-> Duplicated(handle.rights, mask)])
    BY <1>e, BoundedDuplicate
  <2>3. QED
    BY <1>a, <2>1, <2>2
<1>1. ASSUME NEW c \in Callers, NEW o \in Objects, NEW rights \in SUBSET Rights,
             Handle_new(c, o, rights)
      PROVE  RightsNeverGrow'
  <2>1. \A p \in Objects : granted[p] \subseteq granted'[p]
    BY <1>1 DEF Handle_new, Shape
  <2>2. \A handle : Bounded(handle) => \A p \in Objects :
            handle.base = p => handle.rights \subseteq granted'[p]
    BY <2>1 DEF Bounded
  <2>3. \A d \in Callers : d # c => hand'[d] = hand[d]
    BY <1>1 DEF Handle_new, Shape
  <2>4. hand'[c].handle = [base |-> o, rights |-> rights] /\ granted'[o] = rights
    BY <1>1 DEF Handle_new, Shape
  <2>5. \A d \in Callers, p \in Objects :
            hand'[d].handle.base = p => hand'[d].handle.rights \subseteq granted'[p]
    BY SMTT(40), <1>a, <2>2, <2>3, <2>4
  <2>6. slots' = slots /\ scan' = scan
    BY <1>1 DEF Handle_new, tableVars
  <2>7. QED
    BY <1>a, <2>2, <2>5, <2>6 DEF RightsNeverGrow
<1>2. ASSUME granted' = granted,
             \A v \in Slots : Bounded(slots'[v]),
             \A c \in Callers : Bounded(hand'[c].handle),
             \A c \in Callers : Bounded(scan'[c].handle)
      PROVE  RightsNeverGrow'
  BY <1>2 DEF RightsNeverGrow, Bounded
<1>3. ASSUME NEW c \in Callers, Handle_close(c) PROVE RightsNeverGrow'
  <2>1. \A d \in Callers : hand'[d] = IF d = c THEN Empty ELSE hand[d]
    BY <1>3 DEF Handle_close, Shape
  <2>2. QED
    BY <1>a, <1>c, <1>d, <1>2, <1>3, <2>1 DEF Handle_close, tableVars
<1>4. ASSUME NEW c \in Callers, NEW mask \in Masks, Handle_duplicate(c, mask)
      PROVE  RightsNeverGrow'
  <2>1. \A d \in Callers : Bounded(scan'[d].handle)
    BY ZenonT(40), <1>a, <1>e, <1>4 DEF Handle_duplicate
  <2>2. QED
    BY <1>a, <1>2, <1>4, <2>1 DEF Handle_duplicate, tableVars
<1>5. ASSUME NEW c \in Callers, add(c) PROVE RightsNeverGrow'
  <2>1. \A d \in Callers : hand'[d] = IF d = c THEN Empty ELSE hand[d]
    BY <1>5 DEF add, Shape
  <2>2. \A d \in Callers : scan'[d].handle =
            IF d = c THEN [base |-> hand[c].handle.base, rights |-> hand[c].handle.rights]
            ELSE scan[d].handle
    BY <1>5 DEF add, StartAdd, Shape
  <2>3. Bounded([base |-> hand[c].handle.base, rights |-> hand[c].handle.rights])
    BY <1>a DEF Bounded
  <2>4. \A d \in Callers : Bounded(scan'[d].handle)
    BY <1>a, <2>2, <2>3
  <2>5. QED
    BY <1>a, <1>c, <1>d, <1>2, <1>5, <2>1, <2>4 DEF add, tableVars
<1>6. ASSUME NEW c \in Callers, add_slot(c) PROVE RightsNeverGrow'
  <2>1. \A d \in Callers : scan'[d].handle \in {scan[d].handle, NoHandle}
    BY SMTT(40), <1>d, <1>6 DEF add_slot, Shape
  <2>2. \A v \in Slots : slots'[v] \in {slots[v], scan[c].handle}
    BY <1>6 DEF add_slot, Shape, tableVars
  <2>3. hand' = hand /\ granted' = granted
    BY <1>6 DEF add_slot
  <2>4. QED
    BY <1>a, <1>c, <1>2, <2>1, <2>2, <2>3
<1>7. ASSUME NEW c \in Callers, add_full(c) PROVE RightsNeverGrow'
  <2>1. \A d \in Callers : scan'[d] = IF d = c THEN Idle ELSE scan[d]
    BY <1>7 DEF add_full, Shape
  <2>2. QED
    BY <1>a, <1>c, <1>d, <1>2, <1>7, <2>1 DEF add_full, tableVars
<1>8. ASSUME NEW c \in Callers, NEW v \in Slots, get(c, v) PROVE RightsNeverGrow'
  <2>1. \A d \in Callers : hand'[d].handle \in {hand[d].handle, NoHandle, slots[v]}
    BY <1>d, <1>8 DEF get, Shape
  <2>2. QED
    BY <1>a, <1>c, <1>2, <1>8, <2>1 DEF get, tableVars
<1>9. ASSUME NEW v \in Slots, remove(v) PROVE RightsNeverGrow'
  <2>1. \A w \in Slots : slots'[w] \in {slots[w], NoHandle}
    BY <1>9 DEF remove, Shape
  <2>2. QED
    BY <1>a, <1>c, <1>2, <1>9, <2>1 DEF remove
<1>10. ASSUME NEW c \in Callers, NEW v \in Slots, NEW mask \in Masks, duplicate(c, v, mask)
       PROVE  RightsNeverGrow'
  <2>1. \A d \in Callers : Bounded(scan'[d].handle)
    BY ZenonT(40), <1>a, <1>e, <1>10 DEF duplicate
  <2>2. QED
    BY SMTT(40), <1>a, <1>2, <1>10, <2>1 DEF duplicate, tableVars
<1>11. CASE UNCHANGED vars
  BY <1>11 DEF vars, RightsNeverGrow
<1>12. QED
  BY <1>1, <1>3, <1>4, <1>5, <1>6, <1>7, <1>8, <1>9, <1>10, <1>11 DEF Next

-----------------------------------------------------------------------------
(* The handles on an object are finitely many, wherever they are.           *)
LEMMA FiniteHandles ==
    ASSUME NEW o
    PROVE  /\ IsFiniteSet(InTable(o)) /\ Cardinality(InTable(o)) \in Nat
           /\ IsFiniteSet(Owners(o)) /\ Cardinality(Owners(o)) \in Nat
           /\ IsFiniteSet(Adding(o)) /\ Cardinality(Adding(o)) \in Nat
<1>1. IsFiniteSet(Slots)
  BY HandleAssumption, FS_Interval DEF Slots
<1>2. InTable(o) \subseteq Slots /\ Owners(o) \subseteq Callers /\ Adding(o) \subseteq Callers
  BY DEF InTable, Owners, Adding
<1>3. IsFiniteSet(InTable(o)) /\ IsFiniteSet(Owners(o)) /\ IsFiniteSet(Adding(o))
  BY <1>1, <1>2, HandleAssumption, FS_Subset
<1>4. QED
  BY <1>3, FS_CardinalityType

(* A set with one more element counts one more.                             *)
LEMMA Gain ==
    ASSUME NEW S, IsFiniteSet(S), NEW x, x \notin S
    PROVE  Cardinality(S \cup {x}) = Cardinality(S) + 1
BY FS_AddElement

(* A set with one element less counts one less.                             *)
LEMMA Loss ==
    ASSUME NEW S, IsFiniteSet(S), NEW x \in S
    PROVE  Cardinality(S \ {x}) = Cardinality(S) - 1
BY FS_RemoveElement

(* Every operation keeps the count of every object exact.                   *)
LEMMA NextReferences ==
    Shape /\ ReferencesAccountedFor /\ [Next]_vars => ReferencesAccountedFor'
<1> SUFFICES ASSUME Shape, ReferencesAccountedFor, [Next]_vars, NEW o \in Objects
             PROVE  ref_count'[o] = Cardinality(InTable(o)') + Cardinality(Owners(o)')
                                    + Cardinality(Adding(o)') + lost'[o]
  BY DEF ReferencesAccountedFor
<1> DEFINE Exact == ref_count'[o] = Cardinality(InTable(o)') + Cardinality(Owners(o)')
                                    + Cardinality(Adding(o)') + lost'[o]
<1>a. /\ ref_count[o] = Cardinality(InTable(o)) + Cardinality(Owners(o))
                        + Cardinality(Adding(o)) + lost[o]
      /\ lost[o] \in Nat /\ ref_count[o] \in Int
  BY DEF ReferencesAccountedFor, Shape
<1>b. IsFiniteSet(InTable(o)) /\ IsFiniteSet(Owners(o)) /\ IsFiniteSet(Adding(o))
  BY FiniteHandles
<1>n. /\ Cardinality(InTable(o)) \in Nat /\ Cardinality(Owners(o)) \in Nat
      /\ Cardinality(Adding(o)) \in Nat
  BY FiniteHandles
<1>c. NoObject \notin Objects /\ Empty.handle.base = NoObject /\ Idle.handle.base = NoObject
      /\ NoHandle.base = NoObject /\ Empty.kind = "none"
  BY HandleAssumption DEF Empty, Idle, NoHandle
<1>d. ASSUME slots' = slots PROVE InTable(o)' = InTable(o)
  BY <1>d DEF InTable
<1>e. ASSUME hand' = hand PROVE Owners(o)' = Owners(o)
  BY <1>e DEF Owners
<1>f. ASSUME scan' = scan PROVE Adding(o)' = Adding(o)
  BY <1>f DEF Adding
<1>g. ASSUME NEW c \in Callers, NEW base \in Made, NEW rights, scan[c] = Idle, ref_inc(base),
             StartAdd(c, base, rights), slots' = slots, hand' = hand, lost' = lost
      PROVE  Exact
  <2>1. \A d \in Callers : scan'[d].handle.base = IF d = c THEN base ELSE scan[d].handle.base
    BY <1>g DEF StartAdd, Shape
  <2>2. c \notin Adding(o)
    BY SMTT(40), <1>c, <1>g DEF Adding
  <2>3. CASE o = base
    <3>1. Adding(o)' = Adding(o) \cup {c}
      BY <2>1, <2>3 DEF Adding
    <3>2. Cardinality(Adding(o)') = Cardinality(Adding(o)) + 1
      BY <1>b, <2>2, <3>1, Gain
    <3>3. ref_count'[o] = ref_count[o] + 1
      BY <1>g, <2>3, RefInc
    <3>4. InTable(o)' = InTable(o) /\ Owners(o)' = Owners(o) /\ lost'[o] = lost[o]
      BY SMTT(40), <1>d, <1>e, <1>g
    <3>5. QED
      BY SMTT(40), <1>a, <1>n, <3>2, <3>3, <3>4
  <2>4. CASE o # base
    <3>1. Adding(o)' = Adding(o)
      BY <1>c, <1>g, <2>1, <2>4 DEF Adding
    <3>2. ref_count'[o] = ref_count[o]
      BY <1>g, <2>4, RefInc
    <3>3. QED
      BY SMTT(40), <1>a, <1>d, <1>e, <1>g, <3>1, <3>2
  <2>5. QED
    BY SMTT(40), <2>3, <2>4
<1>1. ASSUME NEW c \in Callers, NEW p \in Objects, NEW rights \in SUBSET Rights,
             Handle_new(c, p, rights)
      PROVE  Exact
  <2>1. /\ slots' = slots /\ scan' = scan /\ lost' = lost
        /\ ref_count'[o] = IF o = p THEN 1 ELSE ref_count[o]
    BY SMTT(40), <1>1 DEF Handle_new, tableVars, Shape
  <2>2. \A d \in Callers : hand'[d] =
            IF d = c THEN [kind |-> "owned", handle |-> [base |-> p, rights |-> rights]]
            ELSE hand[d]
    BY SMTT(40), <1>1 DEF Handle_new, Shape
  <2>3. c \notin Owners(o)
    BY SMTT(40), <1>1, <1>c DEF Owners, Handle_new
  <2>4. CASE o = p
    <3>1. Owners(o)' = Owners(o) \cup {c}
      BY SMTT(40), <2>2, <2>4 DEF Owners
    <3>2. Cardinality(Owners(o)') = Cardinality(Owners(o)) + 1
      BY SMTT(40), <1>b, <2>3, <3>1, Gain
    <3>3. ref_count[o] = 0
      BY <1>1, <2>4 DEF Handle_new, Shape, Made
    <3>4. /\ InTable(o)' = InTable(o) /\ Adding(o)' = Adding(o)
          /\ lost'[o] = lost[o] /\ ref_count'[o] = 1
      BY SMTT(40), <1>d, <1>f, <2>1, <2>4
    <3>5. QED
      BY SMTT(40), <1>a, <1>n, <3>2, <3>3, <3>4
  <2>5. CASE o # p
    <3>1. Owners(o)' = Owners(o)
      BY SMTT(40), <2>2, <2>3, <2>5 DEF Owners
    <3>2. QED
      BY SMTT(40), <1>a, <1>d, <1>f, <2>1, <2>5, <3>1
  <2>6. QED
    BY SMTT(40), <2>4, <2>5
<1>2. ASSUME NEW c \in Callers, Handle_close(c) PROVE Exact
  <2>1. slots' = slots /\ scan' = scan /\ lost' = lost
    BY <1>2 DEF Handle_close, tableVars
  <2>2. hand[c].handle.base \in Made /\ ref_dec(hand[c].handle.base)
    BY <1>2, <1>c DEF Handle_close, Shape
  <2>3. \A d \in Callers : hand'[d] = IF d = c THEN Empty ELSE hand[d]
    BY <1>2 DEF Handle_close, Shape
  <2>4. CASE o = hand[c].handle.base
    <3>1. c \in Owners(o) /\ Owners(o)' = Owners(o) \ {c}
      BY SMTT(40), <1>2, <1>c, <2>3, <2>4 DEF Owners, Handle_close
    <3>2. Cardinality(Owners(o)') = Cardinality(Owners(o)) - 1
      BY <1>b, <3>1, Loss
    <3>3. ref_count'[o] = ref_count[o] - 1
      BY <2>2, <2>4, RefDec
    <3>4. InTable(o)' = InTable(o) /\ Adding(o)' = Adding(o) /\ lost'[o] = lost[o]
      BY SMTT(40), <1>d, <1>f, <2>1
    <3>5. QED
      BY SMTT(40), <1>a, <1>n, <3>2, <3>3, <3>4
  <2>5. CASE o # hand[c].handle.base
    <3>1. Owners(o)' = Owners(o)
      BY <1>c, <2>3, <2>5 DEF Owners
    <3>2. ref_count'[o] = ref_count[o]
      BY SMTT(40), <2>2, <2>5, RefDec
    <3>3. QED
      BY SMTT(40), <1>a, <1>d, <1>f, <2>1, <3>1, <3>2
  <2>6. QED
    BY <2>4, <2>5
<1>3. ASSUME NEW c \in Callers, NEW mask \in Masks, Handle_duplicate(c, mask) PROVE Exact
  <2>1. hand[c].handle.base \in Made
    BY SMTT(40), <1>3, <1>c DEF Handle_duplicate, is_valid, Shape
  <2>2. QED
    BY SMTT(40), <1>3, <1>g, <2>1 DEF Handle_duplicate, tableVars
<1>4. ASSUME NEW c \in Callers, add(c) PROVE Exact
  <2>1. slots' = slots /\ lost' = lost /\ ref_count' = ref_count
    BY <1>4 DEF add, tableVars
  <2>2. \A d \in Callers : hand'[d] = IF d = c THEN Empty ELSE hand[d]
    BY SMTT(40), <1>4 DEF add, Shape
  <2>3. \A d \in Callers : scan'[d].handle.base =
            IF d = c THEN hand[c].handle.base ELSE scan[d].handle.base
    BY <1>4 DEF add, StartAdd, Shape
  <2>4. c \notin Adding(o)
    BY SMTT(40), <1>4, <1>c DEF add, Adding
  <2>5. CASE o = hand[c].handle.base
    <3>1. c \in Owners(o) /\ Owners(o)' = Owners(o) \ {c}
      BY SMTT(40), <1>4, <1>c, <2>2, <2>5 DEF Owners, add
    <3>2. Adding(o)' = Adding(o) \cup {c}
      BY <2>3, <2>5 DEF Adding
    <3>3. /\ Cardinality(Owners(o)') = Cardinality(Owners(o)) - 1
          /\ Cardinality(Adding(o)') = Cardinality(Adding(o)) + 1
      BY <1>b, <2>4, <3>1, <3>2, Gain, Loss
    <3>4. InTable(o)' = InTable(o) /\ lost'[o] = lost[o] /\ ref_count'[o] = ref_count[o]
      BY <1>d, <2>1
    <3>5. QED
      BY SMTT(40), <1>a, <1>n, <3>3, <3>4
  <2>6. CASE o # hand[c].handle.base
    <3>1. Owners(o)' = Owners(o)
      BY <1>c, <2>2, <2>6 DEF Owners
    <3>2. Adding(o)' = Adding(o)
      BY <2>3, <2>4, <2>6 DEF Adding
    <3>3. QED
      BY SMTT(40), <1>a, <1>d, <2>1, <3>1, <3>2
  <2>7. QED
    BY <2>5, <2>6
<1>5. ASSUME NEW c \in Callers, add_slot(c) PROVE Exact
  <2>1. hand' = hand /\ lost' = lost /\ ref_count' = ref_count
    BY <1>5 DEF add_slot
  <2>2. scan[c].slot \in Slots
    BY <1>5, HandleAssumption DEF add_slot, Slots, Shape
  <2>3. CASE slots[scan[c].slot] = NoHandle
    <3>1. /\ \A v \in Slots : slots'[v] = IF v = scan[c].slot THEN scan[c].handle ELSE slots[v]
          /\ \A d \in Callers : scan'[d] = IF d = c THEN Idle ELSE scan[d]
      BY <1>5, <2>3 DEF add_slot, Shape
    <3>2. scan[c].slot \notin InTable(o)
      BY SMTT(40), <1>c, <2>3 DEF InTable
    <3>3. CASE o = scan[c].handle.base
      <4>1. InTable(o)' = InTable(o) \cup {scan[c].slot}
        BY <2>2, <3>1, <3>3 DEF InTable
      <4>2. c \in Adding(o) /\ Adding(o)' = Adding(o) \ {c}
        BY SMTT(40), <1>c, <3>1, <3>3 DEF Adding
      <4>3. /\ Cardinality(InTable(o)') = Cardinality(InTable(o)) + 1
            /\ Cardinality(Adding(o)') = Cardinality(Adding(o)) - 1
        BY <1>b, <3>2, <4>1, <4>2, Gain, Loss
      <4>4. Owners(o)' = Owners(o) /\ lost'[o] = lost[o] /\ ref_count'[o] = ref_count[o]
        BY <1>e, <2>1
      <4>5. QED
        BY SMTT(40), <1>a, <1>n, <4>3, <4>4
    <3>4. CASE o # scan[c].handle.base
      <4>1. InTable(o)' = InTable(o)
        BY <3>1, <3>2, <3>4 DEF InTable
      <4>2. Adding(o)' = Adding(o)
        BY SMTT(40), <1>c, <3>1, <3>4 DEF Adding
      <4>3. QED
        BY <1>a, <1>e, <2>1, <4>1, <4>2
    <3>5. QED
      BY <3>3, <3>4
  <2>4. CASE slots[scan[c].slot] # NoHandle
    <3>1. /\ slots' = slots
          /\ \A d \in Callers : scan'[d].handle = scan[d].handle
      BY <1>5, <2>4 DEF add_slot, Shape, tableVars
    <3>2. Adding(o)' = Adding(o)
      BY <3>1 DEF Adding
    <3>3. QED
      BY <1>a, <1>d, <1>e, <2>1, <3>1, <3>2
  <2>5. QED
    BY <2>3, <2>4
<1>6. ASSUME NEW c \in Callers, add_full(c) PROVE Exact
  <2>1. slots' = slots /\ hand' = hand /\ ref_count' = ref_count
    BY <1>6 DEF add_full, tableVars
  <2>2. /\ \A d \in Callers : scan'[d] = IF d = c THEN Idle ELSE scan[d]
        /\ lost'[o] = IF o = scan[c].handle.base THEN lost[o] + 1 ELSE lost[o]
    BY <1>6 DEF add_full, Shape
  <2>3. CASE o = scan[c].handle.base
    <3>1. c \in Adding(o) /\ Adding(o)' = Adding(o) \ {c}
      BY <1>c, <2>2, <2>3 DEF Adding
    <3>2. Cardinality(Adding(o)') = Cardinality(Adding(o)) - 1
      BY <1>b, <3>1, Loss
    <3>3. /\ InTable(o)' = InTable(o) /\ Owners(o)' = Owners(o)
          /\ lost'[o] = lost[o] + 1 /\ ref_count'[o] = ref_count[o]
      BY <1>d, <1>e, <2>1, <2>2, <2>3
    <3>4. QED
      BY SMTT(40), <1>a, <1>n, <3>2, <3>3
  <2>4. CASE o # scan[c].handle.base
    <3>1. Adding(o)' = Adding(o)
      BY <1>c, <2>2, <2>4 DEF Adding
    <3>2. QED
      BY <1>a, <1>d, <1>e, <2>1, <2>2, <2>4, <3>1
  <2>5. QED
    BY <2>3, <2>4
<1>7. ASSUME NEW c \in Callers, NEW v \in Slots, get(c, v) PROVE Exact
  <2>1. slots' = slots /\ scan' = scan /\ lost' = lost /\ ref_count' = ref_count
    BY <1>7 DEF get, tableVars
  <2>2. /\ \A d \in Callers : d # c => hand'[d] = hand[d]
        /\ hand[c].kind # "owned" /\ hand'[c].kind # "owned"
    BY <1>7, <1>c DEF get, Shape
  <2>3. Owners(o)' = Owners(o)
    BY SMTT(40), <2>2 DEF Owners
  <2>4. QED
    BY <1>a, <1>d, <1>f, <2>1, <2>3
<1>8. ASSUME NEW v \in Slots, remove(v) PROVE Exact
  <2>1. hand' = hand /\ scan' = scan /\ lost' = lost
    BY <1>8 DEF remove
  <2>2. slots[v].base \in Made /\ ref_dec(slots[v].base)
    BY <1>8 DEF remove, Shape
  <2>3. \A w \in Slots : slots'[w] = IF w = v THEN NoHandle ELSE slots[w]
    BY SMTT(40), <1>8 DEF remove, Shape
  <2>4. CASE o = slots[v].base
    <3>1. v \in InTable(o) /\ InTable(o)' = InTable(o) \ {v}
      BY <1>c, <2>3, <2>4 DEF InTable
    <3>2. Cardinality(InTable(o)') = Cardinality(InTable(o)) - 1
      BY <1>b, <3>1, Loss
    <3>3. ref_count'[o] = ref_count[o] - 1
      BY <2>2, <2>4, RefDec
    <3>4. Owners(o)' = Owners(o) /\ Adding(o)' = Adding(o) /\ lost'[o] = lost[o]
      BY SMTT(40), <1>e, <1>f, <2>1
    <3>5. QED
      BY SMTT(40), <1>a, <1>n, <3>2, <3>3, <3>4
  <2>5. CASE o # slots[v].base
    <3>1. InTable(o)' = InTable(o)
      BY <1>c, <2>3, <2>5 DEF InTable
    <3>2. ref_count'[o] = ref_count[o]
      BY SMTT(40), <2>2, <2>5, RefDec
    <3>3. QED
      BY <1>a, <1>e, <1>f, <2>1, <3>1, <3>2
  <2>6. QED
    BY <2>4, <2>5
<1>9. ASSUME NEW c \in Callers, NEW v \in Slots, NEW mask \in Masks, duplicate(c, v, mask)
      PROVE  Exact
  <2>1. slots[v].base \in Made
    BY SMTT(40), <1>9 DEF duplicate, Shape
  <2>2. QED
    BY <1>9, <1>g, <2>1 DEF duplicate, tableVars
<1>10. CASE UNCHANGED vars
  BY <1>10, <1>a, <1>d, <1>e, <1>f DEF vars
<1>11. QED
  BY <1>1, <1>2, <1>3, <1>4, <1>5, <1>6, <1>7, <1>8, <1>9, <1>10 DEF Next

-----------------------------------------------------------------------------
(* In every reachable state of every instance, no handle has a right that   *)
(* its object's first handle did not have.                                  *)
THEOREM RightsNeverEverGrow == Spec => []RightsNeverGrow
<1>1. Init => Shape /\ RightsNeverGrow
  <2>1. Init => RightsNeverGrow
    BY SMTT(40) DEF Init, RightsNeverGrow, NoHandle, Empty, Idle
  <2>2. QED
    BY <2>1, InitShape
<1>2. Shape /\ RightsNeverGrow /\ [Next]_vars => (Shape /\ RightsNeverGrow)'
  BY NextShape, NextRights
<1>3. QED
  BY <1>1, <1>2, PTL DEF Spec

(* In every reachable state of every instance, an object's reference count  *)
(* is the number of handles that stand for it, those lost to a full table   *)
(* included: it never reaches zero while a counted handle exists.           *)
THEOREM ReferencesAlwaysAccountedFor == Spec => []ReferencesAccountedFor
<1>1. Init => Shape /\ ReferencesAccountedFor
  <2> SUFFICES ASSUME Init, NEW o \in Objects
               PROVE  ref_count[o] = Cardinality(InTable(o)) + Cardinality(Owners(o))
                                     + Cardinality(Adding(o)) + lost[o]
    BY InitShape DEF ReferencesAccountedFor
  <2>1. NoObject \notin Objects
    BY HandleAssumption
  <2>2. InTable(o) = {} /\ Owners(o) = {} /\ Adding(o) = {}
    BY <2>1 DEF Init, InTable, Owners, Adding, NoHandle, Empty, Idle
  <2>3. ref_count[o] = 0 /\ lost[o] = 0
    BY DEF Init
  <2>4. QED
    BY SMTT(40), <2>2, <2>3, FS_EmptySet
<1>2. Shape /\ ReferencesAccountedFor /\ [Next]_vars => (Shape /\ ReferencesAccountedFor)'
  BY NextShape, NextReferences
<1>3. QED
  BY <1>1, <1>2, PTL DEF Spec

=============================================================================

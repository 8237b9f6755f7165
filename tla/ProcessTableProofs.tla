-------------------------- MODULE ProcessTableProofs --------------------------
(***************************************************************************)
(* What alloc_pid and find_next_runnable return, for a table of any size.  *)
(***************************************************************************)
EXTENDS ProcessTable, WellFoundedInduction, TLAPS

(* Any non-empty set of naturals has a least element; alloc_pid and         *)
(* find_next_runnable both return one.                                      *)
LEMMA LeastElement ==
    ASSUME NEW T, T \subseteq Nat, T # {}
    PROVE  \E x \in T : \A y \in T : x <= y
<1>1. PICK x \in T : \A y \in T : ~ (<<y, x>> \in OpToRel(<, Nat))
  BY NatLessThanWellFounded, WFMin
<1>2. ASSUME NEW y \in T PROVE x <= y
  <2>1. <<y, x>> \in Nat \X Nat
    OBVIOUS
  <2>2. ~ (y < x)
    BY <1>1, <2>1 DEF OpToRel
  <2>3. QED
    BY <2>2
<1>3. QED
  BY <1>2

(* alloc_pid returns a slot of the table that is free and that no earlier   *)
(* allocation has passed.                                                   *)
LEMMA AllocPidIsFree ==
    ASSUME TableTypeOK, FreePids # {}
    PROVE  /\ AllocPid \in PIDs
           /\ AllocPid >= next_pid
           /\ ~Occupied(AllocPid)
<1>1. FreePids \subseteq Nat
  BY MaxProcessesAssumption DEF FreePids, TableTypeOK
<1>2. \E pid \in FreePids : \A other \in FreePids : pid <= other
  BY <1>1, LeastElement
<1>3. AllocPid \in FreePids
  BY <1>2 DEF AllocPid
<1>4. QED
  BY <1>3, MaxProcessesAssumption DEF FreePids, TableTypeOK, PIDs

(* find_next_runnable returns a runnable process whenever there is one.     *)
LEMMA FindNextRunnable ==
    ASSUME TableTypeOK, NEW from \in PIDs \cup {NONE}
    PROVE  IF RunnablePids = {} THEN find_next_runnable(from) = NONE
           ELSE find_next_runnable(from) \in RunnablePids
<1>1. CASE RunnablePids = {}
  BY <1>1 DEF find_next_runnable
<1>2. CASE RunnablePids # {}
  <2> DEFINE start == ScanStart(from)
             Passed == {Distance(start, pid) : pid \in RunnablePids}
  <2>1. start \in PIDs
    BY MaxProcessesAssumption DEF ScanStart, PIDs, NONE
  <2>2. Passed \subseteq Nat
    BY <2>1, MaxProcessesAssumption DEF Distance, PIDs, RunnablePids
  <2>3. \E d \in Passed : \A e \in Passed : d <= e
    <3>1. Passed # {}
      BY <1>2
    <3>2. QED
      BY <3>1, <2>2, LeastElement
  <2>4. \E pid \in RunnablePids : \A other \in RunnablePids :
            Distance(start, pid) <= Distance(start, other)
    BY <2>3
  <2>5. QED
    BY <1>2, <2>4 DEF find_next_runnable
<1>3. QED
  BY <1>1, <1>2

=============================================================================

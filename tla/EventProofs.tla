---------------------------- MODULE EventProofs ----------------------------
(***************************************************************************)
(* The count of waiters is exact and auto-reset strands no spinning thread, *)
(* for every number of threads.                                             *)
(***************************************************************************)
EXTENDS Event, FiniteSetTheorems, TLAPS

(* The threads inside wait.                                                 *)
Inside == {t \in EvThreads : ev_pc[t] # "idle"}

(* The inductive invariant: a thread that is owed a signal is still         *)
(* spinning, so it is counted, so the last thread out is not another one.   *)
EventInv ==
    /\ EventTypeOK
    /\ ev_owed \subseteq Spinning
    /\ SignalKeptForSpinners

(* The threads inside wait are finitely many.                               *)
LEMMA InsideFinite == IsFiniteSet(Inside) /\ Cardinality(Inside) \in Nat
BY EventAssumption, FS_Subset, FS_CardinalityType DEF Inside

(* A new event has no waiters and owes nobody.                              *)
LEMMA EventStarts == EventInit => EventInv
<1>1. SUFFICES ASSUME EventInit PROVE EventInv
  OBVIOUS
<1>2. {t \in EvThreads : ev_pc[t] # "idle"} = {}
  BY <1>1 DEF EventInit
<1>3. QED
  BY <1>1, <1>2, FS_EmptySet, EventAssumption
  DEF EventInit, EventInv, EventTypeOK, SignalKeptForSpinners, Spinning

(* A thread that enters wait is one more inside.                            *)
LEMMA EnterCounts ==
    ASSUME EventTypeOK, NEW t \in EvThreads, wait_enter(t)
    PROVE  EventTypeOK'
<1>1. Inside' = Inside \cup {t} /\ t \notin Inside
  BY DEF EventTypeOK, wait_enter, Inside
<1>2. Cardinality(Inside') = Cardinality(Inside) + 1
  BY <1>1, InsideFinite, FS_AddElement
<1>3. QED
  BY <1>2 DEF EventTypeOK, wait_enter, Inside

(* A thread that sees the flag stays inside.                                *)
LEMMA SeenCounts ==
    ASSUME EventTypeOK, NEW t \in EvThreads, wait_seen(t)
    PROVE  EventTypeOK'
<1>1. Inside' = Inside
  BY DEF EventTypeOK, wait_seen, Inside
<1>2. QED
  BY <1>1 DEF EventTypeOK, wait_seen, Inside

(* A thread that leaves is one less inside.                                 *)
LEMMA LeaveCounts ==
    ASSUME EventTypeOK, NEW t \in EvThreads, wait_leave(t)
    PROVE  EventTypeOK' /\ (ev_waiters - 1 = 0 => Inside = {t})
<1>1. Inside' = Inside \ {t} /\ t \in Inside
  BY DEF EventTypeOK, wait_leave, Inside
<1>2. Cardinality(Inside') = Cardinality(Inside) - 1 /\ IsFiniteSet(Inside')
  BY <1>1, InsideFinite, FS_RemoveElement
<1>3. ev_waiters = Cardinality(Inside)
  BY DEF EventTypeOK, Inside
<1>4. EventTypeOK'
  BY <1>2, <1>3 DEF EventTypeOK, wait_leave, Inside
<1>5. ASSUME ev_waiters - 1 = 0 PROVE Inside' = {}
  BY <1>2, <1>3, <1>5, InsideFinite, FS_EmptySet
<1>6. QED
  BY <1>1, <1>4, <1>5

(* Every step of a thread or a signaller keeps the invariant.               *)
LEMMA EventStep == EventInv /\ [EventNext]_eventVars => EventInv'
<1> SUFFICES ASSUME EventInv, [EventNext]_eventVars PROVE EventInv'
  OBVIOUS
<1> USE DEF EventInv, SignalKeptForSpinners, Spinning
<1>1. CASE signal
  BY <1>1, EventAssumption DEF signal, EventTypeOK
<1>2. CASE unsignal
  BY <1>2 DEF unsignal, EventTypeOK
<1>3. ASSUME NEW t \in EvThreads, wait_enter(t) PROVE EventInv'
  BY <1>3, EnterCounts DEF wait_enter, EventTypeOK
<1>4. ASSUME NEW t \in EvThreads, wait_seen(t) PROVE EventInv'
  BY <1>4, SeenCounts DEF wait_seen, EventTypeOK
<1>5. ASSUME NEW t \in EvThreads, wait_leave(t) PROVE EventInv'
  <2>1. EventTypeOK' /\ (ev_waiters - 1 = 0 => Inside = {t})
    BY <1>5, LeaveCounts
  <2>2. ev_owed' = ev_owed /\ t \notin ev_owed
    BY <1>5 DEF wait_leave
  <2>3. (ev_owed \subseteq Spinning)'
    BY <1>5, <2>2 DEF wait_leave, EventTypeOK
  <2>4. ev_owed \subseteq Inside
    BY DEF Inside
  <2>5. ASSUME ev_owed' # {} PROVE ev_signaled'
    <3>1. ev_signaled /\ ev_waiters - 1 # 0
      BY <2>1, <2>2, <2>4, <2>5
    <3>2. QED
      BY <3>1, <1>5 DEF wait_leave
  <2>6. QED
    BY <2>1, <2>3, <2>5
<1>6. CASE UNCHANGED eventVars
  BY <1>6 DEF eventVars, EventTypeOK
<1>7. QED
  BY <1>1, <1>2, <1>3, <1>4, <1>5, <1>6 DEF EventNext

(* waiter_count is always the number of threads inside wait, which is what  *)
(* destroy's assertion reads, for any number of threads.                    *)
THEOREM WaitersAlwaysCounted == EventSpec => []EventTypeOK
<1>1. EventInv => EventTypeOK
  BY DEF EventInv
<1>2. QED
  BY <1>1, EventStarts, EventStep, PTL DEF EventSpec

(* However threads register, leave and clear an auto-reset event, its flag  *)
(* stays up until every thread that was spinning at the signal has seen it. *)
THEOREM SignalAlwaysKept == EventSpec => []SignalKeptForSpinners
<1>1. EventInv => SignalKeptForSpinners
  BY DEF EventInv
<1>2. QED
  BY <1>1, EventStarts, EventStep, PTL DEF EventSpec
=============================================================================

------------------------------- MODULE Event -------------------------------
(***************************************************************************)
(* The event of sync/event.rs: threads signal, clear and wait on one event. *)
(* wait is three steps: it registers under the waiter_count lock, spins on  *)
(* the flag, and takes the lock again to take itself off the count; the     *)
(* last one out clears the flag of an auto-reset event.                     *)
(***************************************************************************)
EXTENDS Integers, FiniteSets

CONSTANTS
    EvThreads,    \* threads that use the events
    MaxSignals    \* bound: calls of signal

ASSUME EventAssumption == IsFiniteSet(EvThreads) /\ MaxSignals \in Nat

VARIABLES
    ev_auto,      \* flags.auto_unsignal
    ev_signaled,  \* signaled
    ev_waiters,   \* waiter_count
    ev_pc,        \* where a thread is in wait: "idle", "spin" or "leave"
    ev_owed,      \* history: threads that were spinning at a signal not taken back
    ev_signals    \* signals given so far

eventVars == <<ev_auto, ev_signaled, ev_waiters, ev_pc, ev_owed, ev_signals>>

EventInit ==
    /\ ev_auto \in BOOLEAN
    /\ ev_signaled \in BOOLEAN
    /\ ev_waiters = 0
    /\ ev_pc = [t \in EvThreads |-> "idle"]
    /\ ev_owed = {}
    /\ ev_signals = 0

Spinning == {t \in EvThreads : ev_pc[t] = "spin"}

signal ==
    /\ ev_signals < MaxSignals
    /\ ev_signaled' = TRUE
    /\ ev_signals' = ev_signals + 1
    /\ ev_owed' = Spinning
    /\ UNCHANGED <<ev_auto, ev_waiters, ev_pc>>

unsignal ==
    /\ ev_signaled
    /\ ev_signaled' = FALSE
    /\ ev_owed' = {}
    /\ UNCHANGED <<ev_auto, ev_waiters, ev_pc, ev_signals>>

\* wait, first critical section: the thread is counted.
wait_enter(t) ==
    /\ ev_pc[t] = "idle"
    /\ ev_waiters' = ev_waiters + 1
    /\ ev_pc' = [ev_pc EXCEPT ![t] = "spin"]
    /\ UNCHANGED <<ev_auto, ev_signaled, ev_owed, ev_signals>>

wait_seen_LastOnly(t) ==
    /\ ev_pc[t] = "spin" /\ ev_signaled /\ ev_waiters = 1
    /\ ev_pc' = [ev_pc EXCEPT ![t] = "leave"]
    /\ ev_owed' = ev_owed \ {t}
    /\ UNCHANGED <<ev_auto, ev_signaled, ev_waiters, ev_signals>>

\* The spin loop sees the flag.
wait_seen(t) ==
    /\ ev_pc[t] = "spin" /\ ev_signaled
    /\ ev_pc' = [ev_pc EXCEPT ![t] = "leave"]
    /\ ev_owed' = ev_owed \ {t}
    /\ UNCHANGED <<ev_auto, ev_signaled, ev_waiters, ev_signals>>

wait_leave_AnyClears(t) ==
    /\ ev_pc[t] = "leave"
    /\ ev_waiters' = ev_waiters - 1
    /\ ev_signaled' = (ev_signaled /\ ~ev_auto)
    /\ ev_pc' = [ev_pc EXCEPT ![t] = "idle"]
    /\ UNCHANGED <<ev_auto, ev_owed, ev_signals>>

\* wait, second critical section: the last one out clears an auto-reset event.
wait_leave(t) ==
    /\ ev_pc[t] = "leave"
    /\ ev_waiters' = ev_waiters - 1
    /\ ev_signaled' = (ev_signaled /\ ~(ev_auto /\ ev_waiters - 1 = 0))
    /\ ev_pc' = [ev_pc EXCEPT ![t] = "idle"]
    /\ UNCHANGED <<ev_auto, ev_owed, ev_signals>>

\* destroy, which panics when it finds a waiter, is called by nobody.
EventNext ==
    \/ signal
    \/ unsignal
    \/ \E t \in EvThreads : wait_enter(t) \/ wait_seen(t) \/ wait_leave(t)

\* A thread in wait runs on: it spins with its processor, it is not suspended.
EventFairness == \A t \in EvThreads :
    WF_eventVars(wait_seen(t)) /\ WF_eventVars(wait_leave(t))

EventSpec == EventInit /\ [][EventNext]_eventVars /\ EventFairness

-----------------------------------------------------------------------------
(* Every variable has its type, and waiter_count is the number of threads   *)
(* inside wait (what destroy relies on).                                    *)
EventTypeOK ==
    /\ ev_auto \in BOOLEAN /\ ev_signaled \in BOOLEAN
    /\ ev_pc \in [EvThreads -> {"idle", "spin", "leave"}]
    /\ ev_owed \subseteq EvThreads /\ ev_signals \in 0 .. MaxSignals
    /\ ev_waiters = Cardinality({t \in EvThreads : ev_pc[t] # "idle"})

(* Auto-reset strands nobody: while a thread that was spinning when signal  *)
(* was called has not seen the flag, the flag stays up, whoever registers,  *)
(* leaves and clears in between.  Only unsignal takes it back.              *)
SignalKeptForSpinners == ev_owed # {} => ev_signaled

(* Every thread that was spinning when the event was signaled gets out of   *)
(* its spin loop, unless unsignal is called first (wait).                   *)
SignaledThreadLeaves == \A t \in EvThreads :
    t \in ev_owed ~> t \notin ev_owed
=============================================================================

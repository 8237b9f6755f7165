--------------------------- MODULE MCKernelObjects ---------------------------
(***************************************************************************)
(* The kernel objects and the thread scheduler, checked in one run.  The    *)
(* components share no state, so each behaviour chooses one of them in its  *)
(* initial state (part) and leaves the others where they start.             *)
(***************************************************************************)
EXTENDS ThreadScheduler, WaitQueue, Event, Channel, Job, ProcessObject

VARIABLE part

objectVars == <<part, threadVars, waitQueueVars, eventVars, channelVars, jobVars, processVars>>

ObjectsInit ==
    /\ part \in {"threads", "wait queue", "event", "channel", "job", "process"}
    /\ EventInit /\ (part # "event" => ~ev_auto /\ ~ev_signaled)
    /\ ThreadInit /\ WaitQueueInit /\ ChannelInit /\ JobInit /\ ProcessObjectInit

Threads == /\ part = "threads" /\ ThreadNext
           /\ UNCHANGED <<part, waitQueueVars, eventVars, channelVars, jobVars, processVars>>

WaitQueues == /\ part = "wait queue" /\ WaitQueueNext
              /\ UNCHANGED <<part, threadVars, eventVars, channelVars, jobVars, processVars>>

Events == /\ part = "event" /\ EventNext
          /\ UNCHANGED <<part, threadVars, waitQueueVars, channelVars, jobVars, processVars>>

Channels == /\ part = "channel" /\ ChannelNext
            /\ UNCHANGED <<part, threadVars, waitQueueVars, eventVars, jobVars, processVars>>

JobTree == /\ part = "job" /\ JobNext
           /\ UNCHANGED <<part, threadVars, waitQueueVars, eventVars, channelVars, processVars>>

ProcessObjects == /\ part = "process" /\ ProcessObjectNext
                  /\ UNCHANGED <<part, threadVars, waitQueueVars, eventVars, channelVars, jobVars>>

ObjectsNext == Threads \/ WaitQueues \/ Events \/ Channels \/ JobTree \/ ProcessObjects

\* Only the event has a liveness property; its fairness is Event's own.
ObjectsSpec == ObjectsInit /\ [][ObjectsNext]_objectVars /\ EventFairness

-----------------------------------------------------------------------------
(* The type invariants of the parts, with what they say of the redundant    *)
(* fields: tails follow heads and counts (RunQueue, WaitQueueInner),        *)
(* waiter_count is exact (Event), parents are older than their children     *)
(* (Job), and the handle count is the number of entries (HandleTable).      *)
ObjectsTypeOK ==
    /\ ThreadTypeOK /\ WaitQueueTypeOK /\ EventTypeOK /\ ChannelTypeOK
    /\ JobTypeOK /\ ProcessObjectTypeOK
=============================================================================

------------------------------ MODULE DplMqueue ------------------------------
(***************************************************************************)
(* A queue of mbufs with the event that wakes its reader, on the Linux     *)
(* port: dpl_mqueue_put / dpl_mqueue_get over dpl_eventq_put /             *)
(* dpl_eventq_get.  The list of mbufs and the list of events are each      *)
(* protected by a mutex; the flag ev_queued that keeps the event from      *)
(* being queued twice is read and written outside of it, by every thread   *)
(* that puts and by the thread that runs the event queue.  Each access to  *)
(* the flag is therefore a step of its own.                                *)
(***************************************************************************)
EXTENDS Naturals, Sequences

CONSTANTS
    Producers,      \* threads that call dpl_mqueue_put
    Mbufs           \* the mbufs they put, each of them once

VARIABLES
    mq,             \* mq_head: the mbufs
    ev_queued,      \* flag of the event mq_ev
    evq,            \* how often mq_ev is in the list of the event queue
    ppc,            \* where each producer is in dpl_mqueue_put
    cpc,            \* where the thread that runs the event queue is
    put, handled    \* history: mbufs put, mbufs given to the handler

mqVars == <<mq, ev_queued, evq, ppc, cpc, put, handled>>

MqTypeOK ==
    /\ mq \in Seq(Mbufs)
    /\ ev_queued \in {0, 1}
    /\ evq \in Nat
    /\ ppc \in [Producers -> {"idle", "inserted", "checked", "marked"}]
    /\ cpc \in {"waiting", "popped", "running"}
    /\ put \subseteq Mbufs /\ handled \subseteq Mbufs

\* dpl_mqueue_init, dpl_eventq_init
MqInit ==
    /\ mq = <<>> /\ ev_queued = 0 /\ evq = 0
    /\ ppc = [p \in Producers |-> "idle"] /\ cpc = "waiting"
    /\ put = {} /\ handled = {}

Move(p, from, to) == ppc[p] = from /\ ppc' = [ppc EXCEPT ![p] = to]

-----------------------------------------------------------------------------
(* dpl_mqueue_put *)

\* Append the mbuf under the mutex ...
Insert(p, m) ==
    /\ m \notin put /\ put' = put \cup {m}
    /\ Move(p, "idle", "inserted")
    /\ mq' = Append(mq, m)
    /\ UNCHANGED <<ev_queued, evq, cpc, handled>>

\* ... then dpl_eventq_put: return if the event is queued, else mark it so
CheckQueued(p) ==
    /\ Move(p, "inserted", IF ev_queued = 1 THEN "idle" ELSE "checked")
    /\ UNCHANGED <<mq, ev_queued, evq, cpc, put, handled>>

MarkQueued(p) ==
    /\ Move(p, "checked", "marked")
    /\ ev_queued' = 1
    /\ UNCHANGED <<mq, evq, cpc, put, handled>>

\* and append it to the list of events.
Post(p) ==
    /\ Move(p, "marked", "idle")
    /\ evq' = evq + 1
    /\ UNCHANGED <<mq, ev_queued, cpc, put, handled>>

-----------------------------------------------------------------------------
(* dpl_eventq_run: dpl_eventq_get, then the handler of the event *)

\* Mutant: a reader that waits is woken for a single event only, so that a
\* duplicate of the event puts it to sleep for good.
EventqGetSingle ==
    /\ cpc = "waiting" /\ evq = 1
    /\ evq' = evq - 1 /\ cpc' = "popped"
    /\ UNCHANGED <<mq, ev_queued, ppc, put, handled>>

EventqGet ==
    /\ cpc = "waiting" /\ evq > 0
    /\ evq' = evq - 1 /\ cpc' = "popped"
    /\ UNCHANGED <<mq, ev_queued, ppc, put, handled>>

\* Mutant: the event stays marked as queued.
ClearQueuedForgotten ==
    /\ cpc = "popped" /\ cpc' = "running"
    /\ UNCHANGED <<mq, ev_queued, evq, ppc, put, handled>>

ClearQueued ==
    /\ cpc = "popped" /\ cpc' = "running"
    /\ ev_queued' = 0
    /\ UNCHANGED <<mq, evq, ppc, put, handled>>

\* The handler loops over dpl_mqueue_get until it returns NULL.
MqueueGet ==
    /\ cpc = "running" /\ mq # <<>>
    /\ handled' = handled \cup {Head(mq)} /\ mq' = Tail(mq)
    /\ UNCHANGED <<ev_queued, evq, ppc, cpc, put>>

MqueueEmpty ==
    /\ cpc = "running" /\ mq = <<>> /\ cpc' = "waiting"
    /\ UNCHANGED <<mq, ev_queued, evq, ppc, put, handled>>

-----------------------------------------------------------------------------
Producer(p) == CheckQueued(p) \/ MarkQueued(p) \/ Post(p)
Consumer == EventqGet \/ ClearQueued \/ MqueueGet \/ MqueueEmpty

MqNext ==
    \/ \E p \in Producers : Producer(p) \/ \E m \in Mbufs : Insert(p, m)
    \/ Consumer

MqSpec == MqInit /\ [][MqNext]_mqVars

\* Threads are scheduled: each one that can take a step eventually does.
MqFairSpec ==
    MqSpec /\ WF_mqVars(Consumer) /\ \A p \in Producers : WF_mqVars(Producer(p))

-----------------------------------------------------------------------------
(* Properties *)

\* When every producer has returned from dpl_mqueue_put and the reader waits
\* for events, a queue that holds an mbuf has its event queued: the
\* unprotected check of ev_queued in dpl_eventq_put loses no wake-up.
NoLostWakeup ==
    mq # <<>> /\ cpc = "waiting" /\ (\A p \in Producers : ppc[p] = "idle")
        => evq > 0

\* Every mbuf that was put is handed to the handler.
AllHandled == \A m \in Mbufs : m \in put ~> m \in handled
=============================================================================

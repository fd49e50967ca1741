-------------------------------- MODULE Tdma --------------------------------
(***************************************************************************)
(* lib/tdma/src/tdma.c: a superframe that uwb_ccp reports is divided into  *)
(* slots.  Its event arms a timer per assigned slot, each timer queues the *)
(* slot's event a little ahead of the slot, and the tdma task, which runs  *)
(* callbacks of any length, drops those it would start too late.           *)
(*                                                                         *)
(* Times are ticks relative to the last superframe reported ("age" is now);*)
(* os_epoch of that report is then 0, as UwbCcp's EpochTrue justifies.     *)
(***************************************************************************)
EXTENDS Integers, Sequences, SequencesExt

CONSTANTS
    NSlots, SlotTicks,
    Latency,        \* OS_LATENCY: how far ahead of the slot its timer fires
    MaxDelay,       \* TDMA_MAX_SLOT_DELAY_US
    MaxAge,         \* bound: ticks without a superframe
    MaxStart        \* bound: how far back a start is told from another one

ASSUME TdmaConstants ==
    /\ NSlots \in Nat \ {0} /\ SlotTicks \in Nat \ {0}
    /\ Latency \in Nat /\ MaxDelay \in Nat /\ Latency < SlotTicks
    /\ MaxDelay < SlotTicks /\ MaxAge \in Nat /\ NSlots * SlotTicks <= MaxAge
    /\ MaxStart \in Nat /\ Latency <= MaxStart

Slots == 0..NSlots - 1
Period == NSlots * SlotTicks
Super == NSlots     \* superframe_slot
Idle == NSlots + 1

VARIABLES
    age,            \* ticks since the superframe reported last
    assigned,       \* slots with a callback
    start,          \* slot: cputime_slot_start
    armed,          \* the slots whose timer runs
    queue,          \* events of tdma->eventq
    running,        \* the slot whose callback runs, or Idle
    ran,            \* history: callbacks of a slot since the superframe's event
    changed,        \* history: slots assigned since the superframe's event
    stalled,        \* history: since the report an event waited too long
    disturbed       \* history: it came early, or the one before was stalled

tdmaVars == <<age, assigned, start, armed, queue, running, ran, changed, stalled,
              disturbed>>

TdmaTypeOK ==
    /\ age \in 0..MaxAge
    /\ assigned \subseteq Slots /\ armed \subseteq Slots
    /\ start \in [Slots -> -MaxStart..Period]
    /\ queue \in Seq(Slots \cup {Super}) /\ IsInjective(queue)
    /\ running \in Slots \cup {Idle}
    /\ ran \in [Slots -> 0..2] /\ changed \subseteq Slots /\ stalled \in BOOLEAN
    /\ disturbed \in BOOLEAN

\* tdma_init, and the slots assigned before the first superframe
TdmaInit ==
    /\ age = Period
    /\ assigned \in SUBSET Slots
    /\ start = [i \in Slots |-> 0] /\ armed = {} /\ queue = <<>>
    /\ running = Idle
    /\ ran = [i \in Slots |-> 0] /\ changed = Slots /\ stalled = FALSE /\ disturbed = FALSE

Queued(e) == e \in ToSet(queue)

\* dpl_eventq_put: an event waits once
Put(e) == queue' = IF Queued(e) THEN queue ELSE Append(queue, e)

\* superframe_cb; times are told from this report on.  The beacon of another
\* master may report it at any age
Report ==
    /\ age > 0
    /\ age' = 0
    /\ start' = [i \in Slots |-> IF start[i] - age < -MaxStart THEN -MaxStart
                                 ELSE start[i] - age]
    /\ Put(Super)
    /\ stalled' = FALSE /\ disturbed' = (age < Period \/ stalled \/ (disturbed /\ Queued(Super)))
    /\ UNCHANGED <<assigned, armed, running, ran, changed>>

SlotStart(i) == i * SlotTicks - Latency

\* Mutant: signed, so that a slot that lies ahead is in time
InTimeSigned(i) == age - start[i] <= MaxDelay

\* the callback starts at most MaxDelay after its timer was due, in uint32_t
InTime(i) == age - start[i] \in 0..MaxDelay

TooLate(i) == i # 0 /\ ~InTime(i)

\* Mutant: timers are only started when none of the last superframe runs
HandleSuperframeKeeps ==
    /\ running = Idle /\ queue # <<>> /\ Head(queue) = Super
    /\ queue' = Tail(queue)
    /\ start' = [i \in Slots |-> IF i \in assigned THEN SlotStart(i) ELSE start[i]]
    /\ armed' = IF armed = {} THEN assigned ELSE armed
    /\ ran' = [i \in Slots |-> 0] /\ changed' = {}
    /\ UNCHANGED <<age, assigned, running, stalled, disturbed>>

\* tdma_superframe_slot_cb: every timer is stopped and started again
HandleSuperframe ==
    /\ running = Idle /\ queue # <<>> /\ Head(queue) = Super
    /\ queue' = Tail(queue)
    /\ start' = [i \in Slots |-> IF i \in assigned THEN SlotStart(i) ELSE start[i]]
    /\ armed' = assigned
    /\ ran' = [i \in Slots |-> 0] /\ changed' = {}
    /\ UNCHANGED <<age, assigned, running, stalled, disturbed>>

\* tdma_task takes the event of a slot and runs or drops it
RunSlot ==
    /\ running = Idle /\ queue # <<>> /\ Head(queue) # Super
    /\ queue' = Tail(queue)
    /\ LET i == Head(queue) IN
          IF TooLate(i) THEN UNCHANGED <<running, ran>>
          ELSE running' = i /\ ran' = [ran EXCEPT ![i] = IF @ < 2 THEN @ + 1 ELSE @]
    /\ UNCHANGED <<age, assigned, start, armed, changed, stalled, disturbed>>

\* the callback returns
Done ==
    /\ running # Idle
    /\ running' = Idle
    /\ UNCHANGED <<age, assigned, start, armed, queue, ran, changed, stalled, disturbed>>

Due(i) == i \in armed /\ age >= start[i]

\* Mutant: a timer that is not stopped until the next superframe
FirePeriodic(i) ==
    /\ Due(i)
    /\ armed' = IF Queued(i) THEN armed \ {i} ELSE armed
    /\ Put(i)
    /\ UNCHANGED <<age, assigned, start, running, ran, changed, stalled, disturbed>>

\* slot_timer_cb
Fire(i) ==
    /\ Due(i)
    /\ armed' = armed \ {i}
    /\ Put(i)
    /\ UNCHANGED <<age, assigned, start, running, ran, changed, stalled, disturbed>>

\* The timer interrupt is prompt
Tick ==
    /\ age < MaxAge /\ ~\E i \in Slots : Due(i)
    /\ age' = age + 1
    /\ stalled' = (\/ stalled
                   \/ Queued(Super) /\ age' > SlotStart(1) + MaxDelay
                   \/ \E i \in Slots : Queued(i) /\ age' > start[i] + MaxDelay)
    /\ UNCHANGED <<assigned, start, armed, queue, running, ran, changed, disturbed>>

\* tdma_assign_slot of a slot that has no callback
Assign(i) ==
    /\ i \notin assigned
    /\ assigned' = assigned \cup {i} /\ changed' = changed \cup {i}
    /\ start' = [start EXCEPT ![i] = -MaxStart]
    /\ UNCHANGED <<age, armed, queue, running, ran, stalled, disturbed>>

\* tdma_release_slot, and tdma_stop for all: no look at whether an event waits
Release(S) ==
    /\ S # {} /\ S \subseteq assigned
    /\ assigned' = assigned \ S /\ armed' = armed \ S
    /\ UNCHANGED <<age, start, queue, running, ran, changed, stalled, disturbed>>

\* An event waits in memory that tdma_release_slot has freed
Freed == \E i \in Slots \ assigned : Queued(i)

\* What the code does after that is undefined: here it does nothing more
TdmaNext ==
    /\ ~Freed
    /\ \/ Report \/ HandleSuperframe \/ RunSlot \/ Done \/ Tick
       \/ \E i \in Slots : Fire(i) \/ Assign(i) \/ Release({i})
       \/ Release(assigned)

TdmaSpec == TdmaInit /\ [][TdmaNext]_tdmaVars

-----------------------------------------------------------------------------
(* Properties *)

\* A slot but the first runs when the superframe reported last says, at most
\* MaxDelay after its timer, whatever of the superframe before was still queued or
\* armed; only while the report itself still waits for the task may one of the
\* superframe before run.
SlotOnTime ==
    [][\A i \in Slots \ {0} :
          running' = i /\ running # i
             => Queued(Super) \/ age - SlotTicks * i + Latency \in 0..MaxDelay]_tdmaVars

\* No slot but the first runs twice for one superframe, unless it was reported
\* before the last one was over, or that one was stalled: then an event queued
\* behind the report may be in time by its new start, and its timer fires too.
SlotOnce == Queued(Super) \/ disturbed \/ \A i \in Slots \ {0} : ran[i] <= 1

\* A slot assigned before the superframe's event runs in it, if nothing held the
\* task up for longer than tdma drops slots for.
SlotServed ==
    age >= Period /\ ~stalled /\ ~Queued(Super) =>
       \A i \in assigned \ (changed \cup {0}) : ran[i] >= 1
=============================================================================

--------------------------- MODULE UwbTransportTx ---------------------------
(***************************************************************************)
(* The sending half of lib/uwb_transport: the packet queue tx_q, the task  *)
(* that runs uwb_transport_dequeue_tx / uwb_transport_listen once per      *)
(* slot, the MAC callbacks that the interrupt task runs, and the tasks of  *)
(* other services that run reset_cb by way of uwb_phy_forcetrxoff.         *)
(*                                                                         *)
(* The threads meet in three counting semaphores that the code uses as     *)
(* flags: write_tx_lock (the device buffer may be written), sem (no frame  *)
(* is on its way out) and ack_sem (nobody waits for an acknowledgement).   *)
(* A step of any thread ends wherever another can get in: at every pend,   *)
(* at every call of the radio, and between the dpl_sem_get_count and the   *)
(* dpl_sem_release of every "release it if it is zero".                    *)
(*                                                                         *)
(* The radio is external.  It is modelled from what uwb_transport.c and    *)
(* uwb.h say of it: a started transmission begins, completes, and then the *)
(* receiver is on until an acknowledgement or a time-out; with rxauto      *)
(* disabled another good frame ends the reception without a time-out       *)
(* (comment in twr_ss.c).  Frame durations are abstracted to "room", the   *)
(* number of frames that still fit in the slot.                            *)
(***************************************************************************)
EXTENDS Integers, Sequences, FiniteSets

CONSTANTS
    Packets,        \* mbufs handed to uwb_transport_enqueue_tx
    NoPacket,       \* content of a device buffer nothing was written to
    MaxRetries,     \* largest "retries" argument
    TxSeqMod,         \* number of sequence numbers (256: an uint8_t)
    SlotRoom,       \* bound: frames that fit in one slot
    RequestAcks,    \* config.request_acks
    Resetters,      \* other tasks that may call uwb_phy_forcetrxoff at any
                    \* time (uwb_ccp's does so in every superframe)
    Disturbances    \* what else may disturb the sender

\* "foreign": a good frame that is not the acknowledgement is received
\*            while the sender waits for the acknowledgement
\* "stray":   an acknowledgement meant for somebody else is received (an
\*            acknowledgement carries a sequence number and no address)
\* "listen":  slots with an empty queue call uwb_transport_listen
Disturbance == {"foreign", "stray", "listen"}

ASSUME PacketsAssumption == NoPacket \notin Packets
ASSUME RetriesAssumption == MaxRetries \in Nat
ASSUME SeqModAssumption == TxSeqMod \in Nat /\ TxSeqMod >= 2
ASSUME RoomAssumption == SlotRoom \in Nat
ASSUME AcksAssumption == RequestAcks \in BOOLEAN
ASSUME ResettersAssumption ==
    IsFiniteSet(Resetters) /\ {"task", "irq"} \cap Resetters = {}
ASSUME DisturbancesAssumption == Disturbances \subseteq Disturbance

VARIABLES
    tx_q,           \* the queue; retries is the trailing word of the mbuf
    sems,           \* counts of the three semaphores
    frame_seq_num,
    ack_seq_num,    \* -1: the wait ended without an acknowledgement
    pc, saw0,       \* task: where it is; a count it just read was 0
    cbAt, cbStep,   \* callback each other thread is in, and how far it is
    rx_seq,         \* number in the acknowledgement being handled
    xfer, n_sent, idx, room,    \* locals of uwb_transport_dequeue_tx
    txbuf,          \* the two halves of the device's transmit buffer
    radio,          \* what the transceiver is doing
    air,            \* the frame that was started last, and its buffer half
    heard,          \* the peer received that frame (and acknowledges it)
    outcome,        \* history: what became of each packet
    granted,        \* history: the "retries" argument of each packet
    attempts,       \* history: successful starts per packet
    rcvd            \* history: packets the peer's radio received

taskVars == <<pc, saw0, xfer, n_sent, idx, room>>
cbVars == <<cbAt, cbStep, rx_seq>>
histVars == <<outcome, granted, attempts, rcvd>>
vars == <<tx_q, sems, frame_seq_num, ack_seq_num, taskVars, cbVars, txbuf,
          radio, air, heard, histVars>>

Sems == {"sem", "write_tx_lock", "ack_sem"}
SeqNums == 0..(TxSeqMod - 1)
Half == {0, 1}
Frames == [pkt : Packets \cup {NoPacket}, seq : SeqNums]
InFlight == radio \in {"queued", "txing"}
BlankFrame == [pkt |-> NoPacket, seq |-> 0]

\* The places of the form "if (dpl_sem_get_count(s) == 0) dpl_sem_release(s)"
\* in the task, with the semaphore and where the task goes next.
Site == [err_sem  |-> [s |-> "sem",           next |-> "err_lock"],
         err_lock |-> [s |-> "write_tx_lock", next |-> "err_ack"],
         err_ack  |-> [s |-> "ack_sem",       next |-> "again"],
         ack_got  |-> [s |-> "ack_sem",       next |-> "verify"],
         drained  |-> [s |-> "sem",           next |-> "idle"]]

Sites == {"err_sem", "err_lock", "err_ack", "ack_got", "drained"}
PCs == Sites \cup {"idle", "loop", "lock", "write", "sem", "ack", "start",
                   "ack_wait", "verify", "done", "again", "drain",
                   "rx_pend", "rx_start", "rx_wait", "rx_release"}

Pend(s) == sems[s] > 0 /\ sems' = [sems EXCEPT ![s] = @ - 1]

\* The threads that run callbacks, and all threads.
Callers == {"irq"} \cup Resetters
Threads == {"task"} \cup Callers

\* The same form in the callbacks: the semaphore that is looked at, and
\* where the callback goes on if its count was zero, and if it was not.
\* reset_cb serves all three, rx_timeout_cb the first that is zero.
Duty == [begins   |-> [s |-> "write_tx_lock", zero |-> "none", else |-> "none"],
         complete |-> [s |-> "sem",     zero |-> "none",   else |-> "none"],
         refused  |-> [s |-> "sem",     zero |-> "none",   else |-> "none"],
         acked    |-> [s |-> "ack_sem", zero |-> "none",   else |-> "none"],
         timeout  |-> [s |-> "ack_sem", zero |-> "none",   else |-> "refused"],
         rs_ack   |-> [s |-> "ack_sem", zero |-> "rs_sem", else |-> "rs_sem"],
         rs_sem   |-> [s |-> "sem",     zero |-> "rs_lock", else |-> "rs_lock"],
         rs_lock  |-> [s |-> "write_tx_lock", zero |-> "none", else |-> "none"]]

Places == {"begins", "complete", "refused", "acked", "timeout", "rs_ack",
           "rs_sem", "rs_lock"}

TypeOK ==
    /\ tx_q \in Seq([pkt : Packets, retries : 0..MaxRetries])
    /\ sems \in [Sems -> Nat]
    /\ frame_seq_num \in SeqNums
    /\ ack_seq_num \in SeqNums \cup {-1}
    /\ pc \in PCs /\ saw0 \in BOOLEAN
    /\ cbAt \in [Callers -> Places \cup {"none"}]
    /\ cbStep \in [Callers -> {"look", "name", "give"}]
    /\ rx_seq \in SeqNums
    /\ xfer \in BOOLEAN /\ n_sent \in Nat /\ idx \in Half
    /\ room \in 0..SlotRoom
    /\ txbuf \in [Half -> Frames]
    /\ radio \in {"idle", "queued", "txing", "await", "listen"}
    /\ air \in [pkt : Packets \cup {NoPacket}, seq : SeqNums, half : Half]
    /\ heard \in BOOLEAN
    /\ outcome \in [Packets ->
          {"new", "rejected", "queued", "confirmed", "dropped"}]
    /\ granted \in [Packets -> 0..MaxRetries]
    /\ attempts \in [Packets -> Nat]
    /\ rcvd \subseteq Packets

\* uwb_transport_init
Init ==
    /\ tx_q = <<>>
    /\ sems = [s \in Sems |-> 1]
    /\ frame_seq_num = 0 /\ ack_seq_num = 0
    /\ pc = "idle" /\ saw0 = FALSE
    /\ cbAt = [t \in Callers |-> "none"] /\ cbStep = [t \in Callers |-> "look"]
    /\ rx_seq = 0
    /\ xfer = FALSE /\ n_sent = 0 /\ idx = 0 /\ room = 0
    /\ txbuf = [h \in Half |-> BlankFrame]
    /\ radio = "idle"
    /\ air = [pkt |-> NoPacket, seq |-> 0, half |-> 0] /\ heard = FALSE
    /\ outcome = [p \in Packets |-> "new"]
    /\ granted = [p \in Packets |-> 0]
    /\ attempts = [p \in Packets |-> 0]
    /\ rcvd = {}

-----------------------------------------------------------------------------
(* Callers of the transport *)

\* uwb_transport_enqueue_tx: a packet over the MTU, or one that cannot be
\* extended by the trailer, is refused; any other goes to the tail.
Enqueue(p, r) ==
    /\ outcome[p] = "new"
    /\ \/ /\ outcome' = [outcome EXCEPT ![p] = "queued"]
          /\ tx_q' = Append(tx_q, [pkt |-> p, retries |-> r])
          /\ granted' = [granted EXCEPT ![p] = r]
       \/ /\ outcome' = [outcome EXCEPT ![p] = "rejected"]
          /\ UNCHANGED <<tx_q, granted>>
    /\ UNCHANGED <<cbVars, sems, frame_seq_num, ack_seq_num, taskVars, txbuf,
                   radio, air, heard, attempts, rcvd>>

Goto(l) == pc' = l /\ UNCHANGED saw0

\* The slot callback calls uwb_transport_dequeue_tx, here with room for r
\* frames in the slot.
Slot(r) ==
    /\ pc = "idle" /\ tx_q # <<>> /\ Goto("loop")
    /\ room' = r /\ xfer' = FALSE /\ n_sent' = 0 /\ idx' = 0
    /\ UNCHANGED <<cbVars, tx_q, sems, frame_seq_num, ack_seq_num, txbuf,
                   radio, air, heard, histVars>>

\* When that returns false, the queue being empty, the slot callback of a
\* node that also receives calls uwb_transport_listen.
SlotEmpty ==
    /\ pc = "idle" /\ tx_q = <<>>
    /\ Goto(IF "listen" \in Disturbances THEN "rx_pend" ELSE "idle")
    /\ UNCHANGED <<cbVars, tx_q, sems, frame_seq_num, ack_seq_num, xfer,
                   n_sent, idx, room, txbuf, radio, air, heard, histVars>>

-----------------------------------------------------------------------------
(* uwb_transport_dequeue_tx *)

\* Top of the loop: leave it when the next frame does not fit in the slot.
Loop ==
    /\ pc = "loop"
    /\ \/ room = 0 /\ Goto("drain") /\ UNCHANGED room
       \/ room > 0 /\ Goto("lock") /\ room' = room - 1
    /\ UNCHANGED <<cbVars, tx_q, sems, frame_seq_num, ack_seq_num, xfer,
                   n_sent, idx, txbuf, radio, air, heard, histVars>>

\* Mutant: the buffer is written without asking for it.
PendLockSkipped ==
    /\ pc = "lock" /\ Goto("write")
    /\ UNCHANGED <<cbVars, tx_q, sems, frame_seq_num, ack_seq_num, xfer,
                   n_sent, idx, room, txbuf, radio, air, heard, histVars>>

PendLock ==
    /\ pc = "lock" /\ Pend("write_tx_lock") /\ Goto("write")
    /\ UNCHANGED <<cbVars, tx_q, frame_seq_num, ack_seq_num, xfer, n_sent,
                   idx, room, txbuf, radio, air, heard, histVars>>

\* Mutant: the sequence number is an int that never wraps.
WriteTxUnbounded ==
    /\ pc = "write" /\ ~xfer /\ Goto("sem")
    /\ frame_seq_num' = frame_seq_num + 1
    /\ idx' = 1 - idx
    /\ txbuf' = [txbuf EXCEPT ![idx'] =
                   [pkt |-> Head(tx_q).pkt, seq |-> frame_seq_num']]
    /\ n_sent' = 0 /\ xfer' = TRUE
    /\ UNCHANGED <<cbVars, tx_q, sems, ack_seq_num, room, radio, air, heard,
                   histVars>>

\* uwb_transport_write_tx, once per packet and slot: a new sequence number,
\* and the half of the device buffer that the last write did not use.
WriteTx ==
    /\ pc = "write" /\ Goto("sem")
    /\ IF xfer
         THEN UNCHANGED <<frame_seq_num, n_sent, idx, txbuf>>
         ELSE /\ frame_seq_num' = (frame_seq_num + 1) % TxSeqMod
              /\ idx' = 1 - idx
              /\ txbuf' = [txbuf EXCEPT ![idx'] =
                             [pkt |-> Head(tx_q).pkt, seq |-> frame_seq_num']]
              /\ n_sent' = 0
    /\ xfer' = TRUE
    /\ UNCHANGED <<cbVars, tx_q, sems, ack_seq_num, room, radio, air, heard,
                   histVars>>

\* Mutant: the overlapping transmission is not waited for.
PendSemSkipped ==
    /\ pc = "sem" /\ Goto(IF RequestAcks THEN "ack" ELSE "start")
    /\ UNCHANGED <<cbVars, tx_q, sems, frame_seq_num, ack_seq_num, xfer,
                   n_sent, idx, room, txbuf, radio, air, heard, histVars>>

PendSem ==
    /\ pc = "sem" /\ Pend("sem")
    /\ Goto(IF RequestAcks THEN "ack" ELSE "start")
    /\ UNCHANGED <<cbVars, tx_q, frame_seq_num, ack_seq_num, xfer, n_sent,
                   idx, room, txbuf, radio, air, heard, histVars>>

PendAck ==
    /\ pc = "ack" /\ Pend("ack_sem") /\ Goto("start")
    /\ UNCHANGED <<cbVars, tx_q, frame_seq_num, ack_seq_num, xfer, n_sent,
                   idx, room, txbuf, radio, air, heard, histVars>>

\* uwb_transport_start_tx succeeds.
StartTx ==
    /\ pc = "start"
    /\ radio' = "queued"
    /\ air' = [pkt |-> txbuf[idx].pkt, seq |-> txbuf[idx].seq, half |-> idx]
    /\ heard' = FALSE
    /\ n_sent' = n_sent + 1
    /\ attempts' = [attempts EXCEPT ![Head(tx_q).pkt] = @ + 1]
    /\ Goto(IF RequestAcks THEN "ack_wait" ELSE "done")
    /\ UNCHANGED <<cbVars, tx_q, sems, frame_seq_num, ack_seq_num, xfer, idx,
                   room, txbuf, outcome, granted, rcvd>>

\* uwb_transport_start_tx reports start_tx_error (the start time has passed).
\* dx_time may be moved up to the current time, never back.
StartTxError(r) ==
    /\ pc = "start" /\ Goto("err_sem")
    /\ r <= room /\ room' = r
    /\ UNCHANGED <<cbVars, tx_q, sems, frame_seq_num, ack_seq_num, xfer,
                   n_sent, idx, txbuf, radio, air, heard, histVars>>

\* dpl_sem_get_count(s) == 0 ...
ReadCount ==
    /\ pc \in Sites /\ ~saw0
    /\ IF sems[Site[pc].s] = 0
         THEN saw0' = TRUE /\ UNCHANGED pc
         ELSE Goto(Site[pc].next)
    /\ UNCHANGED <<cbVars, tx_q, sems, frame_seq_num, ack_seq_num, xfer,
                   n_sent, idx, room, txbuf, radio, air, heard, histVars>>

\* ... then dpl_sem_release(s).
ReleaseSeen ==
    /\ pc \in Sites /\ saw0
    /\ sems' = [sems EXCEPT ![Site[pc].s] = @ + 1]
    /\ saw0' = FALSE /\ pc' = Site[pc].next
    /\ UNCHANGED <<cbVars, tx_q, frame_seq_num, ack_seq_num, xfer, n_sent,
                   idx, room, txbuf, radio, air, heard, histVars>>

AwaitAck ==
    /\ pc = "ack_wait" /\ Pend("ack_sem") /\ Goto("ack_got")
    /\ UNCHANGED <<cbVars, tx_q, frame_seq_num, ack_seq_num, xfer, n_sent,
                   idx, room, txbuf, radio, air, heard, histVars>>

\* The acknowledgement names our frame: the packet was sent.
VerifyOk ==
    /\ pc = "verify" /\ ack_seq_num = frame_seq_num /\ Goto("done")
    /\ UNCHANGED <<cbVars, tx_q, sems, frame_seq_num, ack_seq_num, xfer,
                   n_sent, idx, room, txbuf, radio, air, heard, histVars>>

\* It does not: drop the packet when its retries are used up ...
VerifyDrop ==
    /\ pc = "verify" /\ ack_seq_num # frame_seq_num
    /\ n_sent > Head(tx_q).retries
    /\ outcome' = [outcome EXCEPT ![Head(tx_q).pkt] = "dropped"]
    /\ tx_q' = Tail(tx_q)
    /\ xfer' = FALSE /\ Goto("again")
    /\ UNCHANGED <<cbVars, sems, frame_seq_num, ack_seq_num, n_sent, idx,
                   room, txbuf, radio, air, heard, granted, attempts, rcvd>>

\* Mutant: the remaining retries are not written back.
VerifyRetryForever ==
    /\ pc = "verify" /\ ack_seq_num # frame_seq_num
    /\ n_sent <= Head(tx_q).retries
    /\ n_sent' = 0 /\ Goto("again")
    /\ UNCHANGED <<cbVars, tx_q, sems, frame_seq_num, ack_seq_num, xfer, idx,
                   room, txbuf, radio, air, heard, histVars>>

\* ... otherwise write the remaining retries back into the mbuf.
VerifyRetry ==
    /\ pc = "verify" /\ ack_seq_num # frame_seq_num
    /\ n_sent <= Head(tx_q).retries
    /\ tx_q' = [tx_q EXCEPT ![1].retries = @ - n_sent]
    /\ n_sent' = 0 /\ Goto("again")
    /\ UNCHANGED <<cbVars, sems, frame_seq_num, ack_seq_num, xfer, idx, room,
                   txbuf, radio, air, heard, histVars>>

\* Successfully sent: dequeue and free.
Done ==
    /\ pc = "done"
    /\ outcome' = [outcome EXCEPT ![Head(tx_q).pkt] = "confirmed"]
    /\ tx_q' = Tail(tx_q)
    /\ xfer' = FALSE /\ Goto("again")
    /\ UNCHANGED <<cbVars, sems, frame_seq_num, ack_seq_num, n_sent, idx,
                   room, txbuf, radio, air, heard, granted, attempts, rcvd>>

\* The condition of the do-while loop.
Again ==
    /\ pc = "again" /\ Goto(IF tx_q # <<>> THEN "loop" ELSE "drain")
    /\ UNCHANGED <<cbVars, tx_q, sems, frame_seq_num, ack_seq_num, xfer,
                   n_sent, idx, room, txbuf, radio, air, heard, histVars>>

\* Mutant: dequeue_tx returns while its last frame is still going out.
DrainSkipped ==
    /\ pc = "drain" /\ Goto("idle")
    /\ UNCHANGED <<cbVars, tx_q, sems, frame_seq_num, ack_seq_num, xfer,
                   n_sent, idx, room, txbuf, radio, air, heard, histVars>>

\* After the loop: wait for the last transmission before returning.
Drain ==
    /\ pc = "drain" /\ Pend("sem") /\ Goto("drained")
    /\ UNCHANGED <<cbVars, tx_q, frame_seq_num, ack_seq_num, xfer, n_sent,
                   idx, room, txbuf, radio, air, heard, histVars>>

-----------------------------------------------------------------------------
(* uwb_transport_listen *)

RxPend ==
    /\ pc = "rx_pend" /\ Pend("sem") /\ Goto("rx_start")
    /\ UNCHANGED <<cbVars, tx_q, frame_seq_num, ack_seq_num, xfer, n_sent,
                   idx, room, txbuf, radio, air, heard, histVars>>

\* uwb_start_rx; on start_rx_error the semaphore is given back at once.
RxStart(blocking) ==
    /\ pc = "rx_start" /\ Goto(IF blocking THEN "rx_wait" ELSE "idle")
    /\ \/ radio' = "listen" /\ UNCHANGED sems
       \/ sems' = [sems EXCEPT !["sem"] = @ + 1] /\ UNCHANGED radio
    /\ UNCHANGED <<cbVars, tx_q, frame_seq_num, ack_seq_num, xfer, n_sent,
                   idx, room, txbuf, air, heard, histVars>>

RxWait ==
    /\ pc = "rx_wait" /\ Pend("sem") /\ Goto("rx_release")
    /\ UNCHANGED <<cbVars, tx_q, frame_seq_num, ack_seq_num, xfer, n_sent,
                   idx, room, txbuf, radio, air, heard, histVars>>

\* The release after the wait is not conditional.
RxRelease ==
    /\ pc = "rx_release" /\ Goto("idle")
    /\ sems' = [sems EXCEPT !["sem"] = @ + 1]
    /\ UNCHANGED <<cbVars, tx_q, frame_seq_num, ack_seq_num, xfer, n_sent,
                   idx, room, txbuf, radio, air, heard, histVars>>

-----------------------------------------------------------------------------
(* Callbacks.  Each looks at the count of a semaphore, then, if it was     *)
(* zero, stores what ended the wait for an acknowledgement in ack_seq_num  *)
(* (ack_sem only), then releases.  The state of the radio is what the      *)
(* interrupt task has been told of: it changes in the step in which a      *)
(* callback is entered and takes its first look.                           *)

\* Mutant: a callback releases without looking at the count.
LookAtBlind(t, place) ==
    /\ cbAt' = [cbAt EXCEPT ![t] = place]
    /\ cbStep' = [cbStep EXCEPT ![t] =
                    IF Duty[place].s = "ack_sem" THEN "name" ELSE "give"]

\* dpl_sem_get_count(s) == 0 ...
LookAt(t, place) ==
    LET d == Duty[place]
    IN  IF sems[d.s] = 0
          THEN /\ cbAt' = [cbAt EXCEPT ![t] = place]
               /\ cbStep' = [cbStep EXCEPT ![t] =
                               IF d.s = "ack_sem" THEN "name" ELSE "give"]
          ELSE cbAt' = [cbAt EXCEPT ![t] = d.else] /\ UNCHANGED cbStep

CbLook(t) ==
    /\ cbAt[t] # "none" /\ cbStep[t] = "look" /\ LookAt(t, cbAt[t])
    /\ UNCHANGED <<tx_q, sems, frame_seq_num, ack_seq_num, rx_seq, taskVars,
                   txbuf, radio, air, heard, histVars>>

\* Mutant: the time-out leaves the last acknowledged number in place.
CbNameStale(t) ==
    /\ cbAt[t] # "none" /\ cbStep[t] = "name"
    /\ ack_seq_num' = IF cbAt[t] = "acked" THEN rx_seq ELSE ack_seq_num
    /\ cbStep' = [cbStep EXCEPT ![t] = "give"]
    /\ UNCHANGED <<tx_q, sems, frame_seq_num, cbAt, rx_seq, taskVars, txbuf,
                   radio, air, heard, histVars>>

\* ... then for ack_sem what ended the wait: rxbuf[2], or -1 ...
CbName(t) ==
    /\ cbAt[t] # "none" /\ cbStep[t] = "name"
    /\ ack_seq_num' = IF cbAt[t] = "acked" THEN rx_seq ELSE -1
    /\ cbStep' = [cbStep EXCEPT ![t] = "give"]
    /\ UNCHANGED <<tx_q, sems, frame_seq_num, cbAt, rx_seq, taskVars, txbuf,
                   radio, air, heard, histVars>>

\* ... then dpl_sem_release(s).
CbGive(t) ==
    /\ cbAt[t] # "none" /\ cbStep[t] = "give"
    /\ sems' = [sems EXCEPT ![Duty[cbAt[t]].s] = @ + 1]
    /\ cbAt' = [cbAt EXCEPT ![t] = Duty[cbAt[t]].zero]
    /\ cbStep' = [cbStep EXCEPT ![t] = "look"]
    /\ UNCHANGED <<tx_q, frame_seq_num, ack_seq_num, rx_seq, taskVars, txbuf,
                   radio, air, heard, histVars>>

CbStep(t) == CbLook(t) \/ CbName(t) \/ CbGive(t)

\* The interrupt task runs one callback after the other.
IrqCall(place) == cbAt["irq"] = "none" /\ LookAt("irq", place)

\* tx_begins_cb
TxBegins ==
    /\ radio = "queued" /\ radio' = "txing" /\ IrqCall("begins")
    /\ UNCHANGED <<tx_q, sems, frame_seq_num, ack_seq_num, rx_seq, taskVars,
                   txbuf, air, heard, histVars>>

\* tx_complete_cb.  The peer may or may not have received the frame.
TxComplete ==
    /\ radio = "txing" /\ IrqCall("complete")
    /\ radio' = IF RequestAcks THEN "await" ELSE "idle"
    /\ \/ heard' = TRUE /\ rcvd' = rcvd \cup ({air.pkt} \ {NoPacket})
       \/ heard' = FALSE /\ UNCHANGED rcvd
    /\ UNCHANGED <<tx_q, sems, frame_seq_num, ack_seq_num, rx_seq, taskVars,
                   txbuf, air, outcome, granted, attempts>>

\* rx_complete_cb with an acknowledgement frame that carries seq.
AckReceived(seq) ==
    /\ radio = "await" /\ radio' = "idle" /\ IrqCall("acked")
    /\ "stray" \in Disturbances \/ (heard /\ seq = air.seq)
    /\ rx_seq' = seq
    /\ UNCHANGED <<tx_q, sems, frame_seq_num, ack_seq_num, taskVars, txbuf,
                   air, heard, histVars>>

\* rx_timeout_cb while waiting for the acknowledgement, or at the end of
\* the listening window.
RxTimeout ==
    /\ radio \in {"await", "listen"} /\ radio' = "idle"
    /\ IrqCall("timeout")
    /\ UNCHANGED <<tx_q, sems, frame_seq_num, ack_seq_num, rx_seq, taskVars,
                   txbuf, air, heard, histVars>>

\* rx_complete_cb with any other frame while an acknowledgement is awaited:
\* early_ret for a frame that is not ours, nothing for a data frame.  With
\* rxauto disabled the receiver stays off and no time-out follows.
ForeignFrame ==
    /\ "foreign" \in Disturbances
    /\ radio = "await" /\ radio' = "idle"
    /\ \/ IrqCall("refused")
       \/ cbAt["irq"] = "none" /\ UNCHANGED <<cbAt, cbStep>>
    /\ UNCHANGED <<tx_q, sems, frame_seq_num, ack_seq_num, rx_seq, taskVars,
                   txbuf, air, heard, histVars>>

\* While listening a frame that is refused (early_ret), or the end of the
\* automatic acknowledgement of an accepted one (tx_complete_cb), releases
\* sem; the receiver is on until the window ends.
ListenEvent ==
    /\ radio = "listen" /\ sems["sem"] = 0 /\ IrqCall("refused")
    /\ UNCHANGED <<tx_q, sems, frame_seq_num, ack_seq_num, rx_seq, taskVars,
                   txbuf, radio, air, heard, histVars>>

\* Mutant: the reset forgets whoever waits for an acknowledgement.
ResetForgetsAck(t) ==
    /\ cbAt[t] = "none" /\ cbAt' = [cbAt EXCEPT ![t] = "rs_sem"]
    /\ radio' = "idle"
    /\ UNCHANGED <<cbStep, tx_q, sems, frame_seq_num, ack_seq_num, rx_seq,
                   taskVars, txbuf, air, heard, histVars>>

\* uwb_phy_forcetrxoff switches the transceiver off and runs reset_cb, on
\* the task that called it.
Reset(t) ==
    /\ cbAt[t] = "none" /\ cbAt' = [cbAt EXCEPT ![t] = "rs_ack"]
    /\ radio' = "idle"
    /\ UNCHANGED <<cbStep, tx_q, sems, frame_seq_num, ack_seq_num, rx_seq,
                   taskVars, txbuf, air, heard, histVars>>

-----------------------------------------------------------------------------
StartOutcome == StartTx \/ \E r \in 0..SlotRoom : StartTxError(r)

Task ==
    \/ Loop \/ PendLock \/ WriteTx \/ PendSem \/ PendAck \/ StartOutcome
    \/ ReadCount \/ ReleaseSeen \/ AwaitAck
    \/ VerifyOk \/ VerifyDrop \/ VerifyRetry \/ Done \/ Again \/ Drain
    \/ RxPend \/ (\E b \in BOOLEAN : RxStart(b)) \/ RxWait \/ RxRelease

Irq ==
    \/ TxBegins \/ TxComplete \/ RxTimeout \/ (\E s \in SeqNums : AckReceived(s))
    \/ ForeignFrame \/ ListenEvent \/ CbStep("irq")

\* Another service's task
Resetter(t) == Reset(t) \/ CbStep(t)

Next ==
    \/ \E p \in Packets, r \in 0..MaxRetries : Enqueue(p, r)
    \/ SlotEmpty \/ (\E r \in 0..SlotRoom : Slot(r))
    \/ Task \/ Irq \/ \E t \in Resetters : Resetter(t)

Spec == Init /\ [][Next]_vars

\* The tasks and the radio keep going: a step of the task that can be taken
\* is taken, a started frame begins and ends, a window that is open closes,
\* and a callback that was entered is finished (the interrupt task does only
\* one of these at a time, so one fairness condition covers them).
\* Slots with room for a frame keep coming and a start does not fail forever.
Fairness ==
    /\ WF_vars(Task)
    /\ WF_vars(TxBegins \/ TxComplete \/ RxTimeout \/ CbStep("irq"))
    /\ SF_vars(\E r \in 1..SlotRoom : Slot(r))
    /\ SF_vars(StartTx)

FairSpec == Spec /\ Fairness

\* The same on a node whose clock service calls uwb_phy_forcetrxoff in
\* every superframe.
ResetSpec == FairSpec /\ \A t \in Resetters : WF_vars(Resetter(t))

-----------------------------------------------------------------------------
(* Properties *)

\* No frame is started while another is on its way out: the comment on the
\* pend of sem reads "Wait for overlapping transmission to complete".
NoOverlap == pc = "start" => ~InFlight

\* The device buffer is not written between the start of a frame and the
\* moment its transmission begins: "DW1000 Errata 1.1, inhibit overlapping
\* writes until transmission begins".
ErrataSafe == pc = "write" /\ ~xfer => radio # "queued"

\* The half of the device buffer that a frame is sent from still holds that
\* frame until it is out, over slots and retransmissions: writing the next
\* packet ahead never touches it.
FrameIntact ==
    InFlight => txbuf[air.half] = [pkt |-> air.pkt, seq |-> air.seq]

\* A packet is started at most retries + 1 times however its attempts are
\* spread over slots, start errors and resets, and it is dropped only when
\* they are all used up.
RetryContract ==
    \A p \in Packets :
        /\ attempts[p] <= granted[p] + 1
        /\ outcome[p] = "dropped" => attempts[p] = granted[p] + 1

\* The threads that are to release s whatever its count is by then: they
\* have read a zero, or listen and give back what they took.
Releasers(s) ==
    {t \in Callers : /\ cbAt[t] # "none" /\ cbStep[t] # "look"
                     /\ Duty[cbAt[t]].s = s}
    \cup {t \in {"task"} : \/ pc \in Sites /\ saw0 /\ Site[pc].s = s
                           \/ pc \in {"rx_start", "rx_release"} /\ s = "sem"}

\* The count of a semaphore that several threads release "if it is zero"
\* never runs away: with the releases that are still to come it stays at
\* most the number of threads, three on a node where one other service
\* calls uwb_phy_forcetrxoff.
SemBound ==
    \A s \in Sems :
        sems[s] + Cardinality(Releasers(s)) <= Cardinality(Threads)

\* Every packet that was queued is sent or dropped.
QueuedResolved ==
    \A p \in Packets :
        outcome[p] = "queued" ~> outcome[p] \in {"confirmed", "dropped"}

\* The abstract service, with the mbufs reduced to their packets.
Service == INSTANCE PacketService
    WITH pending <- [i \in DOMAIN tx_q |-> tx_q[i].pkt], delivered <- rcvd

\* With acknowledgements, and without resets and stray acknowledgements,
\* the sender implements PacketService: in-order service, delivery of the
\* head of the queue only, "sent" only after it was received.
ImplementsService == Service!SvcSpec
=============================================================================

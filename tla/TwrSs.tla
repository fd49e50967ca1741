-------------------------------- MODULE TwrSs --------------------------------
(***************************************************************************)
(* Single-sided two-way ranging: the exchange engine lib/uwb_rng with the  *)
(* protocol lib/twr_ss on top of it, on several nodes that share the air.  *)
(*                                                                         *)
(* On every node a task calls uwb_rng_request or uwb_rng_listen while the  *)
(* interrupt task runs the MAC callbacks of uwb_rng and then of twr_ss.    *)
(* One counting semaphore, rng->sem, is everything at once: the lock of an *)
(* exchange, the signal that it is over and, in the callbacks, the test    *)
(* whether a frame was asked for.  The request (SS) is answered by T1 and  *)
(* that by FINAL; a node that sent SS or T1 then listens.                  *)
(*                                                                         *)
(* A callback runs under irq_sem and is one step.  Timestamps are reduced  *)
(* to the exchange they were taken in: ex of a frame stands for the        *)
(* reception and transmission times that T1 carries and for the moment the *)
(* frame is received, req for the time of the request that the initiator   *)
(* adds.  Sequence numbers are not looked at by any callback and are left  *)
(* out.  The radio is external: rxauto is disabled, so that a good frame   *)
(* ends the reception.                                                     *)
(***************************************************************************)
EXTENDS Naturals, FiniteSets

CONSTANTS
    Nodes,          \* short addresses
    Requesters,     \* nodes whose task calls uwb_rng_request
    Listeners,      \* nodes whose task calls uwb_rng_listen
    NFrames,        \* frames in the ring of an instance (4)
    MaxRequests,    \* bound: requests per node
    Disturbances    \* a subset of Disturbance

\* "reset":       uwb_phy_forcetrxoff is called by another service
\* "superframe":  the clock service announces a superframe
\* "foreign":     a good frame of another service is received
\* "broken":      an acknowledgement, or a ranging frame with a wrong length or
\*                an LDE error, is received
\* "nonblocking": uwb_rng_listen is also called with UWB_NONBLOCKING
Disturbance == {"reset", "superframe", "foreign", "broken", "nonblocking"}

ASSUME RolesAssumption == Requesters \subseteq Nodes /\ Listeners \subseteq Nodes
ASSUME NFramesAssumption == NFrames \in Nat /\ NFrames >= 2
ASSUME RequestsAssumption == MaxRequests \in Nat
ASSUME DisturbancesAssumption == Disturbances \subseteq Disturbance

VARIABLES
    rng,        \* struct uwb_rng_instance of each node
    task,       \* where its task is, and the frame uwb_rng_request uses
    phy,        \* its transceiver
    nreq,       \* history: requests made by each node
    reported,   \* history: last result a node reported, until the next frame
    bad,        \* history: a completion reported something else than the
                \*          final frame just sent or received
    answered    \* history: exchanges whose T1 the initiator used

vars == <<rng, task, phy, nreq, reported, bad, answered>>

\* An exchange is named by its initiator and a number; number 0 is none.
Exchanges == Nodes \X (0..MaxRequests)
Codes == {"SS", "T1", "FINAL"}
Slots == 0..(NFrames - 1)
FrameType == [code : Codes \cup {"none"}, src : Nodes, dst : Nodes,
              ex : Exchanges, req : Exchanges]

NoEx(n) == <<n, 0>>
BlankFrame(n) ==
    [code |-> "none", src |-> n, dst |-> n, ex |-> NoEx(n), req |-> NoEx(n)]
Next1(i) == (i + 1) % NFrames

\* The task has taken sem and has not yet passed it on to the radio, or has
\* got it back and not yet released it.
Holding == {"rq_start", "rq_rel", "rq_seen", "ls_start", "ls_rel"}
PCs == Holding \cup {"idle", "rq_pend", "rq_wait", "ls_pend", "ls_wait"}

RngType ==
    [sem : Nat, idx : Slots, code : Codes \cup {"none"},
     complete_after_tx : BOOLEAN, frames : [Slots -> FrameType]]
TaskType == [pc : PCs, slot : Slots]
PhyType ==
    [radio : {"off", "tx", "rx", "got"}, buf : FrameType, txtime : Exchanges,
     ranging : BOOLEAN]

TypeOK ==
    /\ rng \in [Nodes -> RngType]
    /\ task \in [Nodes -> TaskType]
    /\ phy \in [Nodes -> PhyType]
    /\ nreq \in [Nodes -> 0..MaxRequests]
    /\ reported \in [Nodes -> FrameType]
    /\ bad \in BOOLEAN
    /\ answered \subseteq Exchanges

\* uwb_rng_init; idx is 0xFFFF, the next frame is frame 0
Init ==
    /\ rng = [n \in Nodes |->
                [sem |-> 1, idx |-> NFrames - 1, code |-> "none",
                 complete_after_tx |-> FALSE,
                 frames |-> [i \in Slots |-> BlankFrame(n)]]]
    /\ task = [n \in Nodes |-> [pc |-> "idle", slot |-> 0]]
    /\ phy = [n \in Nodes |-> [radio |-> "off", buf |-> BlankFrame(n),
                               txtime |-> NoEx(n), ranging |-> FALSE]]
    /\ nreq = [n \in Nodes |-> 0]
    /\ reported = [n \in Nodes |-> BlankFrame(n)]
    /\ bad = FALSE
    /\ answered = {}

histVars == <<nreq, reported, bad, answered>>

Goto(n, l) == task' = [task EXCEPT ![n].pc = l]

\* dpl_sem_pend(&rng->sem, DPL_TIMEOUT_NEVER)
Pend(n) == rng[n].sem > 0 /\ rng' = [rng EXCEPT ![n].sem = @ - 1]

\* if (dpl_sem_get_count(&rng->sem) == 0) dpl_sem_release(&rng->sem)
Raised(n) == IF rng[n].sem = 0 THEN 1 ELSE rng[n].sem

-----------------------------------------------------------------------------
(* uwb_rng_request *)

\* Mutant: the frame of the last result is used for the request.
RequestSameSlot(n) ==
    /\ n \in Requesters /\ task[n].pc = "idle" /\ nreq[n] < MaxRequests
    /\ task' = [task EXCEPT ![n] = [pc |-> "rq_pend", slot |-> rng[n].idx]]
    /\ nreq' = [nreq EXCEPT ![n] = @ + 1]
    /\ UNCHANGED <<rng, phy, reported, bad, answered>>

\* The frame is chosen before the semaphore is taken.
Request(n) ==
    /\ n \in Requesters /\ task[n].pc = "idle" /\ nreq[n] < MaxRequests
    /\ task' = [task EXCEPT ![n] =
                  [pc |-> "rq_pend", slot |-> Next1(rng[n].idx)]]
    /\ nreq' = [nreq EXCEPT ![n] = @ + 1]
    /\ UNCHANGED <<rng, phy, reported, bad, answered>>

RqPend(n) ==
    /\ task[n].pc = "rq_pend" /\ Pend(n) /\ Goto(n, "rq_start")
    /\ UNCHANGED <<phy, histVars>>

RequestFrame(n, d) ==
    [code |-> "SS", src |-> n, dst |-> d, ex |-> <<n, nreq[n]>>,
     req |-> NoEx(n)]

\* The request is built, written to the device and started: the receiver
\* will be on after it.
RqStart(n, d) ==
    /\ task[n].pc = "rq_start" /\ Goto(n, "rq_wait")
    /\ rng' = [rng EXCEPT ![n].frames[task[n].slot] = RequestFrame(n, d)]
    /\ phy' = [phy EXCEPT ![n].radio = "tx", ![n].buf = RequestFrame(n, d)]
    /\ UNCHANGED <<nreq, reported, bad, answered>>

\* ... or uwb_start_tx fails and the semaphore is given back.
RqStartError(n, d) ==
    /\ task[n].pc = "rq_start" /\ Goto(n, "rq_wait")
    /\ rng' = [rng EXCEPT ![n].frames[task[n].slot] = RequestFrame(n, d),
                          ![n].sem = @ + 1]
    /\ UNCHANGED <<phy, nreq, reported, bad, answered>>

\* Wait for completion of transactions.
RqWait(n) ==
    /\ task[n].pc = "rq_wait" /\ Pend(n) /\ Goto(n, "rq_rel")
    /\ UNCHANGED <<phy, histVars>>

\* Mutant: the semaphore is not given back.
RqCountForgets(n) ==
    /\ task[n].pc = "rq_rel" /\ Goto(n, "idle")
    /\ UNCHANGED <<rng, phy, histVars>>

\* if (dpl_sem_get_count(&rng->sem) == 0) ...
RqCount(n) ==
    /\ task[n].pc = "rq_rel"
    /\ Goto(n, IF rng[n].sem = 0 THEN "rq_seen" ELSE "idle")
    /\ UNCHANGED <<rng, phy, histVars>>

\* ... dpl_sem_release(&rng->sem)
RqRelease(n) ==
    /\ task[n].pc = "rq_seen" /\ Goto(n, "idle")
    /\ rng' = [rng EXCEPT ![n].sem = @ + 1]
    /\ UNCHANGED <<phy, histVars>>

-----------------------------------------------------------------------------
(* uwb_rng_listen *)

\* Bound: a node whose semaphore has run away past SemCap (resets can do that,
\* see TokenOK) listens no more.
SemCap == 2

Listen(n) ==
    /\ n \in Listeners /\ task[n].pc = "idle" /\ rng[n].sem <= SemCap
    /\ Goto(n, "ls_pend")
    /\ UNCHANGED <<rng, phy, histVars>>

LsPend(n) ==
    /\ task[n].pc = "ls_pend" /\ Pend(n) /\ Goto(n, "ls_start")
    /\ UNCHANGED <<phy, histVars>>

\* uwb_start_rx, which may fail; a blocking call then waits for the end.
LsStart(n, blocking) ==
    /\ blocking \/ "nonblocking" \in Disturbances
    /\ task[n].pc = "ls_start" /\ Goto(n, IF blocking THEN "ls_wait" ELSE "idle")
    /\ \/ phy' = [phy EXCEPT ![n].radio = "rx"] /\ UNCHANGED rng
       \/ rng' = [rng EXCEPT ![n].sem = @ + 1] /\ UNCHANGED phy
    /\ UNCHANGED histVars

LsWait(n) ==
    /\ task[n].pc = "ls_wait" /\ Pend(n) /\ Goto(n, "ls_rel")
    /\ UNCHANGED <<phy, histVars>>

LsRelease(n) ==
    /\ task[n].pc = "ls_rel" /\ Goto(n, "idle")
    /\ rng' = [rng EXCEPT ![n].sem = @ + 1]
    /\ UNCHANGED <<phy, histVars>>

-----------------------------------------------------------------------------
(* rng_issue_complete: fr is what complete_cb finds at idx, f the frame that *)
(* was just sent or received                                                 *)

Complete(n, fr, f) ==
    /\ reported' = [reported EXCEPT ![n] = fr]
    /\ bad' = (bad \/ ~(fr = f /\ fr.code = "FINAL" /\ fr.req = fr.ex))

-----------------------------------------------------------------------------
(* The end of a transmission: tx_complete_cb, and who receives the frame *)

\* A node that listens may receive any request; an answer arrives one
\* holdoff after the frame it answers, when the receiver that waits for it
\* is on and that of an earlier or a later exchange is not.
Hears(m, f) ==
    phy[m].radio = "rx" /\ (f.code = "SS" \/ f.dst # m \/ phy[m].txtime = f.ex)

\* The last frame received was a ranging frame, sem is not 1, the code
\* received last is one of a ranging protocol and the flag is set.
CompletesAfterTx(n) ==
    /\ phy[n].ranging /\ rng[n].sem # 1 /\ rng[n].code \in Codes
    /\ rng[n].complete_after_tx

TxEnd(n, R) ==
    /\ phy[n].radio = "tx" /\ n \notin R
    /\ \A m \in R : Hears(m, phy[n].buf)
    /\ phy' = [m \in Nodes |->
         IF m = n
           THEN [phy[n] EXCEPT
                   !.radio = IF phy[n].buf.code = "FINAL" THEN "off" ELSE "rx",
                   !.txtime = phy[n].buf.ex]
           ELSE IF m \in R
             THEN [phy[m] EXCEPT !.radio = "got", !.buf = phy[n].buf]
             ELSE phy[m]]
    /\ \/ /\ CompletesAfterTx(n)
          /\ rng' = [rng EXCEPT ![n].sem = @ + 1,
                                ![n].complete_after_tx = FALSE]
          /\ Complete(n, rng[n].frames[rng[n].idx], phy[n].buf)
       \/ /\ ~CompletesAfterTx(n)
          /\ UNCHANGED <<rng, reported, bad>>
    /\ UNCHANGED <<task, nreq, answered>>

-----------------------------------------------------------------------------
(* A frame was received: rx_complete_cb of uwb_rng, then that of twr_ss *)

Received(n) == phy[n].radio = "got"
Solicited(n) == rng[n].sem # 1
Frame(n) == phy[n].buf
Silent(n) == [phy[n] EXCEPT !.radio = "off", !.ranging = TRUE]
Sending(n, f) ==
    [phy[n] EXCEPT !.radio = "tx", !.ranging = TRUE, !.buf = f]

\* Mutant: the ring of frames does not wrap.
TakenPastEnd(n, fr) ==
    [rng[n] EXCEPT !.code = Frame(n).code, !.idx = @ + 1,
                   !.frames[Next1(rng[n].idx)] = fr]

\* The instance after uwb_rng has taken the frame: fr is the frame in the
\* ring, as twr_ss leaves it.
Taken(n, fr) ==
    [rng[n] EXCEPT !.code = Frame(n).code, !.idx = Next1(@),
                   !.frames[Next1(rng[n].idx)] = fr]

\* Mutant: no software filter.
ForAnybody(n, c) ==
    Received(n) /\ Solicited(n) /\ Frame(n).code = c

ForMe(n, c) ==
    Received(n) /\ Solicited(n) /\ Frame(n).dst = n /\ Frame(n).code = c

\* Nobody waits for a frame.
RxUnsolicited(n) ==
    /\ Received(n) /\ ~Solicited(n)
    /\ phy' = [phy EXCEPT ![n] = Silent(n)]
    /\ UNCHANGED <<rng, task, histVars>>

\* A frame for somebody else ends the exchange.
RxOtherAddress(n) ==
    /\ Received(n) /\ Solicited(n) /\ Frame(n).dst # n
    /\ rng' = [rng EXCEPT ![n].code = Frame(n).code, ![n].sem = Raised(n),
                          ![n].frames[Next1(rng[n].idx)] = Frame(n)]
    /\ phy' = [phy EXCEPT ![n] = Silent(n)]
    /\ UNCHANGED <<task, histVars>>

\* SS: answer with T1, or give up when the start fails.
RxRequest(n) ==
    LET t1 == [Frame(n) EXCEPT !.code = "T1", !.src = n, !.dst = Frame(n).src]
    IN  /\ ForMe(n, "SS")
        /\ \/ /\ rng' = [rng EXCEPT ![n] = Taken(n, t1)]
              /\ phy' = [phy EXCEPT ![n] = Sending(n, t1)]
           \/ /\ rng' = [rng EXCEPT ![n] = [Taken(n, t1) EXCEPT !.sem = @ + 1]]
              /\ phy' = [phy EXCEPT ![n] = Silent(n)]
        /\ reported' = [reported EXCEPT ![n] = BlankFrame(n)]
        /\ UNCHANGED <<task, nreq, bad, answered>>

\* Mutant: twr_ss takes the frame before the one just received.
FinalFrameOfPrevious(n) ==
    [rng[n].frames[rng[n].idx] EXCEPT
        !.code = "FINAL", !.src = n, !.dst = Frame(n).src,
        !.req = phy[n].txtime]

FinalFrame(n) ==
    [Frame(n) EXCEPT !.code = "FINAL", !.src = n, !.dst = Frame(n).src,
                     !.req = phy[n].txtime]

\* T1: send FINAL, the exchange is complete once it is out ...
RxResponse(n) ==
    /\ ForMe(n, "T1")
    /\ rng' = [rng EXCEPT ![n] = [Taken(n, FinalFrame(n)) EXCEPT
                                    !.complete_after_tx = TRUE]]
    /\ phy' = [phy EXCEPT ![n] = Sending(n, FinalFrame(n))]
    /\ reported' = [reported EXCEPT ![n] = BlankFrame(n)]
    /\ answered' = answered \cup {Frame(n).ex}
    /\ UNCHANGED <<task, nreq, bad>>

\* ... or right away when the start fails.
RxResponseError(n) ==
    /\ ForMe(n, "T1")
    /\ rng' = [rng EXCEPT ![n] = [Taken(n, FinalFrame(n)) EXCEPT
                                    !.sem = @ + 1]]
    /\ phy' = [phy EXCEPT ![n] = Silent(n)]
    /\ Complete(n, FinalFrame(n), FinalFrame(n))
    /\ answered' = answered \cup {Frame(n).ex}
    /\ UNCHANGED <<task, nreq>>

\* FINAL: the responder's exchange is complete.
RxFinal(n) ==
    /\ ForMe(n, "FINAL")
    /\ rng' = [rng EXCEPT ![n] = [Taken(n, Frame(n)) EXCEPT !.sem = @ + 1]]
    /\ phy' = [phy EXCEPT ![n] = Silent(n)]
    /\ Complete(n, Frame(n), Frame(n))
    /\ UNCHANGED <<task, nreq, answered>>

\* T1 with an LDE error, T1 or FINAL of a wrong length: twr_ss breaks off.
RxBroken(n) ==
    /\ "broken" \in Disturbances
    /\ ForMe(n, "T1") \/ ForMe(n, "FINAL")
    /\ rng' = [rng EXCEPT ![n] = Taken(n, Frame(n))]
    /\ phy' = [phy EXCEPT ![n] = Silent(n)]
    /\ reported' = [reported EXCEPT ![n] = BlankFrame(n)]
    /\ UNCHANGED <<task, nreq, bad, answered>>

\* A ranging frame too short to have a code (c is then the code of the frame
\* before) or too long for the ring: uwb_rng leaves the ring alone, and twr_ss
\* looks at the frame that is already there.  SS is answered, without a look
\* at the length, with the times of the frame just received.
RxMisfit(n, c) ==
    LET i == rng[n].idx
        t1 == [rng[n].frames[i] EXCEPT
                 !.code = "T1", !.src = n, !.dst = rng[n].frames[i].src,
                 !.ex = NoEx(n)]
        Answered == [rng[n] EXCEPT !.code = c, !.frames[i] = t1]
    IN  /\ "broken" \in Disturbances /\ phy[n].radio = "rx"
        /\ \/ /\ ~Solicited(n) /\ phy' = [phy EXCEPT ![n] = Silent(n)]
              /\ UNCHANGED rng
           \/ /\ Solicited(n) /\ c # "SS" /\ phy' = [phy EXCEPT ![n] = Silent(n)]
              /\ rng' = [rng EXCEPT ![n].code = c]
           \/ /\ Solicited(n) /\ c = "SS"
              /\ phy' = [phy EXCEPT ![n] = Sending(n, t1)]
              /\ rng' = [rng EXCEPT ![n] = Answered]
           \/ /\ Solicited(n) /\ c = "SS"
              /\ phy' = [phy EXCEPT ![n] = Silent(n)]
              /\ rng' = [rng EXCEPT ![n] = [Answered EXCEPT !.sem = @ + 1]]
        /\ UNCHANGED <<task, histVars>>

\* An acknowledgement: too short, and not for twr_ss.
RxAck(n) ==
    /\ "broken" \in Disturbances /\ phy[n].radio = "rx"
    /\ phy' = [phy EXCEPT ![n].radio = "off", ![n].ranging = FALSE]
    /\ UNCHANGED <<rng, task, histVars>>

\* A frame of another service: something else came in, release sem.
RxForeign(n) ==
    /\ "foreign" \in Disturbances /\ phy[n].radio = "rx"
    /\ phy' = [phy EXCEPT ![n].radio = "off", ![n].ranging = FALSE]
    /\ rng' = [rng EXCEPT ![n].sem = Raised(n)]
    /\ UNCHANGED <<task, histVars>>

-----------------------------------------------------------------------------
(* Time-outs and resets *)

\* An answer to the last frame of n is being made or sent.
AnswerComing(n) ==
    \E m \in Nodes \ {n} :
        /\ phy[m].buf.ex = phy[n].txtime
        /\ \/ phy[m].radio = "got" /\ phy[m].buf.src = n /\ phy[m].buf.dst = m
           \/ phy[m].radio = "tx" /\ phy[m].buf.dst = n

\* Mutant: uwb_rng_request does not arm the time-out.
RxTimeoutUnarmed(n) ==
    /\ phy[n].radio = "rx" /\ ~AnswerComing(n) /\ task[n].pc # "rq_wait"
    /\ phy' = [phy EXCEPT ![n].radio = "off"]
    /\ rng' = [rng EXCEPT ![n].sem = Raised(n)]
    /\ UNCHANGED <<task, histVars>>

\* rx_timeout_cb: "just after the inbound frame is received".
RxTimeout(n) ==
    /\ phy[n].radio = "rx" /\ ~AnswerComing(n)
    /\ phy' = [phy EXCEPT ![n].radio = "off"]
    /\ rng' = [rng EXCEPT ![n].sem = Raised(n)]
    /\ UNCHANGED <<task, histVars>>

\* Mutant: a reset is nobody's business.
ResetSilent(n) ==
    /\ "reset" \in Disturbances
    /\ phy' = [phy EXCEPT ![n].radio = "off"]
    /\ UNCHANGED <<rng, task, histVars>>

\* reset_cb, run by uwb_phy_forcetrxoff
Reset(n) ==
    /\ "reset" \in Disturbances
    /\ phy' = [phy EXCEPT ![n].radio = "off"]
    /\ rng' = [rng EXCEPT ![n].sem = Raised(n)]
    /\ UNCHANGED <<task, histVars>>

\* superframe_reset_cb: the transceiver is not touched
SuperframeReset(n) ==
    /\ "superframe" \in Disturbances
    /\ rng' = [rng EXCEPT ![n].sem = Raised(n)]
    /\ UNCHANGED <<task, phy, histVars>>

-----------------------------------------------------------------------------
Task(n) ==
    \/ RqPend(n) \/ (\E d \in Nodes \ {n} : RqStart(n, d) \/ RqStartError(n, d))
    \/ RqWait(n) \/ RqCount(n) \/ RqRelease(n)
    \/ LsPend(n) \/ (\E b \in BOOLEAN : LsStart(n, b)) \/ LsWait(n)
    \/ LsRelease(n)

Irq(n) ==
    \/ \E R \in SUBSET Nodes : TxEnd(n, R)
    \/ RxUnsolicited(n) \/ RxOtherAddress(n) \/ RxRequest(n) \/ RxResponse(n)
    \/ RxResponseError(n) \/ RxFinal(n) \/ RxBroken(n)

Next ==
    \E n \in Nodes :
        \/ Request(n) \/ Listen(n) \/ Task(n) \/ Irq(n)
        \/ (\E c \in Codes \cup {rng[n].code} : RxMisfit(n, c)) \/ RxAck(n)
        \/ RxForeign(n) \/ RxTimeout(n)
        \/ Reset(n) \/ SuperframeReset(n)

Spec == Init /\ [][Next]_vars

\* Tasks are scheduled, a started frame goes out, a received one is handled
\* and a window that was opened with a time-out closes.
Fairness ==
    \A n \in Nodes : WF_vars(Task(n)) /\ WF_vars(Irq(n)) /\ WF_vars(RxTimeout(n))

FairSpec == Spec /\ Fairness

\* The same with a service that keeps calling uwb_phy_forcetrxoff.
ResetSpec == FairSpec /\ \A n \in Nodes : WF_vars(Reset(n))

-----------------------------------------------------------------------------
(* Properties *)

\* The semaphore is the token of the exchange: it is either free, or held by
\* the task with the transceiver off, or with the transceiver.  In particular
\* uwb_rng_request never starts a frame over a running exchange, and the
\* test "dpl_sem_get_count(&rng->sem) == 1" of the callbacks does find out
\* whether a frame is unsolicited.
TokenOK ==
    \A n \in Nodes :
        \/ rng[n].sem = 1 /\ phy[n].radio = "off" /\ task[n].pc \notin Holding
        \/ rng[n].sem = 0 /\ phy[n].radio = "off" /\ task[n].pc \in Holding
        \/ rng[n].sem = 0 /\ phy[n].radio # "off" /\ task[n].pc \notin Holding

\* "Set by ranging state machine to say that exchange is complete after next
\* tx": what rng_issue_complete reports is the final frame that was just sent
\* or received, with the timestamps of one exchange.
RangeCurrent == ~bad

\* A range is reported at an end of its exchange, and only if the initiator
\* used the answer: the two ends agree that the range exists and a third node
\* that overhears the frames does not report it.
EndsAgree ==
    \A n \in Nodes :
        reported[n].code = "FINAL" =>
            /\ reported[n].ex \in answered
            /\ n \in {reported[n].src, reported[n].dst}

\* A reported result stays in its frame of the ring until the next frame is
\* received: a request does not write over it.
ResultKept ==
    \A n \in Nodes :
        reported[n].code = "FINAL" => rng[n].frames[rng[n].idx] = reported[n]

\* uwb_rng_request returns.
RequestReturns ==
    \A n \in Requesters : task[n].pc = "rq_pend" ~> task[n].pc = "idle"

=============================================================================

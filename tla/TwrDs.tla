-------------------------------- MODULE TwrDs --------------------------------
(***************************************************************************)
(* Double-sided two-way ranging: lib/twr_ds on the engine of TwrSs.        *)
(*                                                                         *)
(* The request (DS) is answered by T1, that by T2 and that by FINAL.  A    *)
(* range takes eight times, four of each round trip.  They are collected   *)
(* in two neighbours of the ring, and the ring keeps what earlier frames   *)
(* left there: a frame is copied over it as far as it is long, and a       *)
(* request is sent without the times that its entry holds.  So a time is   *)
(* the frame and the exchange it was taken in: <<code, exchange>>.         *)
(*                                                                         *)
(* The variables, the tasks and what is not about a frame of twr_ds are    *)
(* those of TwrSs.                                                         *)
(***************************************************************************)
EXTENDS TwrSs

DsCodes == {"DS", "T1", "T2", "FINAL"}

\* The parts of twr_frame_t that a frame of each code has room for.
Header == {"code", "src", "dst", "ex"}
Times == {"request", "response", "reception", "transmission"}
Carried ==
    [DS |-> Header, T1 |-> Header \cup {"reception", "transmission"},
     T2 |-> Header \cup Times, FINAL |-> Header \cup Times]

\* Copying a received frame over an entry of the ring.
Over(old, f) ==
    [k \in DOMAIN f |-> IF k \in Carried[f.code] THEN f[k] ELSE old[k]]

NoTime(n) == <<"none", NoEx(n)>>
DsBlank(n) ==
    [code |-> "none", src |-> n, dst |-> n, ex |-> NoEx(n),
     request |-> NoTime(n), response |-> NoTime(n),
     reception |-> NoTime(n), transmission |-> NoTime(n)]

Stamps == (DsCodes \cup {"none"}) \X Exchanges
DsFrameType ==
    [code : DsCodes \cup {"none"}, src : Nodes, dst : Nodes, ex : Exchanges,
     request : Stamps, response : Stamps, reception : Stamps,
     transmission : Stamps]
DsRngType ==
    [sem : Nat, idx : Slots, code : DsCodes \cup {"none"},
     complete_after_tx : BOOLEAN, frames : [Slots -> DsFrameType]]
DsPhyType ==
    [radio : {"off", "tx", "rx", "got"}, buf : DsFrameType,
     txtime : Exchanges, txcode : DsCodes \cup {"none"}, window : BOOLEAN,
     ranging : BOOLEAN]

DsTypeOK ==
    /\ rng \in [Nodes -> DsRngType]
    /\ task \in [Nodes -> TaskType]
    /\ phy \in [Nodes -> DsPhyType]
    /\ nreq \in [Nodes -> 0..MaxRequests]
    /\ reported \in [Nodes -> DsFrameType]
    /\ bad \in BOOLEAN
    /\ answered \subseteq Exchanges

\* uwb_rng_init
DsInit ==
    /\ rng = [n \in Nodes |->
                [sem |-> 1, idx |-> NFrames - 1, code |-> "none",
                 complete_after_tx |-> FALSE,
                 frames |-> [i \in Slots |-> DsBlank(n)]]]
    /\ task = [n \in Nodes |-> [pc |-> "idle", slot |-> 0]]
    /\ phy = [n \in Nodes |-> [radio |-> "off", buf |-> DsBlank(n),
                               txtime |-> NoEx(n), txcode |-> "none",
                               window |-> FALSE, ranging |-> FALSE]]
    /\ nreq = [n \in Nodes |-> 0]
    /\ reported = [n \in Nodes |-> DsBlank(n)]
    /\ bad = FALSE
    /\ answered = {}

-----------------------------------------------------------------------------
(* uwb_rng_request(rng, d, UWB_DATA_CODE_DS_TWR) *)

\* The request is made in the ring, which keeps its times.
DsRequestFrame(n, d) ==
    [rng[n].frames[task[n].slot] EXCEPT
        !.code = "DS", !.src = n, !.dst = d, !.ex = <<n, nreq[n]>>]

DsRqStart(n, d) ==
    /\ task[n].pc = "rq_start" /\ Goto(n, "rq_wait")
    /\ rng' = [rng EXCEPT ![n].frames[task[n].slot] = DsRequestFrame(n, d)]
    /\ phy' = [phy EXCEPT ![n].radio = "tx", ![n].buf = DsRequestFrame(n, d)]
    /\ UNCHANGED histVars

DsRqStartError(n, d) ==
    /\ task[n].pc = "rq_start" /\ Goto(n, "rq_wait")
    /\ rng' = [rng EXCEPT ![n].frames[task[n].slot] = DsRequestFrame(n, d),
                          ![n].sem = @ + 1]
    /\ UNCHANGED <<phy, histVars>>

-----------------------------------------------------------------------------
(* The end of a transmission *)

\* rng_issue_complete: fr is what complete_cb finds at idx, f the frame that
\* was just sent or received.
DsComplete(n, fr, f) ==
    /\ reported' = [reported EXCEPT ![n] = fr]
    /\ bad' = (bad \/ ~(fr = f /\ fr.code = "FINAL"))

\* A node that listens may receive any request.  The window for an answer
\* opens when the answer begins: a receiver that took another frame since the
\* last transmission has missed it.
DsHears(m, f) ==
    /\ phy[m].radio = "rx"
    /\ f.code = "DS" \/ f.dst # m \/ (phy[m].window /\ phy[m].txtime = f.ex)

DsCompletesAfterTx(n) ==
    /\ phy[n].ranging /\ rng[n].sem # 1 /\ rng[n].code \in DsCodes
    /\ rng[n].complete_after_tx

DsTxEnd(n, R) ==
    /\ phy[n].radio = "tx" /\ n \notin R
    /\ \A m \in R : DsHears(m, phy[n].buf)
    /\ phy' = [m \in Nodes |->
         IF m = n
           THEN [phy[n] EXCEPT
                   !.radio = IF phy[n].buf.code = "FINAL" THEN "off" ELSE "rx",
                   !.txtime = phy[n].buf.ex, !.txcode = phy[n].buf.code,
                   !.window = TRUE]
           ELSE IF m \in R
             THEN [phy[m] EXCEPT !.radio = "got", !.buf = phy[n].buf,
                                 !.window = FALSE]
             ELSE phy[m]]
    /\ \/ /\ DsCompletesAfterTx(n)
          /\ rng' = [rng EXCEPT ![n].sem = @ + 1,
                                ![n].complete_after_tx = FALSE]
          /\ DsComplete(n, rng[n].frames[rng[n].idx], phy[n].buf)
       \/ /\ ~DsCompletesAfterTx(n)
          /\ UNCHANGED <<rng, reported, bad>>
    /\ UNCHANGED <<task, nreq, answered>>

-----------------------------------------------------------------------------
(* A frame was received: rx_complete_cb of uwb_rng, then that of twr_ds *)

\* The frame as uwb_rng leaves it in the ring.
InRing(n) == Over(rng[n].frames[Next1(rng[n].idx)], Frame(n))

\* The times read in the callback: of the frame just received, of the last
\* one sent, and of the answer that will be started.
Now(n) == <<Frame(n).code, Frame(n).ex>>
LastTx(n) == <<phy[n].txcode, phy[n].txtime>>
Later(n, c) == <<c, Frame(n).ex>>

\* A frame for somebody else ends the exchange.
DsOtherAddress(n) ==
    /\ Received(n) /\ Solicited(n) /\ Frame(n).dst # n
    /\ rng' = [rng EXCEPT ![n].code = Frame(n).code, ![n].sem = Raised(n),
                          ![n].frames[Next1(rng[n].idx)] = InRing(n)]
    /\ phy' = [phy EXCEPT ![n] = Silent(n)]
    /\ UNCHANGED <<task, histVars>>

\* f is sent, or the start fails and the semaphore is given back: taken is the
\* instance with the frame and its answer.
Answers(n, taken, f) ==
    \/ /\ rng' = [rng EXCEPT ![n] = taken]
       /\ phy' = [phy EXCEPT ![n] = Sending(n, f)]
    \/ /\ rng' = [rng EXCEPT ![n] = [taken EXCEPT !.sem = @ + 1]]
       /\ phy' = [phy EXCEPT ![n] = Silent(n)]

\* DS: answer with T1.
DsRequest(n) ==
    LET t1 == [InRing(n) EXCEPT
                 !.code = "T1", !.src = n, !.dst = Frame(n).src,
                 !.reception = Now(n), !.transmission = Later(n, "T1")]
    IN  /\ ForMe(n, "DS")
        /\ Answers(n, Taken(n, t1), t1)
        /\ reported' = [reported EXCEPT ![n] = DsBlank(n)]
        /\ UNCHANGED <<task, nreq, bad, answered>>

\* T1: its entry gets the times of the first round; T2 is made in the entry
\* after it, which is not yet the current one.
DsResponse(n) ==
    LET i == Next1(rng[n].idx)
        t1 == [InRing(n) EXCEPT !.request = LastTx(n), !.response = Now(n)]
        t2 == [rng[n].frames[Next1(i)] EXCEPT
                 !.code = "T2", !.src = n, !.dst = Frame(n).src,
                 !.ex = Frame(n).ex, !.request = LastTx(n),
                 !.response = Now(n), !.reception = Now(n),
                 !.transmission = Later(n, "T2")]
    IN  /\ ForMe(n, "T1")
        /\ Answers(n, [Taken(n, t1) EXCEPT !.frames[Next1(i)] = t2], t2)
        /\ reported' = [reported EXCEPT ![n] = DsBlank(n)]
        /\ answered' = answered \cup {Frame(n).ex}
        /\ UNCHANGED <<task, nreq, bad>>

\* T2 in the ring becomes FINAL, with the times of the second round.
DsFinalFrame(n) ==
    [InRing(n) EXCEPT
       !.code = "FINAL", !.src = n, !.dst = Frame(n).src,
       !.request = LastTx(n), !.response = Now(n)]

\* Mutant: the entry before the current one keeps its times.
DsTakenAlone(n) == Taken(n, DsFinalFrame(n))

\* The entry before it gets the times of the first round that T2 brings.
DsTaken(n) ==
    [Taken(n, DsFinalFrame(n)) EXCEPT
       !.frames[rng[n].idx] = [@ EXCEPT !.request = InRing(n).request,
                                        !.response = InRing(n).response]]

\* T2: send FINAL, the exchange is complete once it is out ...
DsSecond(n) ==
    /\ ForMe(n, "T2")
    /\ rng' = [rng EXCEPT ![n] = [DsTaken(n) EXCEPT !.complete_after_tx = TRUE]]
    /\ phy' = [phy EXCEPT ![n] = Sending(n, DsFinalFrame(n))]
    /\ reported' = [reported EXCEPT ![n] = DsBlank(n)]
    /\ UNCHANGED <<task, nreq, bad, answered>>

\* ... or right away when the start fails.
DsSecondError(n) ==
    /\ ForMe(n, "T2")
    /\ rng' = [rng EXCEPT ![n] = [DsTaken(n) EXCEPT !.sem = @ + 1]]
    /\ phy' = [phy EXCEPT ![n] = Silent(n)]
    /\ DsComplete(n, DsFinalFrame(n), DsFinalFrame(n))
    /\ UNCHANGED <<task, nreq, answered>>

\* FINAL: the initiator's exchange is complete.
DsFinal(n) ==
    /\ ForMe(n, "FINAL")
    /\ rng' = [rng EXCEPT ![n] = [Taken(n, InRing(n)) EXCEPT !.sem = @ + 1]]
    /\ phy' = [phy EXCEPT ![n] = Silent(n)]
    /\ DsComplete(n, InRing(n), Frame(n))
    /\ UNCHANGED <<task, nreq, answered>>

\* The length of FINAL is not looked at: of a short one the header is copied,
\* and what the entry held before is reported as its times.
DsShortFinal(n) ==
    LET i == Next1(rng[n].idx)
        final == [rng[n].frames[i] EXCEPT
                    !.code = "FINAL", !.src = Frame(n).src,
                    !.dst = Frame(n).dst, !.ex = Frame(n).ex]
    IN  /\ "broken" \in Disturbances /\ ForMe(n, "FINAL")
        /\ rng' = [rng EXCEPT ![n] = [Taken(n, final) EXCEPT !.sem = @ + 1]]
        /\ phy' = [phy EXCEPT ![n] = Silent(n)]
        /\ DsComplete(n, final, Frame(n))
        /\ UNCHANGED <<task, nreq, answered>>

\* A wrong length, or an LDE error with T1 or T2: twr_ds breaks off.
DsBroken(n) ==
    /\ "broken" \in Disturbances
    /\ ForMe(n, "DS") \/ ForMe(n, "T1") \/ ForMe(n, "T2")
    /\ rng' = [rng EXCEPT ![n] = Taken(n, InRing(n))]
    /\ phy' = [phy EXCEPT ![n] = Silent(n)]
    /\ reported' = [reported EXCEPT ![n] = DsBlank(n)]
    /\ UNCHANGED <<task, nreq, bad, answered>>

\* A ranging frame too short to have a code (c is then the code of the frame
\* before) or too long for the ring: uwb_rng leaves the ring alone.  twr_ds
\* looks at the length, except with FINAL: what is in the ring is reported.
DsMisfit(n, c) ==
    /\ "broken" \in Disturbances /\ phy[n].radio = "rx"
    /\ phy' = [phy EXCEPT ![n] = Silent(n)]
    /\ \/ /\ ~Solicited(n) /\ UNCHANGED <<rng, reported, bad>>
       \/ /\ Solicited(n) /\ c # "FINAL" /\ rng' = [rng EXCEPT ![n].code = c]
          /\ UNCHANGED <<reported, bad>>
       \/ /\ Solicited(n) /\ c = "FINAL"
          /\ rng' = [rng EXCEPT ![n].code = c, ![n].sem = @ + 1]
          /\ reported' = [reported EXCEPT ![n] = rng[n].frames[rng[n].idx]]
          /\ bad' = TRUE
    /\ UNCHANGED <<task, nreq, answered>>

-----------------------------------------------------------------------------
DsTask(n) ==
    \/ RqPend(n) \/ RqWait(n) \/ RqCount(n) \/ RqRelease(n)
    \/ (\E d \in Nodes \ {n} : DsRqStart(n, d) \/ DsRqStartError(n, d))
    \/ LsPend(n) \/ (\E b \in BOOLEAN : LsStart(n, b)) \/ LsWait(n)
    \/ LsRelease(n)

DsIrq(n) ==
    \/ \E R \in SUBSET Nodes : DsTxEnd(n, R)
    \/ RxUnsolicited(n) \/ DsOtherAddress(n) \/ DsRequest(n) \/ DsResponse(n)
    \/ DsSecond(n) \/ DsSecondError(n) \/ DsFinal(n)

DsDisturbed(n) ==
    \/ DsShortFinal(n) \/ DsBroken(n) \/ (\E c \in DsCodes \cup {rng[n].code} : DsMisfit(n, c))
    \/ RxAck(n) \/ RxForeign(n) \/ SuperframeReset(n)

\* A reset comes from the service that owns the schedule.
DsStep(n) ==
    Request(n) \/ Listen(n) \/ DsTask(n) \/ DsIrq(n) \/ RxTimeout(n) \/ Reset(n)

DsNext == \E n \in Nodes : DsStep(n) \/ DsDisturbed(n)

DsSpec == DsInit /\ [][DsNext]_vars

-----------------------------------------------------------------------------
(* Properties *)

\* The four times of one round trip of exchange e, from a frame to its answer.
Round(f, e, sent, got) ==
    /\ f.request = <<sent, e>> /\ f.reception = <<sent, e>>
    /\ f.transmission = <<got, e>> /\ f.response = <<got, e>>

\* As long as a node's last report stands, the two neighbours in its ring from
\* which uwb_rng_twr_to_tof computes the range hold the eight times of the
\* exchange reported: nothing of an earlier exchange is left in them, and no
\* request or overheard frame is written over either.  It takes a ring of at
\* least three frames.
PairKept ==
    \A n \in Nodes :
        reported[n].code = "FINAL" =>
            LET last == rng[n].frames[rng[n].idx]
                first == rng[n].frames[(rng[n].idx + NFrames - 1) % NFrames]
            IN  /\ Round(first, reported[n].ex, "DS", "T1")
                /\ Round(last, reported[n].ex, "T1", "T2")

=============================================================================

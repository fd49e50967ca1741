-------------------------------- MODULE Nrng --------------------------------
(***************************************************************************)
(* nrng and twr_ss_nrng: one request, answered by many nodes, each in its  *)
(* own slot.  NrngRequest and answers share a ring of frames: request k takes  *)
(* as many entries as it asks slots, and what of an entry belongs to it is *)
(* told by the code and the sequence number in the frame alone.            *)
(*                                                                         *)
(* The node modelled requests and listens from one caller.  Its peers answer *)
(* or not, and send requests of their own.  Built with CELL_ENABLED; the   *)
(* receiver stays on between answers (the MAC layer reenables it).         *)
(***************************************************************************)
EXTENDS Integers, FiniteSets

CONSTANTS
    RingSize,        \* entries of the ring (32)
    NSlots,         \* slots of the cell (16)
    NrngSeqMod,         \* seq_num is a uint8_t (256)
    NotFinal        \* a frame whose code is not SS_TWR_NRNG_FINAL

\* a 16 bit idx is a ring position only if RingSize divides 2^16
ASSUME NrngConstants ==
    /\ RingSize \in Nat \ {0} /\ NSlots \in 1..RingSize /\ NrngSeqMod \in Nat \ {0, 1}

CellSlots == 0..NSlots - 1

VARIABLES
    sem, nrng_idx, seq_num, slot_mask,   \* the instance; nrng_idx modulo RingSize
    frames,         \* seq_num, the slot of the peer, and how many requests ago
    caller,             \* the caller, in nrng_request, nrng_listen or after a request
    nrng_radio,
    coming,         \* answers on their way
    answered,       \* history: slots heard during the request
    joined          \* history: a foreign request was answered meanwhile

nrngVars ==
    <<sem, nrng_idx, seq_num, slot_mask, frames, caller, nrng_radio, coming, answered, joined>>
instVars == <<nrng_idx, seq_num, slot_mask, frames>>
nrngHist == <<answered, joined>>

Answer == [slot : CellSlots, pos : CellSlots, seq : 0..NrngSeqMod - 1]
Final == [slot : CellSlots, seq : 0..NrngSeqMod - 1, age : 0..NrngSeqMod]

ASSUME NotFinalAssumption == NotFinal \notin Final

NrngTypeOK ==
    /\ sem \in 0..2 /\ nrng_idx \in 0..RingSize - 1 /\ seq_num \in 0..NrngSeqMod - 1
    /\ slot_mask \subseteq CellSlots /\ frames \in [0..RingSize - 1 -> Final \cup {NotFinal}]
    /\ caller \in {"idle", "send", "wait", "release", "read", "listen", "listened", "failed"}
    /\ nrng_radio \in {"off", "request", "answer", "rx"}
    /\ coming \subseteq Answer /\ answered \subseteq CellSlots /\ joined \in BOOLEAN

\* nrng_init, nrng_set_frames: idx is 0xFFFF
NrngInit ==
    /\ sem = 1 /\ nrng_idx = RingSize - 1 /\ seq_num = 0 /\ slot_mask = {}
    /\ frames = [p \in 0..RingSize - 1 |-> NotFinal]
    /\ caller = "idle" /\ nrng_radio = "off" /\ coming = {} /\ answered = {} /\ joined = FALSE

\* BitIndex(mask, 1 << i, SLOT_POSITION)
BitIndex(mask, i) == Cardinality({j \in mask : j < i})

At(p) == (nrng_idx + p) % RingSize

Older(f) == IF f = NotFinal \/ f.age = NrngSeqMod THEN f ELSE [f EXCEPT !.age = @ + 1]

Requesting == caller \in {"send", "wait", "release", "read"}

ReleaseIf0 == IF sem = 0 THEN 1 ELSE sem

-----------------------------------------------------------------------------
(* The caller *)

\* nrng_request up to uwb_start_tx.  Answers to the request before this one may
\* still come, older ones not: a peer answers within its slot
NrngRequest(mask) ==
    /\ caller = "idle" /\ sem > 0 /\ mask # {}
    /\ sem' = sem - 1
    /\ nrng_idx' = At(Cardinality(mask))
    /\ seq_num' = (seq_num + 1) % NrngSeqMod /\ slot_mask' = mask
    /\ frames' = [p \in 0..RingSize - 1 |-> IF p = nrng_idx' THEN NotFinal ELSE Older(frames[p])]
    /\ coming' = {a \in coming : a.seq = seq_num}
    /\ caller' = "send"
    /\ UNCHANGED <<nrng_radio, nrngHist>>

NrngStartTx ==
    /\ caller = "send"
    /\ \/ nrng_radio' = "request" /\ caller' = "wait" /\ UNCHANGED sem
       \/ /\ nrng_radio' = "off" /\ UNCHANGED sem      \* start_tx_error
          /\ caller' = IF sem = 0 THEN "release" ELSE "read"
    /\ UNCHANGED <<instVars, coming, nrngHist>>

NrngListen(blocking) ==
    /\ caller = "idle" /\ sem > 0 /\ sem' = sem - 1
    /\ \/ nrng_radio' = "rx" /\ caller' = IF blocking THEN "listen" ELSE "idle"
       \/ nrng_radio' = "off" /\ caller' = IF blocking THEN "failed" ELSE "listened"
    /\ UNCHANGED <<instVars, coming, nrngHist>>

\* the second dpl_sem_pend returns
Woken ==
    /\ caller \in {"wait", "listen"} /\ sem > 0 /\ sem' = sem - 1
    /\ caller' = IF caller = "wait" THEN "release" ELSE "listened"
    /\ UNCHANGED <<instVars, nrng_radio, coming, nrngHist>>

\* a blocking listen waits even if it could not start
NrngRelease ==
    /\ caller \in {"release", "listened", "failed"} /\ sem' = sem + 1
    /\ caller' = [release |-> "read", listened |-> "idle", failed |-> "listen"][caller]
    /\ UNCHANGED <<instVars, nrng_radio, coming, nrngHist>>

Ours(f) == f # NotFinal /\ f.seq = seq_num

\* nrng_get_ranges, with the idx of now
FrameOf(i) == frames[At(BitIndex(slot_mask, i))]
Reported == {i \in slot_mask : Ours(FrameOf(i))}

\* survey_request reads the ranges and returns
Read ==
    /\ caller = "read" /\ caller' = "idle" /\ answered' = {} /\ joined' = FALSE
    /\ UNCHANGED <<sem, instVars, nrng_radio, coming>>

-----------------------------------------------------------------------------
(* The nrng_radio and its callbacks *)

\* the request is out; any of the slots asked may answer, none must be heard
RequestSent ==
    /\ nrng_radio = "request" /\ nrng_radio' = "rx"
    /\ coming' = coming \cup {[slot |-> i, pos |-> BitIndex(slot_mask, i),
                               seq |-> seq_num] : i \in slot_mask}
    /\ UNCHANGED <<sem, instVars, caller, nrngHist>>

AnswerSent ==
    /\ nrng_radio = "answer" /\ nrng_radio' = "off"
    /\ UNCHANGED <<sem, instVars, caller, coming, nrngHist>>

\* rx_complete_cb, SS_TWR_NRNG_T1: rejected if the sequence number differs
NrngT1(a) ==
    /\ nrng_radio = "rx" /\ a \in coming /\ coming' = coming \ {a}
    /\ IF sem # 1 /\ a.seq = seq_num
         THEN /\ frames' = [frames EXCEPT ![At(a.pos)] =
                              [slot |-> a.slot, seq |-> a.seq, age |-> 0]]
              /\ answered' = IF Requesting THEN answered \cup {a.slot} ELSE answered
         ELSE UNCHANGED <<frames, answered>>
    /\ UNCHANGED <<sem, nrng_idx, seq_num, slot_mask, caller, nrng_radio, joined>>

\* rx_complete_cb, SS_TWR_NRNG, for a slot of this node: the answer is put into the
\* next entry, and the semaphore is released whoever holds it
ForeignRequest ==
    /\ nrng_radio = "rx" /\ sem # 1
    /\ nrng_idx' = At(1) /\ frames' = [frames EXCEPT ![At(1)] = NotFinal]
    /\ nrng_radio' \in {"answer", "off"} /\ sem' = sem + 1 /\ joined' = Requesting
    /\ UNCHANGED <<seq_num, slot_mask, caller, coming, answered>>

\* rx_timeout_cb, and rx_error_cb in a ranging frame
RxEnds ==
    /\ nrng_radio = "rx" /\ nrng_radio' = "off" /\ sem' = ReleaseIf0
    /\ UNCHANGED <<instVars, caller, coming, nrngHist>>

\* an error in a frame that was not of ranging: nobody is told
RxErrorElse ==
    /\ nrng_radio = "rx" /\ nrng_radio' = "off"
    /\ UNCHANGED <<sem, instVars, caller, coming, nrngHist>>

\* reset_cb: uwb_ccp calls uwb_phy_forcetrxoff
NrngReset ==
    /\ nrng_radio' = "off" /\ sem' = ReleaseIf0
    /\ UNCHANGED <<instVars, caller, coming, nrngHist>>

NrngNext ==
    \/ \E mask \in SUBSET CellSlots : NrngRequest(mask)
    \/ \E b \in BOOLEAN : NrngListen(b)
    \/ NrngStartTx \/ Woken \/ NrngRelease \/ Read
    \/ RequestSent \/ AnswerSent \/ ForeignRequest \/ RxEnds \/ RxErrorElse \/ NrngReset
    \/ \E a \in coming : NrngT1(a)

NrngSpec == NrngInit /\ [][NrngNext]_nrngVars

-----------------------------------------------------------------------------
(* Properties *)

\* What survey_request reads after a request are the slots that answered this
\* request, each with its own frame, however the ring was used before and whatever
\* late answers came.  Two things are excused: a foreign request answered
\* meanwhile moves idx, so that the entries are read one off; and a frame of
\* exactly NrngSeqMod requests ago has the same sequence number.
RangesTrue ==
    caller = "read" /\ ~joined =>
      /\ answered \subseteq Reported
      /\ \A i \in Reported : LET f == FrameOf(i) IN
            f.age < NrngSeqMod => f.age = 0 /\ f.slot = i /\ i \in answered
=============================================================================

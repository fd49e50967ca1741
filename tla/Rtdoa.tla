------------------------------- MODULE Rtdoa -------------------------------
(***************************************************************************)
(* rtdoa, rtdoa_node, rtdoa_tag: one anchor sends a request, every anchor  *)
(* that heard it responds in its own slot, the requester too, and a tag    *)
(* that only listens takes the differences of arrival from what it heard.  *)
(*                                                                         *)
(* Built with RTDOA_MAX_CASCADE_RPTS at its default 0: requests are not    *)
(* relayed.  Clocks are ideal, so that a time is told by the sequence and  *)
(* the frame of it that was sent then, and a conversion to the clock of    *)
(* the master is right if the frame it is based on is a request.           *)
(***************************************************************************)
EXTENDS Integers, FiniteSets

CONSTANTS
    Anchors,        \* nodes that run rtdoa_node
    Requester,      \* the anchor that calls rtdoa_request
    Tag,            \* the node that runs rtdoa_tag
    TagFrames,      \* RTDOA_NFRAMES of the tag
    IdxMod,         \* 2^16: idx is a uint16_t
    MaxSeqs         \* bound: requests made

\* "Number of frames in memory. Should me more than NNODES+1"
ASSUME RtdoaConstants ==
    /\ Requester \in Anchors /\ Tag \notin Anchors /\ IsFiniteSet(Anchors)
    /\ TagFrames \in Nat \ {0} /\ TagFrames > Cardinality(Anchors) + 1
    /\ IdxMod \in Nat \ {0} /\ MaxSeqs \in Nat

VARIABLES
    unit,           \* each node's semaphore, caller of the API, and radio
    got,            \* the frame each node's radio has just received
    code,           \* of each anchor's frames[idx]
    req,            \* the sequence of each anchor's req_frame
    ring, ring_idx, reqAt,  \* the tag's frames, idx and req_frame
    seqs,           \* requests made so far
    strays          \* history: the tag stored a response to another request
                    \*          than the last it heard

rtdoaVars == <<unit, got, code, req, ring, ring_idx, reqAt, seqs, strays>>
anchorVars == <<code, req, seqs>>
tagVars == <<ring, ring_idx, reqAt, strays>>

Units == Anchors \cup {Tag}
Seqs == 0..MaxSeqs
Positions == 0..TagFrames - 1
NoReqFrame == TagFrames         \* req_frame is NULL

\* A frame in the ring, by what it is and which sequence it is of.
Entry == [code : {"invalid", "request", "response"}, seq : Seqs]
Blank == [code |-> "invalid", seq |-> 0]

RtdoaCallers == {"idle", "start", "sending", "error", "listening", "failed", "release"}

RtdoaTypeOK ==
    /\ unit \in [Units -> [sem : 0..2, caller : RtdoaCallers,
                           radio : {"off", "request", "response", "rx"}]]
    /\ got \in [Units -> Entry]
    /\ code \in [Anchors -> {"invalid", "request", "response"}] /\ req \in [Anchors -> Seqs]
    /\ ring \in [Positions -> Entry] /\ ring_idx \in 0..IdxMod - 1
    /\ reqAt \in Positions \cup {NoReqFrame} /\ seqs \in Seqs /\ strays \in BOOLEAN

\* rtdoa_init, rtdoa_set_frames: idx is 0xFFFF
RtdoaInit ==
    /\ unit = [n \in Units |-> [sem |-> 1, caller |-> "idle", radio |-> "off"]]
    /\ got = [n \in Units |-> Blank]
    /\ code = [a \in Anchors |-> "invalid"] /\ req = [a \in Anchors |-> 0]
    /\ ring = [p \in Positions |-> Blank] /\ ring_idx = IdxMod - 1 /\ reqAt = NoReqFrame
    /\ seqs = 0 /\ strays = FALSE

\* os_sem_pend; "release it if its count is zero"
Take(u) == [u EXCEPT !.sem = @ - 1]
Freed(u) == IF u.sem = 0 THEN [u EXCEPT !.sem = 1] ELSE u

Off(u) == [u EXCEPT !.radio = "off"]
Becomes(n, u) == unit' = [unit EXCEPT ![n] = u]

-----------------------------------------------------------------------------
(* The callers of rtdoa_request and rtdoa_listen *)

\* rtdoa_request: the frame at idx becomes the request.  Requests are as far apart
\* as the slots of a sequence take, and nothing else is sent then.
RtdoaRequest ==
    /\ unit[Requester].caller = "idle" /\ unit[Requester].sem > 0 /\ seqs < MaxSeqs
    /\ \A n \in Units : unit[n].radio \notin {"request", "response"} /\ got[n] = Blank
    /\ Becomes(Requester, [Take(unit[Requester]) EXCEPT !.caller = "start"])
    /\ seqs' = seqs + 1
    /\ code' = [code EXCEPT ![Requester] = "request"]
    /\ req' = [req EXCEPT ![Requester] = seqs']
    /\ UNCHANGED <<got, tagVars>>

RequestStart ==
    LET u == unit[Requester] IN
    /\ u.caller = "start"
    /\ \/ Becomes(Requester, [u EXCEPT !.caller = "sending", !.radio = "request"])
       \* start_tx_error, and the look at the semaphore
       \/ Becomes(Requester, [Off(u) EXCEPT
                                !.caller = IF u.sem = 0 THEN "error" ELSE "idle"])
    /\ UNCHANGED <<got, anchorVars, tagVars>>

\* rtdoa_listen.  A start that fails gives the semaphore back without a look
RtdoaListen(n, blocking) ==
    /\ unit[n].caller = "idle" /\ unit[n].sem > 0
    /\ \/ Becomes(n, [Take(unit[n]) EXCEPT !.radio = "rx",
                        !.caller = IF blocking THEN "listening" ELSE "idle"])
       \/ Becomes(n, [Take(Off(unit[n])) EXCEPT
                        !.caller = IF blocking THEN "failed" ELSE "error"])
    /\ UNCHANGED <<got, anchorVars, tagVars>>

\* the second os_sem_pend returns
RtdoaWoken(n) ==
    /\ unit[n].caller \in {"sending", "listening"} /\ unit[n].sem > 0
    /\ Becomes(n, [Take(unit[n]) EXCEPT !.caller = "release"])
    /\ UNCHANGED <<got, anchorVars, tagVars>>

\* a blocking listen waits even if it could not start
RtdoaRelease(n) ==
    /\ unit[n].caller \in {"release", "error", "failed"}
    /\ Becomes(n, [unit[n] EXCEPT !.sem = @ + 1,
                     !.caller = IF @ = "failed" THEN "listening" ELSE "idle"])
    /\ UNCHANGED <<got, anchorVars, tagVars>>

-----------------------------------------------------------------------------
(* The radio and the callbacks *)

Receiving(n) == unit[n].radio = "rx" /\ got[n] = Blank

\* tx_rtdoa_response to req_frame, in the entry after idx; start_tx_error or not
Responds(a) ==
    /\ code' = [code EXCEPT ![a] = "response"]
    /\ \/ Becomes(a, [unit[a] EXCEPT !.radio = "response"])
       \/ Becomes(a, Freed(Off(unit[a])))

\* tx_complete_cb: "If we sent the request or a repeat of the request, send response
\* now", which it tells from frames[idx] whoever has sent what
RtdoaTxComplete(a) ==
    IF code[a] = "request" THEN Responds(a)
                           ELSE Becomes(a, Freed(Off(unit[a]))) /\ UNCHANGED code

\* A frame is out, and the nodes R receive it.  Frames are far enough apart for the
\* one before to have been handled.
RtdoaSent(a, R) ==
    /\ \A n \in Units : got[n] = Blank
    /\ unit[a].radio \in {"request", "response"} /\ \A n \in R : Receiving(n)
    /\ got' = [n \in Units |->
                 IF n \in R THEN [code |-> unit[a].radio, seq |-> req[a]] ELSE got[n]]
    /\ RtdoaTxComplete(a)
    /\ UNCHANGED <<req, seqs, tagVars>>

\* A frame of another service is out, as a beacon of uwb_ccp.
OtherSent(a) ==
    /\ unit[a].radio = "off" /\ unit[a].caller # "start"
    /\ RtdoaTxComplete(a)
    /\ UNCHANGED <<got, req, seqs, tagVars>>

Handled(n) == got[n] # Blank /\ got' = [got EXCEPT ![n] = Blank]

\* rx_complete_cb without a listen or a request, or with a code that is not handled
HearsNothing(n) ==
    /\ Handled(n)
    /\ unit[n].sem = 1 \/ (n # Tag /\ got[n].code = "response")
    /\ UNCHANGED <<unit, anchorVars, tagVars>>

\* rx_complete_cb of an anchor
AnchorHears(a) ==
    /\ Handled(a) /\ unit[a].sem # 1 /\ got[a].code = "request"
    /\ req' = [req EXCEPT ![a] = got[a].seq]
    /\ Responds(a)
    /\ UNCHANGED <<seqs, tagVars>>

\* frames[(++idx)%nframes]: with an IdxMod that TagFrames does not divide, as the
\* default 18 does not divide 2^16, entries follow each other only up to a turn
Last == ring_idx % TagFrames
Stored(e) ==
    /\ ring_idx' = (ring_idx + 1) % IdxMod
    /\ ring' = [ring EXCEPT ![Last'] = e]

\* rx_complete_cb of a tag.  After a request the receiver is started again for the
\* responses; if that fails the semaphore is released.
TagHearsRequest ==
    /\ Handled(Tag) /\ unit[Tag].sem # 1 /\ got[Tag].code = "request"
    /\ Stored(got[Tag]) /\ reqAt' = Last' /\ strays' = FALSE
    /\ \/ UNCHANGED unit
       \/ Becomes(Tag, [Off(unit[Tag]) EXCEPT !.sem = @ + 1])
    /\ UNCHANGED anchorVars

LastHeard == IF reqAt = NoReqFrame THEN 0 ELSE ring[reqAt].seq

TagHearsResponse ==
    /\ Handled(Tag) /\ unit[Tag].sem # 1 /\ got[Tag].code = "response"
    /\ Stored(got[Tag])
    /\ strays' = (strays \/ got[Tag].seq # LastHeard)
    /\ UNCHANGED <<unit, anchorVars, reqAt>>

\* rx_timeout_cb, and rx_error_cb in a ranging frame
RtdoaRxEnds(n) ==
    /\ Receiving(n) /\ Becomes(n, Freed(Off(unit[n])))
    /\ UNCHANGED <<got, anchorVars, tagVars>>

\* an error in a frame that was not of ranging: nobody is told
RtdoaRxErrorElse(n) ==
    /\ Receiving(n) /\ Becomes(n, Off(unit[n]))
    /\ UNCHANGED <<got, anchorVars, tagVars>>

\* reset_cb: uwb_ccp calls uwb_phy_forcetrxoff
RtdoaReset(n) ==
    /\ Becomes(n, Freed(Off(unit[n]))) /\ got' = [got EXCEPT ![n] = Blank]
    /\ UNCHANGED <<anchorVars, tagVars>>

-----------------------------------------------------------------------------
(* Reading the tag's ring *)

\* Mutant: responses of earlier sequences are not told from those to req_frame
UsableAnyTime(p) == reqAt # NoReqFrame /\ ring[p].code = "response"

\* rtdoa_tdoa_between_frames(rtdoa, rtdoa->req_frame, frames[p]) computes something:
\* tx_timestamp is not smaller than that of the request
Usable(p) ==
    /\ reqAt # NoReqFrame /\ ring[p].code = "response"
    /\ ring[p].seq >= ring[reqAt].seq

\* ... and it invalidates the response first
Between(p) ==
    /\ reqAt # NoReqFrame /\ ring[p].code = "response"
    /\ ring' = [ring EXCEPT ![p].code = "invalid"]
    /\ UNCHANGED <<unit, got, anchorVars, ring_idx, reqAt, strays>>

RtdoaNext ==
    \/ RtdoaRequest \/ RequestStart
    \/ \E n \in Units :
         \/ \E b \in BOOLEAN : RtdoaListen(n, b)
         \/ RtdoaWoken(n) \/ RtdoaRelease(n)
         \/ HearsNothing(n) \/ RtdoaRxEnds(n) \/ RtdoaRxErrorElse(n) \/ RtdoaReset(n)
    \/ \E a \in Anchors :
         \/ \E R \in SUBSET Units : RtdoaSent(a, R)
         \/ OtherSent(a) \/ AnchorHears(a)
    \/ TagHearsRequest \/ TagHearsResponse
    \/ \E p \in Positions : Between(p)

RtdoaSpec == RtdoaInit /\ [][RtdoaNext]_rtdoaVars

-----------------------------------------------------------------------------
(* Properties *)

\* The entries of the ring follow each other also when idx comes round.
RingWhole == IdxMod % TagFrames = 0

\* A difference of arrival is computed from a response and the very request it
\* answers, whatever was left in the ring, lost, or reset: the ring is large enough
\* for one sequence, and what is older is told by its time.  It takes a ring that
\* divides the range of idx (RingWhole): in any other the last responses before idx
\* comes round may be written over their request.  Excused are responses
\* of a sequence whose request the tag has missed: they may already have been
\* written over the last request it has.
TdoaTrue ==
    ~strays => \A p \in Positions :
        Usable(p) => ring[reqAt] = [code |-> "request", seq |-> ring[p].seq]
=============================================================================

----------------------------- MODULE TwrSsProofs -----------------------------
(***************************************************************************)
(* Proofs about TwrSs for any number of nodes, requests and frames in the  *)
(* ring.                                                                   *)
(***************************************************************************)
EXTENDS TwrSs, TLAPS

\* No semaphore is raised behind the back of an exchange and no malformed
\* ranging frame is received.
Calm == Disturbances \cap {"reset", "superframe", "broken"} = {}

-----------------------------------------------------------------------------
(* Types *)

LEMMA BlankFrameType == \A n \in Nodes : BlankFrame(n) \in FrameType
  BY RequestsAssumption DEF BlankFrame, FrameType, NoEx, Exchanges, Codes

LEMMA Next1Type == \A i \in Slots : Next1(i) \in Slots
  BY NFramesAssumption DEF Slots, Next1

LEMMA TypeInit == Init => TypeOK
  <1> SUFFICES ASSUME Init PROVE TypeOK
    OBVIOUS
  <1>1. 0 \in Slots /\ NFrames - 1 \in Slots
    BY NFramesAssumption DEF Slots
  <1>2. \A n \in Nodes : NoEx(n) \in Exchanges
    BY RequestsAssumption DEF NoEx, Exchanges
  <1>3. 0 \in 0..MaxRequests
    BY RequestsAssumption
  <1> QED
    BY <1>1, <1>2, <1>3, BlankFrameType
       DEF Init, TypeOK, RngType, TaskType, PhyType, PCs, Holding

\* The parts of an instance may be replaced one by one.
LEMMA RngParts ==
    ASSUME NEW r \in RngType
    PROVE  /\ r.sem \in Nat /\ r.idx \in Slots
           /\ r.code \in Codes \cup {"none"} /\ r.complete_after_tx \in BOOLEAN
           /\ r.frames \in [Slots -> FrameType]
           /\ \A k \in Nat : [r EXCEPT !.sem = k] \in RngType
           /\ \A b \in BOOLEAN : [r EXCEPT !.complete_after_tx = b] \in RngType
           /\ \A c \in Codes \cup {"none"} : [r EXCEPT !.code = c] \in RngType
           /\ \A i \in Slots : [r EXCEPT !.idx = i] \in RngType
           /\ \A f \in [Slots -> FrameType] : [r EXCEPT !.frames = f] \in RngType
  BY DEF RngType

LEMMA RngFrame ==
    ASSUME NEW r \in RngType, NEW i \in Slots, NEW f \in FrameType
    PROVE  [r EXCEPT !.frames[i] = f] \in RngType
  <1>1. r.frames \in [Slots -> FrameType]
    BY RngParts
  <1>2. [r.frames EXCEPT ![i] = f] \in [Slots -> FrameType]
    BY <1>1
  <1>3. [r EXCEPT !.frames = [r.frames EXCEPT ![i] = f]] \in RngType
    BY <1>2, RngParts
  <1> QED
    BY <1>3

LEMMA PhyParts ==
    ASSUME NEW p \in PhyType
    PROVE  /\ p.radio \in {"off", "tx", "rx", "got"} /\ p.buf \in FrameType
           /\ p.txtime \in Exchanges /\ p.ranging \in BOOLEAN
           /\ \A s \in {"off", "tx", "rx", "got"} :
                /\ [p EXCEPT !.radio = s] \in PhyType
                /\ \A b \in BOOLEAN :
                     [p EXCEPT !.radio = s, !.ranging = b] \in PhyType
                /\ \A f \in FrameType :
                     /\ [p EXCEPT !.radio = s, !.buf = f] \in PhyType
                     /\ [p EXCEPT !.radio = s, !.ranging = TRUE, !.buf = f]
                          \in PhyType
                /\ \A e \in Exchanges :
                     [p EXCEPT !.radio = s, !.txtime = e] \in PhyType
  BY DEF PhyType

LEMMA GotoType ==
    ASSUME TypeOK, NEW n \in Nodes, NEW l \in PCs, Goto(n, l)
    PROVE  /\ task' \in [Nodes -> TaskType]
           /\ task'[n].pc = l /\ task'[n].slot = task[n].slot
           /\ \A m \in Nodes \ {n} : task'[m] = task[m]
  BY DEF TypeOK, Goto, TaskType

LEMMA PendType ==
    ASSUME TypeOK, NEW n \in Nodes, Pend(n)
    PROVE  rng' \in [Nodes -> RngType]
  <1>1. rng[n] \in RngType
    BY DEF TypeOK
  <1>2. rng[n].sem - 1 \in Nat
    BY <1>1, RngParts DEF Pend
  <1>3. [rng[n] EXCEPT !.sem = rng[n].sem - 1] \in RngType
    BY <1>1, <1>2, RngParts
  <1> QED
    BY <1>3 DEF TypeOK, Pend

LEMMA RaisedType ==
    ASSUME TypeOK, NEW n \in Nodes
    PROVE  Raised(n) \in Nat
  BY RngParts DEF TypeOK, Raised

\* The task: uwb_rng_request and uwb_rng_listen.
LEMMA TypeTask ==
    ASSUME TypeOK, NEW n \in Nodes, Request(n) \/ Listen(n) \/ Task(n)
    PROVE  TypeOK'
  <1>0. /\ rng[n] \in RngType /\ phy[n] \in PhyType /\ task[n] \in TaskType
        /\ rng[n].sem + 1 \in Nat
    BY RngParts DEF TypeOK
  <1>s. [rng[n] EXCEPT !.sem = rng[n].sem + 1] \in RngType
    BY <1>0, RngParts
  <1>1. CASE Request(n)
    <2>1. [pc |-> "rq_pend", slot |-> Next1(rng[n].idx)] \in TaskType
      BY <1>0, RngParts, Next1Type DEF TaskType, PCs
    <2>2. nreq' \in [Nodes -> 0..MaxRequests]
      BY <1>1, RequestsAssumption DEF TypeOK, Request
    <2> QED
      BY <1>1, <2>1, <2>2 DEF TypeOK, Request
  <1>2. CASE Listen(n)
    BY <1>2, GotoType DEF TypeOK, Listen, PCs, histVars
  <1>3. CASE RqPend(n) \/ RqWait(n) \/ LsPend(n) \/ LsWait(n)
    BY <1>3, GotoType, PendType
       DEF TypeOK, RqPend, RqWait, LsPend, LsWait, PCs, Holding, histVars
  <1>4. CASE RqCount(n)
    BY <1>4, GotoType DEF TypeOK, RqCount, PCs, Holding, histVars
  <1>5. CASE RqRelease(n) \/ LsRelease(n)
    BY <1>5, <1>s, GotoType DEF TypeOK, RqRelease, LsRelease, PCs, histVars
  <1>6. ASSUME NEW b \in BOOLEAN, LsStart(n, b) PROVE TypeOK'
    <2>1. [phy[n] EXCEPT !.radio = "rx"] \in PhyType
      BY <1>0, PhyParts
    <2> QED
      BY <1>6, <1>s, <2>1, GotoType DEF TypeOK, LsStart, PCs, histVars
  <1>7. ASSUME NEW d \in Nodes \ {n}, RqStart(n, d) \/ RqStartError(n, d)
        PROVE  TypeOK'
    <2> DEFINE f == RequestFrame(n, d)
    <2>1. f \in FrameType
      BY RequestsAssumption
         DEF TypeOK, RequestFrame, FrameType, NoEx, Exchanges, Codes
    <2>2. task[n].slot \in Slots
      BY <1>0 DEF TaskType
    <2>3. [rng[n] EXCEPT !.frames[task[n].slot] = f] \in RngType
      BY <1>0, <2>1, <2>2, RngFrame
    <2>4. [rng[n] EXCEPT !.frames[task[n].slot] = f, !.sem = @ + 1] \in RngType
      <3>1. [[rng[n] EXCEPT !.sem = rng[n].sem + 1]
                EXCEPT !.frames[task[n].slot] = f] \in RngType
        BY <1>s, <2>1, <2>2, RngFrame
      <3> QED
        BY <3>1, <1>0 DEF RngType
    <2>5. [phy[n] EXCEPT !.radio = "tx", !.buf = f] \in PhyType
      BY <1>0, <2>1, PhyParts
    <2>6. task' \in [Nodes -> TaskType]
      BY <1>7, GotoType DEF RqStart, RqStartError, PCs
    <2>7. CASE RqStart(n, d)
      <3>1. rng' = [rng EXCEPT ![n] = [rng[n] EXCEPT !.frames[task[n].slot] = f]]
        BY <2>7 DEF RqStart
      <3>2. phy' = [phy EXCEPT ![n] = [phy[n] EXCEPT !.radio = "tx", !.buf = f]]
        BY <2>7 DEF RqStart
      <3>3. UNCHANGED <<nreq, reported, bad, answered>>
        BY <2>7 DEF RqStart
      <3> HIDE DEF f
      <3> QED
        BY <2>3, <2>5, <2>6, <3>1, <3>2, <3>3 DEF TypeOK
    <2>8. CASE RqStartError(n, d)
      <3>1. rng' = [rng EXCEPT ![n] = [rng[n] EXCEPT
                      !.frames[task[n].slot] = f, !.sem = @ + 1]]
        BY <2>8 DEF RqStartError
      <3>2. UNCHANGED <<phy, nreq, reported, bad, answered>>
        BY <2>8 DEF RqStartError
      <3> HIDE DEF f
      <3> QED
        BY <2>4, <2>6, <3>1, <3>2 DEF TypeOK
    <2> QED
      BY <1>7, <2>7, <2>8
  <1> QED
    BY <1>1, <1>2, <1>3, <1>4, <1>5, <1>6, <1>7 DEF Task

LEMMA FrameParts ==
    ASSUME NEW f \in FrameType, NEW n \in Nodes
    PROVE  /\ f.code \in Codes \cup {"none"} /\ f.src \in Nodes
           /\ f.dst \in Nodes /\ f.ex \in Exchanges /\ f.req \in Exchanges
           /\ [f EXCEPT !.code = "T1", !.src = n, !.dst = f.src] \in FrameType
           /\ \A e \in Exchanges :
                /\ [f EXCEPT !.code = "FINAL", !.src = n, !.dst = f.src,
                             !.req = e] \in FrameType
                /\ [f EXCEPT !.code = "T1", !.src = n, !.dst = f.src,
                             !.ex = e] \in FrameType
  BY DEF FrameType, Codes

LEMMA FinalFrameType ==
    ASSUME TypeOK, NEW n \in Nodes
    PROVE  FinalFrame(n) \in FrameType
  <1>1. phy[n].buf \in FrameType /\ phy[n].txtime \in Exchanges
    BY PhyParts DEF TypeOK
  <1> QED
    BY <1>1, FrameParts DEF FinalFrame, Frame

LEMMA TakenType ==
    ASSUME TypeOK, NEW n \in Nodes, NEW f \in FrameType
    PROVE  /\ Taken(n, f) \in RngType /\ Taken(n, f).sem = rng[n].sem
           /\ Taken(n, f).idx = Next1(rng[n].idx)
           /\ Taken(n, f).code = Frame(n).code
           /\ Taken(n, f).complete_after_tx = rng[n].complete_after_tx
           /\ Taken(n, f).frames[Next1(rng[n].idx)] = f
  <1> DEFINE i == Next1(rng[n].idx)
  <1>1. rng[n] \in RngType /\ Frame(n).code \in Codes \cup {"none"}
    BY PhyParts, FrameParts DEF TypeOK, Frame
  <1>2. i \in Slots
    BY <1>1, RngParts, Next1Type
  <1>3. [rng[n] EXCEPT !.frames[i] = f] \in RngType
    BY <1>1, <1>2, RngFrame
  <1> HIDE DEF i
  <1>4. Taken(n, f) = [[[rng[n] EXCEPT !.frames[i] = f]
                          EXCEPT !.code = Frame(n).code] EXCEPT !.idx = i]
    BY <1>1 DEF Taken, i, RngType
  <1>a. [[rng[n] EXCEPT !.frames[i] = f] EXCEPT !.code = Frame(n).code]
           \in RngType
    BY <1>1, <1>3, RngParts
  <1>5. Taken(n, f) \in RngType
    BY <1>2, <1>4, <1>a, RngParts
  <1>6. /\ Taken(n, f).sem = rng[n].sem /\ Taken(n, f).idx = i
        /\ Taken(n, f).code = Frame(n).code
        /\ Taken(n, f).complete_after_tx = rng[n].complete_after_tx
        /\ Taken(n, f).frames = [rng[n].frames EXCEPT ![i] = f]
    BY <1>1, <1>4 DEF RngType
  <1>7. [rng[n].frames EXCEPT ![i] = f][i] = f
    BY <1>1, <1>2, RngParts
  <1> QED
    BY <1>5, <1>6, <1>7 DEF i

LEMMA CompleteType ==
    ASSUME TypeOK, NEW n \in Nodes, NEW fr \in FrameType, NEW f \in FrameType,
           Complete(n, fr, f)
    PROVE  reported' \in [Nodes -> FrameType] /\ bad' \in BOOLEAN
  BY DEF TypeOK, Complete

LEMMA UpdateType ==
    ASSUME TypeOK, NEW n \in Nodes, NEW r \in RngType, NEW p \in PhyType,
           rng' = [rng EXCEPT ![n] = r], phy' = [phy EXCEPT ![n] = p],
           UNCHANGED <<task, nreq>>,
           reported' \in [Nodes -> FrameType], bad' \in BOOLEAN,
           answered' \subseteq Exchanges
    PROVE  TypeOK'
  BY DEF TypeOK

LEMMA PhyFacts ==
    ASSUME TypeOK, NEW n \in Nodes
    PROVE  /\ Frame(n) \in FrameType /\ Silent(n) \in PhyType
           /\ Silent(n).radio = "off" /\ Silent(n).ranging
           /\ Silent(n).buf = Frame(n) /\ Silent(n).txtime = phy[n].txtime
           /\ \A f \in FrameType :
                /\ Sending(n, f) \in PhyType /\ Sending(n, f).radio = "tx"
                /\ Sending(n, f).buf = f /\ Sending(n, f).ranging
                /\ Sending(n, f).txtime = phy[n].txtime
  <1>1. phy[n] \in PhyType
    BY DEF TypeOK
  <1>2. phy[n].buf \in FrameType
    BY <1>1, PhyParts
  <1>3. Silent(n) \in PhyType
    BY <1>1, PhyParts DEF Silent
  <1>4. /\ Silent(n).radio = "off" /\ Silent(n).ranging
        /\ Silent(n).buf = Frame(n) /\ Silent(n).txtime = phy[n].txtime
    BY <1>1 DEF Silent, PhyType, Frame
  <1>5. ASSUME NEW f \in FrameType
        PROVE  /\ Sending(n, f) \in PhyType /\ Sending(n, f).radio = "tx"
               /\ Sending(n, f).buf = f /\ Sending(n, f).ranging
               /\ Sending(n, f).txtime = phy[n].txtime
    <2>1. Sending(n, f) \in PhyType
      BY <1>1, PhyParts DEF Sending
    <2> QED
      BY <1>1, <2>1 DEF PhyType, Sending
  <1> QED
    BY <1>2, <1>3, <1>4, <1>5 DEF Frame

\* The end of a transmission.
LEMMA TypeTxEnd ==
    ASSUME TypeOK, NEW n \in Nodes, NEW R \in SUBSET Nodes, TxEnd(n, R)
    PROVE  TypeOK'
  <1>1. /\ \A m \in Nodes : phy[m] \in PhyType
        /\ phy[n].buf \in FrameType /\ phy[n].buf.ex \in Exchanges
    BY PhyParts, FrameParts DEF TypeOK
  <1>2. phy' \in [Nodes -> PhyType]
    <2>1. \A s \in {"off", "rx"} :
            [phy[n] EXCEPT !.radio = s, !.txtime = phy[n].buf.ex] \in PhyType
      BY <1>1, PhyParts
    <2>2. \A m \in Nodes :
            [phy[m] EXCEPT !.radio = "got", !.buf = phy[n].buf] \in PhyType
      BY <1>1, PhyParts
    <2> QED
      BY <1>1, <2>1, <2>2 DEF TxEnd
  <1>3. rng[n] \in RngType
    BY DEF TypeOK
  <1>4. CASE CompletesAfterTx(n)
    <2>1. rng[n].sem + 1 \in Nat
      BY <1>3, RngParts
    <2>2. [rng[n] EXCEPT !.sem = rng[n].sem + 1, !.complete_after_tx = FALSE]
             \in RngType
      BY <1>3, <2>1 DEF RngType
    <2>3. rng' \in [Nodes -> RngType]
      BY <1>4, <2>2 DEF TypeOK, TxEnd
    <2>4. rng[n].frames[rng[n].idx] \in FrameType
      BY <1>3, RngParts
    <2>5. reported' \in [Nodes -> FrameType] /\ bad' \in BOOLEAN
      BY <1>1, <1>4, <2>4, CompleteType DEF TxEnd
    <2> QED
      BY <1>2, <2>3, <2>5 DEF TypeOK, TxEnd
  <1>5. CASE ~CompletesAfterTx(n)
    BY <1>2, <1>5 DEF TypeOK, TxEnd
  <1> QED
    BY <1>4, <1>5

\* A frame of another node was received.
LEMMA TypeRx ==
    ASSUME TypeOK, NEW n \in Nodes,
           \/ RxUnsolicited(n) \/ RxOtherAddress(n) \/ RxRequest(n)
           \/ RxResponse(n) \/ RxResponseError(n) \/ RxFinal(n) \/ RxBroken(n)
    PROVE  TypeOK'
  <1>0. /\ rng[n] \in RngType /\ rng[n].sem \in Nat /\ phy[n] \in PhyType
        /\ Frame(n) \in FrameType /\ Silent(n) \in PhyType
        /\ Frame(n).ex \in Exchanges
        /\ \A f \in FrameType : Sending(n, f) \in PhyType
    BY RngParts, PhyFacts, FrameParts DEF TypeOK
  <1>1. FinalFrame(n) \in FrameType
    BY FinalFrameType
  <1>2. \A f \in FrameType :
          /\ Taken(n, f) \in RngType
          /\ [Taken(n, f) EXCEPT !.sem = @ + 1] \in RngType
          /\ [Taken(n, f) EXCEPT !.complete_after_tx = TRUE] \in RngType
    <2> TAKE f \in FrameType
    <2>1. Taken(n, f) \in RngType
      BY TakenType
    <2> DEFINE t == Taken(n, f)
    <2>2. t \in RngType /\ t.sem + 1 \in Nat
      BY <2>1, RngParts
    <2> HIDE DEF t
    <2>3. /\ [t EXCEPT !.sem = t.sem + 1] \in RngType
          /\ [t EXCEPT !.complete_after_tx = TRUE] \in RngType
      BY <2>2, RngParts
    <2> QED
      BY <2>2, <2>3 DEF t
  <1>3. [reported EXCEPT ![n] = BlankFrame(n)] \in [Nodes -> FrameType]
    BY BlankFrameType DEF TypeOK
  <1>4. answered \cup {Frame(n).ex} \subseteq Exchanges
    BY <1>0 DEF TypeOK
  <1>5. reported \in [Nodes -> FrameType] /\ bad \in BOOLEAN
        /\ answered \subseteq Exchanges
    BY DEF TypeOK
  <1>6. CASE RxUnsolicited(n)
    BY <1>0, <1>6 DEF RxUnsolicited, TypeOK, histVars
  <1>7. CASE RxOtherAddress(n)
    <2> DEFINE i == Next1(rng[n].idx)
               r == [rng[n] EXCEPT !.code = Frame(n).code, !.sem = Raised(n),
                                   !.frames[i] = Frame(n)]
    <2>1. i \in Slots
      BY <1>0, RngParts, Next1Type
    <2>2. [rng[n] EXCEPT !.frames[i] = Frame(n)] \in RngType
      BY <1>0, <2>1, RngFrame
    <2>3. Frame(n).code \in Codes \cup {"none"} /\ Raised(n) \in Nat
      BY <1>0, FrameParts, RaisedType
    <2>4. r \in RngType
      <3> DEFINE q == [rng[n] EXCEPT !.frames[i] = Frame(n)]
                 c == Frame(n).code
                 k == Raised(n)
      <3>1. r = [q EXCEPT !.code = c, !.sem = k]
        BY <1>0 DEF RngType
      <3> HIDE DEF q, c, k
      <3>2. [q EXCEPT !.code = c, !.sem = k] \in RngType
        BY <2>2, <2>3 DEF RngType, q, c, k
      <3> QED
        BY <3>1, <3>2
    <2>5. rng' = [rng EXCEPT ![n] = r]
      BY <1>7 DEF RxOtherAddress
    <2>6. phy' = [phy EXCEPT ![n] = Silent(n)] /\ UNCHANGED <<task, histVars>>
      BY <1>7 DEF RxOtherAddress
    <2> HIDE DEF r
    <2> QED
      BY <1>0, <1>5, <2>4, <2>5, <2>6, UpdateType DEF histVars
  <1>8. CASE RxRequest(n)
    <2> DEFINE t1 == [Frame(n) EXCEPT !.code = "T1", !.src = n,
                                      !.dst = Frame(n).src]
    <2>1. t1 \in FrameType
      BY <1>0, FrameParts
    <2>2. \/ /\ rng' = [rng EXCEPT ![n] = Taken(n, t1)]
             /\ phy' = [phy EXCEPT ![n] = Sending(n, t1)]
          \/ /\ rng' = [rng EXCEPT ![n] = [Taken(n, t1) EXCEPT !.sem = @ + 1]]
             /\ phy' = [phy EXCEPT ![n] = Silent(n)]
      BY <1>8 DEF RxRequest
    <2>3. /\ reported' = [reported EXCEPT ![n] = BlankFrame(n)]
          /\ UNCHANGED <<task, nreq, bad, answered>>
      BY <1>8 DEF RxRequest
    <2> HIDE DEF t1
    <2> QED
      BY <1>0, <1>2, <1>3, <1>5, <2>1, <2>2, <2>3, UpdateType
  <1>9. CASE RxResponse(n)
    BY <1>0, <1>1, <1>2, <1>3, <1>4, <1>5, <1>9, UpdateType DEF RxResponse
  <1>10. CASE RxResponseError(n)
    <2>1. reported' \in [Nodes -> FrameType] /\ bad' \in BOOLEAN
      BY <1>1, <1>10, CompleteType DEF RxResponseError
    <2> QED
      BY <1>0, <1>1, <1>2, <1>4, <1>10, <2>1, UpdateType DEF RxResponseError
  <1>11. CASE RxFinal(n)
    <2>1. reported' \in [Nodes -> FrameType] /\ bad' \in BOOLEAN
      BY <1>0, <1>11, CompleteType DEF RxFinal
    <2> QED
      BY <1>0, <1>2, <1>5, <1>11, <2>1, UpdateType DEF RxFinal
  <1>12. CASE RxBroken(n)
    BY <1>0, <1>2, <1>3, <1>5, <1>12, UpdateType DEF RxBroken
  <1> QED
    BY <1>6, <1>7, <1>8, <1>9, <1>10, <1>11, <1>12

\* Time-outs, resets and the frames nobody asked for.
LEMMA TypeOther ==
    ASSUME TypeOK, NEW n \in Nodes,
           RxAck(n) \/ RxForeign(n) \/ RxTimeout(n) \/ Reset(n)
             \/ SuperframeReset(n)
    PROVE  TypeOK'
  <1>1. /\ rng[n] \in RngType /\ phy[n] \in PhyType /\ Raised(n) \in Nat
    BY RaisedType DEF TypeOK
  <1>2. /\ [rng[n] EXCEPT !.sem = Raised(n)] \in RngType
        /\ [phy[n] EXCEPT !.radio = "off"] \in PhyType
        /\ [phy[n] EXCEPT !.radio = "off", !.ranging = FALSE] \in PhyType
    BY <1>1, RngParts, PhyParts
  <1> QED
    BY <1>2 DEF TypeOK, RxAck, RxForeign, RxTimeout, Reset, SuperframeReset,
                histVars

LEMMA TypeMisfit ==
    ASSUME TypeOK, NEW n \in Nodes, NEW c \in Codes \cup {rng[n].code},
           RxMisfit(n, c)
    PROVE  TypeOK'
  <1> DEFINE i == rng[n].idx
             f == rng[n].frames[i]
             t1 == [f EXCEPT !.code = "T1", !.src = n, !.dst = f.src,
                             !.ex = NoEx(n)]
             a == [rng[n] EXCEPT !.code = c, !.frames[i] = t1]
  <1>1. /\ rng[n] \in RngType /\ i \in Slots /\ f \in FrameType
        /\ c \in Codes \cup {"none"} /\ NoEx(n) \in Exchanges
    BY RngParts, RequestsAssumption DEF TypeOK, NoEx, Exchanges
  <1>2. t1 \in FrameType
    BY <1>1, FrameParts
  <1>3. [rng[n] EXCEPT !.code = c] \in RngType
    BY <1>1, RngParts
  <1>4. a \in RngType /\ [a EXCEPT !.sem = @ + 1] \in RngType
    <2> HIDE DEF t1
    <2>1. [[rng[n] EXCEPT !.code = c] EXCEPT !.frames[i] = t1] \in RngType
      BY <1>1, <1>2, <1>3, RngFrame
    <2>2. a \in RngType
      BY <2>1, <1>1 DEF RngType
    <2> HIDE DEF a
    <2>3. a.sem + 1 \in Nat
      BY <2>2, RngParts
    <2>4. [a EXCEPT !.sem = a.sem + 1] \in RngType
      BY <2>2, <2>3, RngParts
    <2> QED
      BY <2>2, <2>4
  <1>5. Silent(n) \in PhyType /\ Sending(n, t1) \in PhyType
    BY <1>2, PhyFacts
  <1>6. /\ UNCHANGED <<task, nreq, reported, bad, answered>>
        /\ \/ rng' = rng
           \/ rng' = [rng EXCEPT ![n].code = c]
           \/ rng' = [rng EXCEPT ![n] = a]
           \/ rng' = [rng EXCEPT ![n] = [a EXCEPT !.sem = @ + 1]]
        /\ \/ phy' = [phy EXCEPT ![n] = Silent(n)]
           \/ phy' = [phy EXCEPT ![n] = Sending(n, t1)]
    BY DEF RxMisfit, histVars
  <1> HIDE DEF a, t1
  <1> QED
    BY <1>3, <1>4, <1>5, <1>6 DEF TypeOK

\* Every variable keeps its type: the index into the ring of frames stays
\* inside it and no semaphore is ever taken below zero, whatever the
\* disturbances.
THEOREM TwrTypeCorrect == Spec => []TypeOK
  <1>1. TypeOK /\ [Next]_vars => TypeOK'
    <2> SUFFICES ASSUME TypeOK, [Next]_vars PROVE TypeOK'
      OBVIOUS
    <2>1. CASE UNCHANGED vars
      BY <2>1 DEF vars, TypeOK
    <2>2. CASE Next
      BY <2>2, TypeTask, TypeTxEnd, TypeRx, TypeOther, TypeMisfit DEF Next, Irq
    <2> QED
      BY <2>1, <2>2
  <1> QED
    BY <1>1, TypeInit, PTL DEF Spec

-----------------------------------------------------------------------------
(* Exchanges that are not disturbed *)

\* One token per node (TokenOK); the flag complete_after_tx is set exactly
\* while a final frame is sent, and that frame is the one in the ring; a frame
\* that was received for this node belongs to the exchange the node is in,
\* and a final frame has the times of one exchange.
NodeInv(n) ==
    /\ \/ rng[n].sem = 1 /\ phy[n].radio = "off" /\ task[n].pc \notin Holding
       \/ rng[n].sem = 0 /\ phy[n].radio = "off" /\ task[n].pc \in Holding
       \/ rng[n].sem = 0 /\ phy[n].radio # "off" /\ task[n].pc \notin Holding
    /\ rng[n].complete_after_tx
         => phy[n].radio = "tx" /\ phy[n].buf.code = "FINAL"
    /\ phy[n].radio = "tx" /\ phy[n].buf.code = "FINAL"
         => /\ rng[n].complete_after_tx /\ rng[n].code \in Codes
            /\ phy[n].ranging /\ rng[n].frames[rng[n].idx] = phy[n].buf
    /\ phy[n].buf.code = "FINAL" => phy[n].buf.req = phy[n].buf.ex
    /\ phy[n].radio = "got" /\ phy[n].buf.code # "SS" /\ phy[n].buf.dst = n
         => phy[n].txtime = phy[n].buf.ex

CalmInv == (\A n \in Nodes : NodeInv(n)) /\ ~bad

\* A node that is left alone keeps its part of the invariant.
LEMMA NodeKept ==
    ASSUME NEW m \in Nodes, NodeInv(m),
           rng'[m] = rng[m], phy'[m] = phy[m], task'[m] = task[m]
    PROVE  NodeInv(m)'
  BY DEF NodeInv

LEMMA CalmInit == Init => CalmInv
  <1> SUFFICES ASSUME Init PROVE CalmInv
    OBVIOUS
  <1>1. ASSUME NEW n \in Nodes PROVE NodeInv(n)
    BY <1>1 DEF Init, NodeInv, BlankFrame, Holding
  <1> QED
    BY <1>1 DEF CalmInv, Init

LEMMA CalmTask ==
    ASSUME TypeOK, CalmInv, NEW n \in Nodes, Request(n) \/ Listen(n) \/ Task(n)
    PROVE  CalmInv'
  <1>0. /\ rng[n] \in RngType /\ phy[n] \in PhyType /\ task[n] \in TaskType
        /\ NodeInv(n)
    BY DEF TypeOK, CalmInv
  <1>1. ASSUME NEW m \in Nodes, m # n
        PROVE  rng'[m] = rng[m] /\ phy'[m] = phy[m] /\ task'[m] = task[m]
    <2> USE <1>1 DEF TypeOK
    <2>1. CASE Request(n)  BY <2>1 DEF Request
    <2>2. CASE Listen(n)  BY <2>2 DEF Listen, Goto
    <2>3. CASE RqPend(n) \/ RqWait(n) \/ LsPend(n) \/ LsWait(n)
      BY <2>3 DEF RqPend, RqWait, LsPend, LsWait, Pend, Goto
    <2>4. CASE RqCount(n) \/ RqRelease(n) \/ LsRelease(n)
      BY <2>4 DEF RqCount, RqRelease, LsRelease, Goto
    <2>5. ASSUME NEW b \in BOOLEAN, LsStart(n, b)
          PROVE  rng'[m] = rng[m] /\ phy'[m] = phy[m] /\ task'[m] = task[m]
      BY <2>5 DEF LsStart, Goto
    <2>6. ASSUME NEW d \in Nodes \ {n}, RqStart(n, d) \/ RqStartError(n, d)
          PROVE  rng'[m] = rng[m] /\ phy'[m] = phy[m] /\ task'[m] = task[m]
      BY <2>6 DEF RqStart, RqStartError, Goto
    <2> QED
      BY <2>1, <2>2, <2>3, <2>4, <2>5, <2>6 DEF Task
  <1>2. NodeInv(n)'
    <2> USE <1>0 DEF TypeOK
    <2>1. CASE Request(n)
      <3>1. task'[n].pc = "rq_pend" /\ task[n].pc = "idle"
        BY <2>1 DEF Request
      <3> QED
        BY <2>1, <3>1 DEF Request, NodeInv, Holding
    <2>2. CASE Listen(n)
      <3>1. task'[n].pc = "ls_pend" /\ task[n].pc = "idle"
        BY <2>2, GotoType DEF Listen, PCs
      <3> QED
        BY <2>2, <3>1 DEF Listen, NodeInv, Holding
    <2>3. CASE RqPend(n) \/ RqWait(n) \/ LsPend(n) \/ LsWait(n)
      <3>1. task[n].pc \notin Holding /\ task'[n].pc \in Holding
        BY <2>3, GotoType DEF RqPend, RqWait, LsPend, LsWait, PCs, Holding
      <3>2. /\ rng[n].sem > 0 /\ rng'[n].sem = rng[n].sem - 1
            /\ rng'[n].complete_after_tx = rng[n].complete_after_tx
            /\ rng'[n].frames = rng[n].frames /\ rng'[n].idx = rng[n].idx
            /\ rng'[n].code = rng[n].code /\ phy' = phy
        BY <2>3 DEF RqPend, RqWait, LsPend, LsWait, Pend, RngType
      <3> QED
        BY <3>1, <3>2 DEF NodeInv
    <2>4. CASE RqCount(n)
      <3>1. rng[n].sem = 0 /\ phy[n].radio = "off"
        BY <2>4 DEF RqCount, NodeInv, Holding
      <3>2. task'[n].pc = "rq_seen"
        BY <2>4, <3>1, GotoType DEF RqCount, PCs, Holding
      <3> QED
        BY <2>4, <3>1, <3>2 DEF RqCount, NodeInv, Holding
    <2>5. CASE RqRelease(n) \/ LsRelease(n)
      <3>1. task[n].pc \in Holding /\ task'[n].pc = "idle"
        BY <2>5, GotoType DEF RqRelease, LsRelease, PCs, Holding
      <3>2. /\ rng'[n].sem = rng[n].sem + 1
            /\ rng'[n].complete_after_tx = rng[n].complete_after_tx
            /\ rng'[n].frames = rng[n].frames /\ rng'[n].idx = rng[n].idx
            /\ rng'[n].code = rng[n].code /\ phy' = phy
        BY <2>5 DEF RqRelease, LsRelease, RngType
      <3> QED
        BY <3>1, <3>2 DEF NodeInv, Holding
    <2>6. ASSUME NEW b \in BOOLEAN, LsStart(n, b) PROVE NodeInv(n)'
      <3>1. task[n].pc \in Holding /\ task'[n].pc \notin Holding
        BY <2>6, GotoType DEF LsStart, PCs, Holding
      <3>2. CASE phy' = [phy EXCEPT ![n].radio = "rx"] /\ UNCHANGED rng
        <4>1. /\ phy'[n].radio = "rx" /\ phy'[n].buf = phy[n].buf
              /\ phy'[n].ranging = phy[n].ranging
          BY <3>2 DEF PhyType
        <4> QED
          BY <3>1, <3>2, <4>1 DEF NodeInv
      <3>3. CASE rng' = [rng EXCEPT ![n].sem = @ + 1] /\ UNCHANGED phy
        <4>1. /\ rng'[n].sem = rng[n].sem + 1
              /\ rng'[n].complete_after_tx = rng[n].complete_after_tx
          BY <3>3 DEF RngType
        <4> QED
          BY <3>1, <3>3, <4>1 DEF NodeInv
      <3> QED
        BY <2>6, <3>2, <3>3 DEF LsStart
    <2>7. ASSUME NEW d \in Nodes \ {n}, RqStart(n, d) \/ RqStartError(n, d)
          PROVE  NodeInv(n)'
      <3>1. task[n].pc \in Holding /\ task'[n].pc \notin Holding
        BY <2>7, GotoType DEF RqStart, RqStartError, PCs, Holding
      <3>2. CASE RqStart(n, d)
        <4>1. /\ phy'[n].radio = "tx" /\ phy'[n].buf = RequestFrame(n, d)
              /\ rng'[n].sem = rng[n].sem
              /\ rng'[n].complete_after_tx = rng[n].complete_after_tx
          BY <3>2 DEF RqStart, PhyType, RngType
        <4>2. RequestFrame(n, d).code = "SS"
          BY DEF RequestFrame
        <4> QED
          BY <3>1, <4>1, <4>2 DEF NodeInv
      <3>3. CASE RqStartError(n, d)
        <4>1. /\ phy' = phy /\ rng'[n].sem = rng[n].sem + 1
              /\ rng'[n].complete_after_tx = rng[n].complete_after_tx
          BY <3>3 DEF RqStartError, RngType
        <4> QED
          BY <3>1, <4>1 DEF NodeInv
      <3> QED
        BY <2>7, <3>2, <3>3
    <2> QED
      BY <2>1, <2>2, <2>3, <2>4, <2>5, <2>6, <2>7 DEF Task
  <1>3. bad' = bad
    BY DEF Request, Listen, Task, RqPend, RqWait, RqCount, RqRelease, RqStart,
           RqStartError, LsPend, LsStart, LsWait, LsRelease, histVars
  <1> QED
    BY <1>1, <1>2, <1>3, NodeKept DEF CalmInv

LEMMA CalmTxEnd ==
    ASSUME TypeOK, CalmInv, NEW n \in Nodes, NEW R \in SUBSET Nodes, TxEnd(n, R)
    PROVE  CalmInv'
  <1>0. /\ \A m \in Nodes : /\ rng[m] \in RngType /\ phy[m] \in PhyType
                            /\ NodeInv(m)
        /\ n \notin R /\ phy[n].radio = "tx" /\ task' = task
    BY DEF TypeOK, CalmInv, TxEnd
  <1>1. /\ phy'[n].radio = IF phy[n].buf.code = "FINAL" THEN "off" ELSE "rx"
        /\ phy'[n].buf = phy[n].buf
    BY <1>0 DEF TxEnd, PhyType
  <1>2. /\ rng[n].sem = 0 /\ task[n].pc \notin Holding
        /\ CompletesAfterTx(n) <=> phy[n].buf.code = "FINAL"
        /\ rng[n].complete_after_tx <=> phy[n].buf.code = "FINAL"
    BY <1>0 DEF NodeInv, CompletesAfterTx
  <1>3. NodeInv(n)' /\ ~bad'
    <2>1. CASE CompletesAfterTx(n)
      <3>1. rng'[n].sem = 1 /\ rng'[n].complete_after_tx = FALSE
        <4>1. rng' = [rng EXCEPT ![n].sem = @ + 1,
                                 ![n].complete_after_tx = FALSE]
          BY <2>1 DEF TxEnd
        <4>2. rng'[n] = [rng[n] EXCEPT !.sem = @ + 1,
                                       !.complete_after_tx = FALSE]
          BY <4>1 DEF TypeOK
        <4> QED
          BY <1>0, <1>2, <4>2 DEF RngType
      <3>2. /\ rng[n].frames[rng[n].idx] = phy[n].buf
            /\ phy[n].buf.code = "FINAL" /\ phy[n].buf.req = phy[n].buf.ex
        BY <1>0, <1>2, <2>1 DEF NodeInv
      <3>3. Complete(n, rng[n].frames[rng[n].idx], phy[n].buf)
        BY <2>1 DEF TxEnd
      <3>4. ~bad'
        BY <3>2, <3>3 DEF Complete, CalmInv
      <3>5. phy'[n].radio = "off"
        BY <1>1, <3>2
      <3>6. NodeInv(n)'
        BY <1>0, <1>1, <1>2, <3>1, <3>2, <3>5 DEF NodeInv
      <3> QED
        BY <3>4, <3>6
    <2>2. CASE ~CompletesAfterTx(n)
      <3>1. UNCHANGED <<rng, bad>>
        BY <2>2 DEF TxEnd
      <3>2. phy'[n].radio = "rx" /\ phy[n].buf.code # "FINAL"
        BY <1>1, <1>2, <2>2
      <3> QED
        BY <1>0, <1>1, <1>2, <3>1, <3>2 DEF NodeInv, CalmInv
    <2> QED
      BY <2>1, <2>2
  <1>4. ASSUME NEW m \in Nodes, m # n PROVE NodeInv(m)'
    <2>1. rng'[m] = rng[m]
      BY <1>4 DEF TypeOK, TxEnd
    <2>2. CASE m \in R
      <3>1. /\ phy'[m].radio = "got" /\ phy'[m].buf = phy[n].buf
            /\ phy'[m].txtime = phy[m].txtime
        BY <1>0, <1>4, <2>2 DEF TxEnd, PhyType
      <3>2. Hears(m, phy[n].buf)
        BY <2>2 DEF TxEnd
      <3>3. phy[n].buf.code = "FINAL" => phy[n].buf.req = phy[n].buf.ex
        BY <1>0 DEF NodeInv
      <3> QED
        BY <1>0, <2>1, <3>1, <3>2, <3>3 DEF NodeInv, Hears
    <2>3. CASE m \notin R
      BY <1>0, <1>4, <2>1, <2>3, NodeKept DEF TxEnd
    <2> QED
      BY <2>2, <2>3
  <1> QED
    BY <1>3, <1>4 DEF CalmInv

LEMMA CalmRx ==
    ASSUME TypeOK, CalmInv, NEW n \in Nodes,
           \/ RxUnsolicited(n) \/ RxOtherAddress(n) \/ RxRequest(n)
           \/ RxResponse(n) \/ RxResponseError(n) \/ RxFinal(n)
    PROVE  CalmInv'
  <1>0. /\ rng[n] \in RngType /\ phy[n] \in PhyType /\ NodeInv(n) /\ ~bad
        /\ Frame(n) \in FrameType /\ FinalFrame(n) \in FrameType
    BY PhyFacts, FinalFrameType DEF TypeOK, CalmInv
  <1>1. ASSUME NEW m \in Nodes, m # n
        PROVE  rng'[m] = rng[m] /\ phy'[m] = phy[m] /\ task'[m] = task[m]
    BY <1>1 DEF TypeOK, RxUnsolicited, RxOtherAddress, RxRequest, RxResponse,
                RxResponseError, RxFinal
  <1>2. /\ phy[n].radio = "got" /\ rng[n].sem = 0 /\ Solicited(n)
        /\ task[n].pc \notin Holding /\ ~rng[n].complete_after_tx
    BY <1>0 DEF NodeInv, Solicited, Received, ForMe, RxUnsolicited,
                RxOtherAddress, RxRequest, RxResponse, RxResponseError, RxFinal
  <1>3. /\ Silent(n).radio = "off" /\ Silent(n).buf = Frame(n)
        /\ Frame(n) = phy[n].buf
        /\ \A f \in FrameType :
             /\ Sending(n, f).radio = "tx" /\ Sending(n, f).buf = f
             /\ Sending(n, f).ranging
    BY PhyFacts DEF Frame
  \* the exchange is over
  <1>4. ASSUME phy'[n] = Silent(n), rng'[n].sem = 1,
               rng'[n].complete_after_tx = rng[n].complete_after_tx, task' = task
        PROVE  NodeInv(n)'
    BY <1>0, <1>2, <1>3, <1>4 DEF NodeInv
  <1>5. ASSUME NEW f \in FrameType
        PROVE  /\ [Taken(n, f) EXCEPT !.sem = @ + 1].sem = 1
               /\ [Taken(n, f) EXCEPT !.sem = @ + 1].complete_after_tx
                    = rng[n].complete_after_tx
               /\ [Taken(n, f) EXCEPT !.complete_after_tx = TRUE].sem = 0
               /\ [Taken(n, f) EXCEPT !.complete_after_tx = TRUE].complete_after_tx
               /\ [Taken(n, f) EXCEPT !.complete_after_tx = TRUE].code
                    = Frame(n).code
               /\ [Taken(n, f) EXCEPT !.complete_after_tx = TRUE].idx
                    = Next1(rng[n].idx)
               /\ [Taken(n, f) EXCEPT !.complete_after_tx = TRUE]
                    .frames[Next1(rng[n].idx)] = f
    <2> DEFINE t == Taken(n, f)
    <2>1. /\ t \in RngType /\ t.sem = 0
          /\ t.complete_after_tx = rng[n].complete_after_tx
          /\ t.code = Frame(n).code /\ t.idx = Next1(rng[n].idx)
          /\ t.frames[Next1(rng[n].idx)] = f
      BY <1>2, TakenType
    <2> HIDE DEF t
    <2>2. /\ [t EXCEPT !.sem = @ + 1].sem = t.sem + 1
          /\ [t EXCEPT !.sem = @ + 1].complete_after_tx = t.complete_after_tx
          /\ [t EXCEPT !.complete_after_tx = TRUE].sem = t.sem
          /\ [t EXCEPT !.complete_after_tx = TRUE].complete_after_tx
          /\ [t EXCEPT !.complete_after_tx = TRUE].code = t.code
          /\ [t EXCEPT !.complete_after_tx = TRUE].idx = t.idx
          /\ [t EXCEPT !.complete_after_tx = TRUE].frames = t.frames
      BY <2>1 DEF RngType
    <2> QED
      BY <2>1, <2>2 DEF t
  <1>6. FinalFrame(n).code = "FINAL" /\ FinalFrame(n).ex = Frame(n).ex
        /\ FinalFrame(n).req = phy[n].txtime
    BY <1>0 DEF FinalFrame, FrameType
  <1>7. ForMe(n, "T1") => phy[n].txtime = Frame(n).ex
    BY <1>0, <1>2, <1>3 DEF NodeInv, ForMe
  <1>8. NodeInv(n)' /\ ~bad'
    <2>1. CASE RxUnsolicited(n)
      BY <1>2, <2>1 DEF RxUnsolicited
    <2>2. CASE RxOtherAddress(n)
      <3>1. phy'[n] = Silent(n) /\ task' = task /\ bad' = bad
        BY <2>2 DEF RxOtherAddress, TypeOK, histVars
      <3>2. /\ rng'[n].sem = Raised(n)
            /\ rng'[n].complete_after_tx = rng[n].complete_after_tx
        BY <1>0, <2>2 DEF RxOtherAddress, TypeOK, RngType
      <3> QED
        BY <1>0, <1>2, <1>4, <3>1, <3>2 DEF Raised
    <2>3. CASE RxRequest(n)
      <3> DEFINE t1 == [Frame(n) EXCEPT !.code = "T1", !.src = n,
                                        !.dst = Frame(n).src]
      <3>1. t1 \in FrameType /\ t1.code = "T1"
        BY <1>0, FrameParts DEF FrameType
      <3>2. \/ rng'[n] = Taken(n, t1) /\ phy'[n] = Sending(n, t1)
            \/ /\ rng'[n] = [Taken(n, t1) EXCEPT !.sem = @ + 1]
               /\ phy'[n] = Silent(n)
        BY <2>3 DEF RxRequest, TypeOK
      <3>3. task' = task /\ bad' = bad
        BY <2>3 DEF RxRequest
      <3> HIDE DEF t1
      <3>4. /\ Taken(n, t1).sem = 0 /\ ~Taken(n, t1).complete_after_tx
        BY <1>2, <3>1, TakenType
      <3>5. CASE rng'[n] = Taken(n, t1) /\ phy'[n] = Sending(n, t1)
        BY <1>0, <1>2, <1>3, <3>1, <3>3, <3>4, <3>5 DEF NodeInv
      <3>6. CASE /\ rng'[n] = [Taken(n, t1) EXCEPT !.sem = @ + 1]
                 /\ phy'[n] = Silent(n)
        BY <1>0, <1>4, <1>5, <3>1, <3>3, <3>6
      <3> QED
        BY <3>2, <3>5, <3>6
    <2>4. CASE RxResponse(n)
      <3>1. /\ rng'[n] = [Taken(n, FinalFrame(n)) EXCEPT
                            !.complete_after_tx = TRUE]
            /\ phy'[n] = Sending(n, FinalFrame(n))
            /\ task' = task /\ bad' = bad /\ ForMe(n, "T1")
        BY <2>4 DEF RxResponse, TypeOK
      <3>2. Frame(n).code \in Codes
        BY <3>1 DEF ForMe, Codes
      <3>3. /\ rng'[n].sem = 0 /\ rng'[n].complete_after_tx
            /\ rng'[n].code \in Codes
            /\ rng'[n].frames[rng'[n].idx] = FinalFrame(n)
        BY <1>0, <1>5, <3>1, <3>2
      <3>4. /\ phy'[n].radio = "tx" /\ phy'[n].buf = FinalFrame(n)
            /\ phy'[n].ranging
        BY <1>0, <1>3, <3>1
      <3> QED
        BY <1>0, <1>2, <1>6, <1>7, <3>1, <3>3, <3>4 DEF NodeInv
    <2>5. CASE RxResponseError(n)
      <3>1. /\ rng'[n] = [Taken(n, FinalFrame(n)) EXCEPT !.sem = @ + 1]
            /\ phy'[n] = Silent(n) /\ task' = task /\ ForMe(n, "T1")
            /\ Complete(n, FinalFrame(n), FinalFrame(n))
        BY <2>5 DEF RxResponseError, TypeOK
      <3>2. ~bad'
        BY <1>0, <1>6, <1>7, <3>1 DEF Complete
      <3> QED
        BY <1>0, <1>4, <1>5, <3>1, <3>2
    <2>6. CASE RxFinal(n)
      <3>1. /\ rng'[n] = [Taken(n, Frame(n)) EXCEPT !.sem = @ + 1]
            /\ phy'[n] = Silent(n) /\ task' = task /\ Frame(n).code = "FINAL"
            /\ Complete(n, Frame(n), Frame(n))
        BY <2>6 DEF RxFinal, ForMe, TypeOK
      <3>2. Frame(n).req = Frame(n).ex
        BY <1>0, <1>3, <3>1 DEF NodeInv
      <3>3. ~bad'
        BY <1>0, <3>1, <3>2 DEF Complete
      <3> QED
        BY <1>0, <1>4, <1>5, <3>1, <3>3
    <2> QED
      BY <2>1, <2>2, <2>3, <2>4, <2>5, <2>6
  <1> QED
    BY <1>1, <1>8, NodeKept DEF CalmInv

LEMMA CalmOther ==
    ASSUME TypeOK, CalmInv, NEW n \in Nodes, RxForeign(n) \/ RxTimeout(n)
    PROVE  CalmInv'
  <1>0. rng[n] \in RngType /\ phy[n] \in PhyType /\ NodeInv(n)
    BY DEF TypeOK, CalmInv
  <1>1. /\ phy[n].radio = "rx" /\ phy'[n].radio = "off"
        /\ phy'[n].buf = phy[n].buf /\ task' = task /\ bad' = bad
    BY <1>0 DEF RxForeign, RxTimeout, TypeOK, PhyType, histVars
  <1>2. /\ rng'[n].sem = Raised(n)
        /\ rng'[n].complete_after_tx = rng[n].complete_after_tx
    BY <1>0 DEF RxForeign, RxTimeout, TypeOK, RngType
  <1>3. NodeInv(n)'
    BY <1>0, <1>1, <1>2 DEF NodeInv, Raised
  <1>4. ASSUME NEW m \in Nodes, m # n
        PROVE  rng'[m] = rng[m] /\ phy'[m] = phy[m] /\ task'[m] = task[m]
    BY <1>4 DEF RxForeign, RxTimeout, TypeOK
  <1> QED
    BY <1>1, <1>3, <1>4, NodeKept DEF CalmInv

LEMMA CalmSafety == ASSUME Calm PROVE Spec => []CalmInv
  <1>1. TypeOK /\ CalmInv /\ [Next]_vars => CalmInv'
    <2> SUFFICES ASSUME TypeOK, CalmInv, [Next]_vars PROVE CalmInv'
      OBVIOUS
    <2>1. CASE UNCHANGED vars
      BY <2>1 DEF vars, CalmInv, NodeInv
    <2>2. CASE Next
      <3> PICK n \in Nodes :
            \/ Request(n) \/ Listen(n) \/ Task(n) \/ Irq(n)
            \/ (\E c \in Codes \cup {rng[n].code} : RxMisfit(n, c)) \/ RxAck(n)
            \/ RxForeign(n) \/ RxTimeout(n) \/ Reset(n) \/ SuperframeReset(n)
        BY <2>2 DEF Next
      <3>1. /\ ~RxAck(n) /\ ~RxBroken(n) /\ ~Reset(n) /\ ~SuperframeReset(n)
            /\ \A c \in Codes \cup {rng[n].code} : ~RxMisfit(n, c)
        BY DEF Calm, RxAck, RxBroken, Reset, SuperframeReset, RxMisfit
      <3> QED
        BY <3>1, CalmTask, CalmTxEnd, CalmRx, CalmOther DEF Irq
    <2> QED
      BY <2>1, <2>2
  <1> QED
    BY <1>1, CalmInit, TwrTypeCorrect, PTL DEF Spec

\* While nothing resets the instance and no malformed ranging frame comes in,
\* rng->sem is one token per node: free, or held by the task that called
\* uwb_rng_request or uwb_rng_listen, or with the transceiver.
THEOREM TwrOneToken == ASSUME Calm PROVE Spec => []TokenOK
  <1>1. CalmInv => TokenOK
    BY DEF CalmInv, NodeInv, TokenOK
  <1> QED
    BY <1>1, CalmSafety, PTL

\* Under the same condition every completion that uwb_rng issues reports the
\* final frame of its own exchange, with the times of that exchange: the
\* initiator's request time and the responder's times are never mixed up.
THEOREM TwrRangeCurrent == ASSUME Calm PROVE Spec => []RangeCurrent
  <1>1. CalmInv => RangeCurrent
    BY DEF CalmInv, RangeCurrent
  <1> QED
    BY <1>1, CalmSafety, PTL

-----------------------------------------------------------------------------
(* The two ends agree, whatever happens *)

\* A final frame is only made of an answer that the initiator used.
Genuine(f) == f.code = "FINAL" => f.ex \in answered
Own(n, f) == f.code = "FINAL" => n \in {f.src, f.dst}

AgreeInv ==
    \A n \in Nodes :
        /\ Genuine(phy[n].buf)
        /\ Genuine(rng[n].frames[rng[n].idx])
        /\ Own(n, rng[n].frames[rng[n].idx])
        /\ Genuine(reported[n]) /\ Own(n, reported[n])

LEMMA AgreeInit == Init => AgreeInv
  <1> SUFFICES ASSUME Init PROVE AgreeInv
    OBVIOUS
  <1>1. NFrames - 1 \in Slots
    BY NFramesAssumption DEF Slots
  <1>2. ASSUME NEW n \in Nodes
        PROVE  /\ phy[n].buf = BlankFrame(n) /\ reported[n] = BlankFrame(n)
               /\ rng[n].frames[rng[n].idx] = BlankFrame(n)
    BY <1>1 DEF Init
  <1>3. \A n \in Nodes : BlankFrame(n).code = "none"
    BY DEF BlankFrame
  <1> QED
    BY <1>2, <1>3 DEF AgreeInv, Genuine, Own

\* What a step has to show: answered grows, and every frame of AgreeInv is the
\* one that was there, or comes from another buffer, or is not a final frame,
\* or is genuine.
LEMMA AgreeFrom ==
    ASSUME AgreeInv, answered \subseteq answered',
           \A m \in Nodes :
             /\ \/ Genuine(phy[m].buf)'
                \/ \E k \in Nodes : phy'[m].buf = phy[k].buf
             /\ \/ /\ Genuine(rng[m].frames[rng[m].idx])'
                   /\ Own(m, rng[m].frames[rng[m].idx])'
                \/ rng'[m].frames[rng'[m].idx] = rng[m].frames[rng[m].idx]
             /\ \/ Genuine(reported[m])' /\ Own(m, reported[m])'
                \/ reported'[m] = reported[m]
                \/ reported'[m] = rng[m].frames[rng[m].idx]
    PROVE  AgreeInv'
  <1>1. ASSUME NEW m \in Nodes PROVE Genuine(phy[m].buf)'
    BY DEF AgreeInv, Genuine
  <1>2. ASSUME NEW m \in Nodes
        PROVE  /\ Genuine(rng[m].frames[rng[m].idx])'
               /\ Own(m, rng[m].frames[rng[m].idx])'
    BY DEF AgreeInv, Genuine, Own
  <1>3. ASSUME NEW m \in Nodes
        PROVE  Genuine(reported[m])' /\ Own(m, reported[m])'
    BY DEF AgreeInv, Genuine, Own
  <1> QED
    BY <1>1, <1>2, <1>3 DEF AgreeInv

LEMMA SemOnly ==
    ASSUME TypeOK, NEW n \in Nodes, NEW k, rng' = [rng EXCEPT ![n].sem = k],
           NEW m \in Nodes
    PROVE  rng'[m].frames = rng[m].frames /\ rng'[m].idx = rng[m].idx
  <1>1. CASE m = n
    <2>1. rng'[n] = [rng[n] EXCEPT !.sem = k] /\ rng[n] \in RngType
      BY DEF TypeOK
    <2> QED
      BY <1>1, <2>1 DEF RngType
  <1>2. CASE m # n
    BY <1>2 DEF TypeOK
  <1> QED
    BY <1>1, <1>2

LEMMA Next1Differs == \A i \in Slots : Next1(i) # i
  <1> SUFFICES ASSUME NEW i \in Slots PROVE Next1(i) # i
    OBVIOUS
  <1>1. i \in Nat /\ i < NFrames /\ NFrames \in Nat /\ NFrames >= 2
    BY NFramesAssumption DEF Slots
  <1>2. CASE i + 1 < NFrames
    <2>1. (i + 1) % NFrames = i + 1
      BY <1>1, <1>2
    <2> QED
      BY <1>1, <2>1 DEF Next1
  <1>3. CASE i + 1 = NFrames
    <2>1. (i + 1) % NFrames = 0
      BY <1>1, <1>3
    <2> QED
      BY <1>1, <1>3, <2>1 DEF Next1
  <1> QED
    BY <1>1, <1>2, <1>3

LEMMA AgreeTask ==
    ASSUME TypeOK, AgreeInv, NEW n \in Nodes,
           Request(n) \/ Listen(n) \/ Task(n)
    PROVE  AgreeInv'
  <1>0. \A m \in Nodes : rng[m] \in RngType /\ phy[m] \in PhyType
    BY DEF TypeOK
  <1>1. CASE Request(n) \/ Listen(n) \/ RqCount(n)
    BY <1>1, AgreeFrom DEF Request, Listen, RqCount, histVars
  <1>2. CASE \/ RqPend(n) \/ RqWait(n) \/ LsPend(n) \/ LsWait(n)
             \/ RqRelease(n) \/ LsRelease(n)
    <2>1. \A m \in Nodes : /\ rng'[m].frames = rng[m].frames
                           /\ rng'[m].idx = rng[m].idx
      BY <1>2, SemOnly DEF RqPend, RqWait, LsPend, LsWait, Pend, RqRelease,
                           LsRelease
    <2> QED
      BY <1>2, <2>1, AgreeFrom DEF RqPend, RqWait, LsPend, LsWait, RqRelease,
                                   LsRelease, histVars
  <1>3. ASSUME NEW b \in BOOLEAN, LsStart(n, b) PROVE AgreeInv'
    <2>1. \A m \in Nodes : /\ rng'[m].frames = rng[m].frames
                           /\ rng'[m].idx = rng[m].idx
      BY <1>3, SemOnly DEF LsStart
    <2>2. \A m \in Nodes : phy'[m].buf = phy[m].buf
      <3>1. phy' = phy \/ phy' = [phy EXCEPT ![n].radio = "rx"]
        BY <1>3 DEF LsStart
      <3> QED  BY <1>0, <3>1 DEF TypeOK, PhyType
    <2> QED
      BY <1>3, <2>1, <2>2, AgreeFrom DEF LsStart, histVars
  <1>4. ASSUME NEW d \in Nodes \ {n}, RqStart(n, d) \/ RqStartError(n, d)
        PROVE  AgreeInv'
    <2> DEFINE f == RequestFrame(n, d)
    <2>1. f.code = "SS"
      BY DEF RequestFrame
    <2>2. UNCHANGED <<reported, answered>>
      BY <1>4 DEF RqStart, RqStartError
    <2>3. \A m \in Nodes : phy'[m].buf \in {phy[m].buf, f}
      <3>1. phy' = phy \/ phy' = [phy EXCEPT ![n].radio = "tx", ![n].buf = f]
        BY <1>4 DEF RqStart, RqStartError
      <3> HIDE DEF f
      <3> QED  BY <1>0, <3>1 DEF TypeOK, PhyType
    <2>4. ASSUME NEW m \in Nodes
          PROVE  rng'[m].frames[rng'[m].idx] \in {f, rng[m].frames[rng[m].idx]}
      <3>1. CASE m # n
        BY <1>4, <3>1 DEF TypeOK, RqStart, RqStartError
      <3>2. CASE m = n
        <4>1. \/ rng'[n] = [rng[n] EXCEPT !.frames[task[n].slot] = f]
              \/ rng'[n] = [rng[n] EXCEPT !.frames[task[n].slot] = f,
                                          !.sem = @ + 1]
          BY <1>4 DEF TypeOK, RqStart, RqStartError
        <4> HIDE DEF f
        <4>2. /\ rng'[n].idx = rng[n].idx
              /\ rng'[n].frames = [rng[n].frames EXCEPT ![task[n].slot] = f]
          BY <1>0, <4>1 DEF RngType
        <4>3. rng[n].idx \in Slots /\ rng[n].frames \in [Slots -> FrameType]
          BY <1>0, RngParts
        <4> QED
          BY <3>2, <4>2, <4>3
      <3> QED
        BY <3>1, <3>2
    <2> HIDE DEF f
    <2> QED
      BY <2>1, <2>2, <2>3, <2>4, AgreeFrom DEF Genuine, Own
  <1> QED
    BY <1>1, <1>2, <1>3, <1>4 DEF Task

LEMMA AgreeTxEnd ==
    ASSUME TypeOK, AgreeInv, NEW n \in Nodes, NEW R \in SUBSET Nodes, TxEnd(n, R)
    PROVE  AgreeInv'
  <1>0. \A m \in Nodes : rng[m] \in RngType /\ phy[m] \in PhyType
    BY DEF TypeOK
  <1>1. \A m \in Nodes : phy'[m].buf \in {phy[m].buf, phy[n].buf}
    BY <1>0 DEF TxEnd, PhyType
  <1>2. ASSUME NEW m \in Nodes
        PROVE  rng'[m].frames = rng[m].frames /\ rng'[m].idx = rng[m].idx
    <2>1. CASE m # n
      BY <2>1 DEF TxEnd, TypeOK
    <2>2. CASE m = n
      <3>1. \/ rng'[n] = rng[n]
            \/ rng'[n] = [rng[n] EXCEPT !.sem = @ + 1,
                                        !.complete_after_tx = FALSE]
        BY DEF TxEnd, TypeOK
      <3> QED
        BY <1>0, <2>2, <3>1 DEF RngType
    <2> QED
      BY <2>1, <2>2
  <1>3. \A m \in Nodes :
          reported'[m] \in {reported[m], rng[m].frames[rng[m].idx]}
    BY DEF TxEnd, TypeOK, Complete
  <1>4. answered' = answered
    BY DEF TxEnd
  <1> QED
    BY <1>1, <1>2, <1>3, <1>4, AgreeFrom

LEMMA AgreeRx ==
    ASSUME TypeOK, AgreeInv, NEW n \in Nodes,
           \/ RxUnsolicited(n) \/ RxOtherAddress(n) \/ RxRequest(n)
           \/ RxResponse(n) \/ RxResponseError(n) \/ RxFinal(n) \/ RxBroken(n)
    PROVE  AgreeInv'
  <1>0. /\ rng[n] \in RngType /\ phy[n] \in PhyType /\ Frame(n) \in FrameType
        /\ FinalFrame(n) \in FrameType /\ Frame(n) = phy[n].buf
    BY PhyFacts, FinalFrameType DEF TypeOK, Frame
  <1>1. ASSUME NEW m \in Nodes, m # n
        PROVE  rng'[m] = rng[m] /\ phy'[m] = phy[m] /\ reported'[m] = reported[m]
    BY <1>1 DEF TypeOK, RxUnsolicited, RxOtherAddress, RxRequest, RxResponse,
                RxResponseError, RxFinal, RxBroken, Complete, histVars
  <1>2. answered \subseteq answered'
    BY DEF RxUnsolicited, RxOtherAddress, RxRequest, RxResponse,
           RxResponseError, RxFinal, RxBroken, histVars
  <1>3. /\ Silent(n).buf = phy[n].buf
        /\ \A f \in FrameType : Sending(n, f).buf = f
    BY <1>0, PhyFacts
  <1>4. ASSUME NEW f \in FrameType,
               rng'[n] \in {Taken(n, f), [Taken(n, f) EXCEPT !.sem = @ + 1],
                            [Taken(n, f) EXCEPT !.complete_after_tx = TRUE]}
        PROVE  rng'[n].frames[rng'[n].idx] = f
    <2> DEFINE t == Taken(n, f)
    <2>1. t \in RngType /\ t.frames[t.idx] = f
      BY TakenType
    <2>2. rng'[n].frames = t.frames /\ rng'[n].idx = t.idx
      BY <1>4, <2>1 DEF RngType
    <2> QED
      BY <2>1, <2>2
  <1>5. BlankFrame(n).code = "none"
    BY DEF BlankFrame
  <1>6. CASE RxUnsolicited(n)
    <2>1. phy'[n].buf = phy[n].buf /\ rng'[n] = rng[n] /\ reported' = reported
      BY <1>3, <1>6 DEF RxUnsolicited, TypeOK, histVars
    <2> QED
      BY <1>1, <1>2, <2>1, AgreeFrom
  <1>7. CASE RxOtherAddress(n)
    <2> DEFINE i == Next1(rng[n].idx)
    <2>1. phy'[n].buf = phy[n].buf /\ reported' = reported
      BY <1>3, <1>7 DEF RxOtherAddress, TypeOK, histVars
    <2>2. /\ rng'[n].frames = [rng[n].frames EXCEPT ![i] = Frame(n)]
          /\ rng'[n].idx = rng[n].idx
      BY <1>0, <1>7 DEF RxOtherAddress, TypeOK, RngType
    <2>3. /\ rng[n].idx \in Slots /\ rng[n].frames \in [Slots -> FrameType]
      BY <1>0, RngParts
    <2>4. i # rng[n].idx
      BY <2>3, Next1Differs
    <2> HIDE DEF i
    <2>5. rng'[n].frames[rng'[n].idx] = rng[n].frames[rng[n].idx]
      BY <2>2, <2>3, <2>4
    <2> QED
      BY <1>1, <1>2, <2>1, <2>5, AgreeFrom
  <1>8. CASE RxRequest(n)
    <2> DEFINE t1 == [Frame(n) EXCEPT !.code = "T1", !.src = n,
                                      !.dst = Frame(n).src]
    <2>1. t1 \in FrameType /\ t1.code = "T1"
      BY <1>0, FrameParts DEF FrameType
    <2>2. /\ rng'[n] \in {Taken(n, t1), [Taken(n, t1) EXCEPT !.sem = @ + 1]}
          /\ phy'[n] \in {Sending(n, t1), Silent(n)}
          /\ reported'[n] = BlankFrame(n)
      BY <1>8 DEF RxRequest, TypeOK
    <2> HIDE DEF t1
    <2>3. rng'[n].frames[rng'[n].idx] = t1 /\ phy'[n].buf \in {t1, phy[n].buf}
      BY <1>3, <1>4, <2>1, <2>2
    <2> QED
      BY <1>1, <1>2, <1>5, <2>1, <2>2, <2>3, AgreeFrom DEF Genuine, Own
  <1>9. CASE RxResponse(n) \/ RxResponseError(n)
    <2> DEFINE f == FinalFrame(n)
    <2>1. f.ex = Frame(n).ex /\ f.src = n /\ f \in FrameType
      BY <1>0 DEF FinalFrame, FrameType
    <2>2. Frame(n).ex \in answered'
      BY <1>9 DEF RxResponse, RxResponseError
    <2>3. /\ rng'[n] \in {[Taken(n, f) EXCEPT !.sem = @ + 1],
                          [Taken(n, f) EXCEPT !.complete_after_tx = TRUE]}
          /\ phy'[n] \in {Sending(n, f), Silent(n)}
          /\ reported'[n] \in {f, BlankFrame(n)}
      BY <1>9 DEF RxResponse, RxResponseError, TypeOK, Complete
    <2> HIDE DEF f
    <2>4. rng'[n].frames[rng'[n].idx] = f /\ phy'[n].buf \in {f, phy[n].buf}
      BY <1>3, <1>4, <2>1, <2>3
    <2> QED
      BY <1>1, <1>2, <1>5, <2>1, <2>2, <2>3, <2>4, AgreeFrom DEF Genuine, Own
  <1>10. CASE RxFinal(n) \/ RxBroken(n)
    <2>1. Frame(n).dst = n
      BY <1>10 DEF RxFinal, RxBroken, ForMe
    <2>2. /\ rng'[n] \in {Taken(n, Frame(n)),
                          [Taken(n, Frame(n)) EXCEPT !.sem = @ + 1]}
          /\ phy'[n] = Silent(n) /\ answered' = answered
          /\ reported'[n] \in {Frame(n), BlankFrame(n)}
      BY <1>10 DEF RxFinal, RxBroken, TypeOK, Complete
    <2>3. rng'[n].frames[rng'[n].idx] = Frame(n) /\ phy'[n].buf = phy[n].buf
      BY <1>0, <1>3, <1>4, <2>2
    <2>4. Frame(n).code = "FINAL" => Frame(n).ex \in answered'
      BY <1>0, <2>2 DEF AgreeInv, Genuine
    <2> QED
      BY <1>1, <1>2, <1>5, <2>1, <2>2, <2>3, <2>4, AgreeFrom DEF Genuine, Own
  <1> QED
    BY <1>6, <1>7, <1>8, <1>9, <1>10

LEMMA AgreeOther ==
    ASSUME TypeOK, AgreeInv, NEW n \in Nodes,
           \/ RxAck(n) \/ RxForeign(n) \/ RxTimeout(n) \/ Reset(n)
           \/ SuperframeReset(n)
    PROVE  AgreeInv'
  <1>0. \A m \in Nodes : rng[m] \in RngType /\ phy[m] \in PhyType
    BY DEF TypeOK
  <1>1. \A m \in Nodes : phy'[m].buf = phy[m].buf
    BY <1>0 DEF RxAck, RxForeign, RxTimeout, Reset, SuperframeReset, TypeOK,
                PhyType
  <1>2. \A m \in Nodes : /\ rng'[m].frames = rng[m].frames
                         /\ rng'[m].idx = rng[m].idx
    BY SemOnly DEF RxAck, RxForeign, RxTimeout, Reset, SuperframeReset
  <1>3. UNCHANGED <<reported, answered>>
    BY DEF RxAck, RxForeign, RxTimeout, Reset, SuperframeReset, histVars
  <1> QED
    BY <1>1, <1>2, <1>3, AgreeFrom

LEMMA AgreeMisfit ==
    ASSUME TypeOK, AgreeInv, NEW n \in Nodes,
           NEW c \in Codes \cup {rng[n].code}, RxMisfit(n, c)
    PROVE  AgreeInv'
  <1> DEFINE i == rng[n].idx
             f == rng[n].frames[i]
             t1 == [f EXCEPT !.code = "T1", !.src = n, !.dst = f.src,
                             !.ex = NoEx(n)]
             a == [rng[n] EXCEPT !.code = c, !.frames[i] = t1]
  <1>1. /\ rng[n] \in RngType /\ i \in Slots /\ f \in FrameType
        /\ rng[n].frames \in [Slots -> FrameType] /\ NoEx(n) \in Exchanges
    BY RngParts, RequestsAssumption DEF TypeOK, NoEx, Exchanges
  <1>2. t1 \in FrameType /\ t1.code = "T1"
    BY <1>1, FrameParts DEF FrameType
  <1>3. ASSUME NEW m \in Nodes, m # n PROVE rng'[m] = rng[m] /\ phy'[m] = phy[m]
    BY <1>3 DEF RxMisfit, TypeOK
  <1>4. UNCHANGED <<reported, answered>>
    BY DEF RxMisfit, histVars
  <1>5. /\ rng'[n] \in {rng[n], [rng[n] EXCEPT !.code = c], a,
                        [a EXCEPT !.sem = @ + 1]}
        /\ phy'[n] \in {Silent(n), Sending(n, t1)}
    BY DEF RxMisfit, TypeOK
  <1>6. phy'[n].buf \in {phy[n].buf, t1}
    BY <1>2, <1>5, PhyFacts DEF Frame
  <1> HIDE DEF t1
  <1>7. /\ rng'[n].idx = i
        /\ rng'[n].frames \in {rng[n].frames, [rng[n].frames EXCEPT ![i] = t1]}
    BY <1>1, <1>5 DEF RngType
  <1>8. rng'[n].frames[rng'[n].idx] \in {t1, rng[n].frames[rng[n].idx]}
    BY <1>1, <1>7
  <1> QED
    BY <1>2, <1>3, <1>4, <1>6, <1>8, AgreeFrom DEF Genuine, Own

\* Whatever resets, superframes, foreign or malformed frames do to the
\* semaphore, a range is only reported at an end of its exchange, and only if
\* the initiator used the answer that it is computed from.
THEOREM TwrEndsAgree == Spec => []EndsAgree
  <1>1. TypeOK /\ AgreeInv /\ [Next]_vars => AgreeInv'
    <2> SUFFICES ASSUME TypeOK, AgreeInv, [Next]_vars PROVE AgreeInv'
      OBVIOUS
    <2>1. CASE UNCHANGED vars
      BY <2>1 DEF vars, AgreeInv, Genuine, Own
    <2>2. CASE Next
      BY <2>2, AgreeTask, AgreeTxEnd, AgreeRx, AgreeOther, AgreeMisfit
         DEF Next, Irq
    <2> QED
      BY <2>1, <2>2
  <1>2. AgreeInv => EndsAgree
    BY DEF AgreeInv, Genuine, Own, EndsAgree
  <1> QED
    BY <1>1, <1>2, AgreeInit, TwrTypeCorrect, PTL DEF Spec

-----------------------------------------------------------------------------
(* The result stays in the ring *)

Quiet == Calm /\ "nonblocking" \notin Disturbances

\* With blocking calls only, the radio is on only while the task waits for
\* the end of the exchange.  So nothing moves idx between the choice of the
\* request's frame, which is made without the semaphore, and its use.
KeptNode(n) ==
    /\ phy[n].radio # "off" => task[n].pc \in {"rq_wait", "ls_wait"}
    /\ task[n].pc \in {"rq_pend", "rq_start"}
         => task[n].slot = Next1(rng[n].idx)
    /\ reported[n].code = "FINAL" => rng[n].frames[rng[n].idx] = reported[n]

KeptInv == \A n \in Nodes : KeptNode(n)

LEMMA KeptAlone ==
    ASSUME NEW m \in Nodes, KeptNode(m), reported'[m] = reported[m],
           rng'[m] = rng[m], phy'[m] = phy[m], task'[m] = task[m]
    PROVE  KeptNode(m)'
  BY DEF KeptNode

LEMMA KeptInit == Init => KeptInv
  <1> SUFFICES ASSUME Init, NEW n \in Nodes PROVE KeptNode(n)
    BY DEF KeptInv
  <1>1. /\ phy[n].radio = "off" /\ task[n].pc = "idle"
        /\ reported[n] = BlankFrame(n)
    BY DEF Init
  <1>2. reported[n].code = "none"
    BY <1>1 DEF BlankFrame
  <1> QED
    BY <1>1, <1>2 DEF KeptNode

\* A step of one node that does not end a transmission leaves the others alone.
LEMMA OthersAlone ==
    ASSUME TypeOK, NEW n \in Nodes,
           \/ Request(n) \/ Listen(n) \/ Task(n) \/ RxUnsolicited(n)
           \/ RxOtherAddress(n) \/ RxRequest(n) \/ RxResponse(n)
           \/ RxResponseError(n) \/ RxFinal(n) \/ RxForeign(n) \/ RxTimeout(n),
           NEW m \in Nodes, m # n
    PROVE  /\ rng'[m] = rng[m] /\ phy'[m] = phy[m] /\ task'[m] = task[m]
           /\ reported'[m] = reported[m]
  <1> USE DEF TypeOK, histVars
  <1>1. CASE Request(n)  BY <1>1 DEF Request
  <1>2. CASE Listen(n)  BY <1>2 DEF Listen, Goto
  <1>3. CASE RqPend(n) \/ RqWait(n) \/ LsPend(n) \/ LsWait(n)
    BY <1>3 DEF RqPend, RqWait, LsPend, LsWait, Pend, Goto
  <1>4. CASE RqCount(n) \/ RqRelease(n) \/ LsRelease(n)
    BY <1>4 DEF RqCount, RqRelease, LsRelease, Goto
  <1>5. CASE \E b \in BOOLEAN : LsStart(n, b)
    BY <1>5 DEF LsStart, Goto
  <1>6. CASE \E d \in Nodes \ {n} : RqStart(n, d) \/ RqStartError(n, d)
    BY <1>6 DEF RqStart, RqStartError, Goto
  <1>7. CASE RxUnsolicited(n) \/ RxOtherAddress(n) \/ RxForeign(n) \/ RxTimeout(n)
    BY <1>7 DEF RxUnsolicited, RxOtherAddress, RxForeign, RxTimeout
  <1>8. CASE RxRequest(n) \/ RxResponse(n)
    BY <1>8 DEF RxRequest, RxResponse
  <1>9. CASE RxResponseError(n) \/ RxFinal(n)
    BY <1>9 DEF RxResponseError, RxFinal, Complete
  <1> QED
    BY <1>1, <1>2, <1>3, <1>4, <1>5, <1>6, <1>7, <1>8, <1>9 DEF Task

\* uwb_rng_request and uwb_rng_listen write to no frame but the one after idx.
LEMMA KeptTask ==
    ASSUME Quiet, TypeOK, CalmInv, KeptInv, NEW n \in Nodes,
           Request(n) \/ Listen(n) \/ Task(n)
    PROVE  KeptNode(n)'
  <1>0. /\ rng[n] \in RngType /\ phy[n] \in PhyType /\ task[n] \in TaskType
        /\ NodeInv(n) /\ KeptNode(n)
    BY DEF TypeOK, CalmInv, KeptInv
  <1> USE <1>0 DEF TypeOK, histVars
  <1>1. CASE Request(n)
    <2>1. /\ task[n].pc = "idle" /\ task'[n].pc = "rq_pend"
          /\ task'[n].slot = Next1(rng[n].idx)
          /\ rng' = rng /\ phy' = phy /\ reported' = reported
      BY <1>1 DEF Request
    <2> QED
      BY <2>1 DEF KeptNode
  <1>2. CASE Listen(n)
    <2>1. task[n].pc = "idle" /\ task'[n].pc = "ls_pend"
      BY <1>2, GotoType DEF Listen, PCs
    <2> QED
      BY <1>2, <2>1 DEF Listen, KeptNode
  <1>3. CASE RqPend(n) \/ RqWait(n) \/ LsPend(n) \/ LsWait(n)
    <2>1. /\ rng[n].sem > 0 /\ rng'[n].frames = rng[n].frames
          /\ rng'[n].idx = rng[n].idx /\ phy' = phy /\ reported' = reported
      BY <1>3 DEF RqPend, RqWait, LsPend, LsWait, Pend, RngType
    <2>2. phy[n].radio = "off"
      BY <2>1 DEF NodeInv
    <2>3. /\ task'[n].slot = task[n].slot
          /\ task'[n].pc = "rq_start" => task[n].pc = "rq_pend"
          /\ task'[n].pc # "rq_pend"
      BY <1>3, GotoType DEF RqPend, RqWait, LsPend, LsWait, PCs, Holding
    <2> QED
      BY <2>1, <2>2, <2>3 DEF KeptNode
  <1>4. CASE RqCount(n) \/ RqRelease(n) \/ LsRelease(n)
    <2>1. /\ rng'[n].frames = rng[n].frames /\ rng'[n].idx = rng[n].idx
          /\ phy' = phy /\ reported' = reported
      BY <1>4 DEF RqCount, RqRelease, LsRelease, RngType
    <2>2. /\ task[n].pc \in {"rq_rel", "rq_seen", "ls_rel"}
          /\ task'[n].pc \in {"rq_seen", "idle"}
      BY <1>4, GotoType DEF RqCount, RqRelease, LsRelease, PCs, Holding
    <2> QED
      BY <2>1, <2>2 DEF KeptNode
  <1>5. ASSUME NEW b \in BOOLEAN, LsStart(n, b) PROVE KeptNode(n)'
    <2>1. b /\ task[n].pc = "ls_start" /\ task'[n].pc = "ls_wait"
      BY <1>5, GotoType DEF LsStart, PCs, Quiet
    <2>2. /\ rng'[n].frames = rng[n].frames /\ rng'[n].idx = rng[n].idx
          /\ reported' = reported
      BY <1>5 DEF LsStart, RngType
    <2> QED
      BY <2>1, <2>2 DEF KeptNode
  <1>6. ASSUME NEW d \in Nodes \ {n}, RqStart(n, d) \/ RqStartError(n, d)
        PROVE  KeptNode(n)'
    <2>1. task[n].pc = "rq_start" /\ task'[n].pc = "rq_wait"
      BY <1>6, GotoType DEF RqStart, RqStartError, PCs
    <2>2. task[n].slot = Next1(rng[n].idx)
      BY <2>1 DEF KeptNode
    <2>3. /\ rng'[n].idx = rng[n].idx /\ reported' = reported
          /\ rng'[n].frames =
               [rng[n].frames EXCEPT ![task[n].slot] = RequestFrame(n, d)]
      BY <1>6 DEF RqStart, RqStartError, RngType
    <2>4. rng'[n].frames[rng[n].idx] = rng[n].frames[rng[n].idx]
      BY <2>2, <2>3, Next1Differs, RngParts
    <2> QED
      BY <2>1, <2>3, <2>4 DEF KeptNode
  <1> QED
    BY <1>1, <1>2, <1>3, <1>4, <1>5, <1>6 DEF Task

\* What is reported when a transmission ends is the frame at idx.
LEMMA KeptTxEnd ==
    ASSUME TypeOK, KeptInv, NEW n \in Nodes, NEW R \in SUBSET Nodes,
           TxEnd(n, R)
    PROVE  KeptInv'
  <1> SUFFICES ASSUME NEW m \in Nodes PROVE KeptNode(m)'
    BY DEF KeptInv
  <1>0. /\ rng[m] \in RngType /\ phy[m] \in PhyType /\ KeptNode(m)
        /\ task' = task /\ n \notin R /\ phy[n].radio = "tx"
    BY DEF TypeOK, KeptInv, TxEnd
  <1>1. phy'[m].radio # "off" => phy[m].radio # "off"
    BY <1>0 DEF TxEnd, Hears, PhyType
  <1>2. CASE CompletesAfterTx(n) /\ m = n
    <2>1. rng' = [rng EXCEPT ![n].sem = @ + 1, ![n].complete_after_tx = FALSE]
      BY <1>2 DEF TxEnd
    <2>2. rng'[n] = [rng[n] EXCEPT !.sem = @ + 1, !.complete_after_tx = FALSE]
      BY <2>1 DEF TypeOK
    <2>3. rng'[n].frames = rng[n].frames /\ rng'[n].idx = rng[n].idx
      BY <1>0, <1>2, <2>2 DEF RngType
    <2>4. reported'[n] = rng[n].frames[rng[n].idx]
      BY <1>2 DEF TxEnd, Complete, TypeOK
    <2> QED
      BY <1>0, <1>1, <1>2, <2>3, <2>4 DEF KeptNode
  <1>3. CASE ~(CompletesAfterTx(n) /\ m = n)
    <2>1. rng'[m] = rng[m] /\ reported'[m] = reported[m]
      BY <1>3 DEF TxEnd, Complete, TypeOK
    <2> QED
      BY <1>0, <1>1, <2>1 DEF KeptNode
  <1> QED
    BY <1>2, <1>3

\* A reception moves idx only together with the report.
LEMMA KeptRx ==
    ASSUME TypeOK, CalmInv, KeptInv, NEW n \in Nodes,
           \/ RxUnsolicited(n) \/ RxOtherAddress(n) \/ RxRequest(n)
           \/ RxResponse(n) \/ RxResponseError(n) \/ RxFinal(n)
           \/ RxForeign(n) \/ RxTimeout(n)
    PROVE  KeptNode(n)'
  <1>0. /\ rng[n] \in RngType /\ phy[n] \in PhyType /\ KeptNode(n)
        /\ Frame(n) \in FrameType /\ FinalFrame(n) \in FrameType
    BY PhyFacts, FinalFrameType DEF TypeOK, KeptInv
  <1>1. task' = task /\ phy[n].radio # "off"
    BY DEF RxUnsolicited, RxOtherAddress, RxRequest, RxResponse, ForMe,
           RxResponseError, RxFinal, RxForeign, RxTimeout, Received
  <1>2. task'[n].pc \in {"rq_wait", "ls_wait"}
    BY <1>0, <1>1 DEF KeptNode
  <1>3. CASE RxUnsolicited(n) \/ RxForeign(n) \/ RxTimeout(n)
    <2>1. /\ rng'[n].frames = rng[n].frames /\ rng'[n].idx = rng[n].idx
          /\ reported' = reported
      BY <1>0, <1>3 DEF RxUnsolicited, RxForeign, RxTimeout, RngType, TypeOK,
                        histVars
    <2> QED
      BY <1>0, <1>2, <2>1 DEF KeptNode
  <1>4. CASE RxOtherAddress(n)
    <2>1. /\ rng'[n].idx = rng[n].idx /\ reported' = reported
          /\ rng'[n].frames =
               [rng[n].frames EXCEPT ![Next1(rng[n].idx)] = Frame(n)]
      BY <1>0, <1>4 DEF RxOtherAddress, RngType, TypeOK, histVars
    <2>2. rng'[n].frames[rng[n].idx] = rng[n].frames[rng[n].idx]
      BY <1>0, <2>1, Next1Differs, RngParts
    <2> QED
      BY <1>0, <1>2, <2>1, <2>2 DEF KeptNode
  <1>5. CASE RxRequest(n) \/ RxResponse(n)
    <2>1. reported'[n].code = "none"
      BY <1>5 DEF RxRequest, RxResponse, BlankFrame, TypeOK
    <2> QED
      BY <1>2, <2>1 DEF KeptNode
  <1>6. ASSUME NEW f \in FrameType,
               rng'[n] = [Taken(n, f) EXCEPT !.sem = @ + 1], reported'[n] = f
        PROVE  KeptNode(n)'
    <2>1. /\ Taken(n, f) \in RngType /\ Taken(n, f).idx = Next1(rng[n].idx)
          /\ Taken(n, f).frames[Next1(rng[n].idx)] = f
      BY TakenType
    <2>2. /\ rng'[n].idx = Next1(rng[n].idx)
          /\ rng'[n].frames[Next1(rng[n].idx)] = f
      BY <1>6, <2>1 DEF RngType
    <2> QED
      BY <1>2, <1>6, <2>2 DEF KeptNode
  <1>7. CASE RxResponseError(n)
    BY <1>0, <1>6, <1>7 DEF RxResponseError, Complete, TypeOK
  <1>8. CASE RxFinal(n)
    BY <1>0, <1>6, <1>8 DEF RxFinal, Complete, TypeOK
  <1> QED
    BY <1>3, <1>4, <1>5, <1>7, <1>8

\* When no reset and no malformed frame comes in and the listener blocks, a
\* range stays readable in its frame of the ring until the next frame is
\* received, although uwb_rng_request picks the frame it writes to before it
\* takes the semaphore.
THEOREM TwrResultKept == ASSUME Quiet PROVE Spec => []ResultKept
  <1>0. Calm
    BY DEF Quiet
  <1>1. TypeOK /\ CalmInv /\ KeptInv /\ [Next]_vars => KeptInv'
    <2> SUFFICES ASSUME TypeOK, CalmInv, KeptInv, [Next]_vars PROVE KeptInv'
      OBVIOUS
    <2>1. CASE UNCHANGED vars
      BY <2>1 DEF vars, KeptInv, KeptNode
    <2>2. CASE Next
      <3> PICK n \in Nodes :
            \/ Request(n) \/ Listen(n) \/ Task(n) \/ Irq(n)
            \/ (\E c \in Codes \cup {rng[n].code} : RxMisfit(n, c)) \/ RxAck(n)
            \/ RxForeign(n) \/ RxTimeout(n) \/ Reset(n) \/ SuperframeReset(n)
        BY <2>2 DEF Next
      <3>1. /\ ~RxAck(n) /\ ~RxBroken(n) /\ ~Reset(n) /\ ~SuperframeReset(n)
            /\ \A c \in Codes \cup {rng[n].code} : ~RxMisfit(n, c)
        BY DEF Calm, Quiet, RxAck, RxBroken, Reset, SuperframeReset, RxMisfit
      <3>2. CASE \E R \in SUBSET Nodes : TxEnd(n, R)
        BY <3>2, KeptTxEnd
      <3>3. CASE \/ Request(n) \/ Listen(n) \/ Task(n) \/ RxUnsolicited(n)
                 \/ RxOtherAddress(n) \/ RxRequest(n) \/ RxResponse(n)
                 \/ RxResponseError(n) \/ RxFinal(n) \/ RxForeign(n)
                 \/ RxTimeout(n)
        <4>1. KeptNode(n)'
          BY <3>3, KeptTask, KeptRx
        <4>2. ASSUME NEW m \in Nodes, m # n PROVE KeptNode(m)'
          BY <3>3, <4>2, OthersAlone, KeptAlone DEF KeptInv
        <4> QED
          BY <4>1, <4>2 DEF KeptInv
      <3> QED
        BY <3>1, <3>2, <3>3 DEF Irq
    <2> QED
      BY <2>1, <2>2
  <1>2. KeptInv => ResultKept
    BY DEF KeptInv, KeptNode, ResultKept
  <1> QED
    BY <1>0, <1>1, <1>2, KeptInit, CalmSafety, TwrTypeCorrect, PTL DEF Spec

=============================================================================

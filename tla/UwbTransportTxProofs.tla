------------------------ MODULE UwbTransportTxProofs ------------------------
(***************************************************************************)
(* Proofs about UwbTransportTx, for every set of packets, retry limit,     *)
(* number of sequence numbers, slot length and resetting tasks; and,       *)
(* without resets and listening, that the frame on the air is never        *)
(* overwritten and that with acknowledgements the sender implements the    *)
(* abstract PacketService.                                                 *)
(***************************************************************************)
EXTENDS UwbTransportTx, FiniteSetTheorems, TLAPS

USE PacketsAssumption, RetriesAssumption, SeqModAssumption, RoomAssumption,
    AcksAssumption, DisturbancesAssumption

Mbufs == [pkt : Packets, retries : 0..MaxRetries]

\* Where the task is working on the packet at the head of the queue.
Holding == {"loop", "lock", "write", "sem", "ack", "start", "ack_wait",
            "ack_got", "verify", "done", "err_sem", "err_lock", "err_ack"}

HeadThere == pc \in Holding => tx_q # <<>>

Inv0 == TypeOK /\ HeadThere

-----------------------------------------------------------------------------
\* What the queue operations do to a non-empty queue of mbufs.
LEMMA QueueFacts ==
    ASSUME NEW q \in Seq(Mbufs), q # <<>>
    PROVE  /\ Len(q) \in Nat /\ Len(q) >= 1 /\ 1 \in DOMAIN q
           /\ Head(q) = q[1] /\ Head(q) \in Mbufs
           /\ Tail(q) \in Seq(Mbufs) /\ Len(Tail(q)) = Len(q) - 1
           /\ \A i \in 1..(Len(q) - 1) : Tail(q)[i] = q[i + 1]
  OBVIOUS

LEMMA MbufFacts ==
    ASSUME NEW q \in Seq(Mbufs), NEW i \in DOMAIN q
    PROVE  q[i] \in Mbufs /\ q[i].pkt \in Packets /\ q[i].retries \in Nat
  <1>1. q[i] \in Mbufs  OBVIOUS
  <1> QED  BY <1>1 DEF Mbufs

LEMMA AppendFacts ==
    ASSUME NEW S, NEW q \in Seq(S), NEW m \in S
    PROVE  Append(q, m) \in Seq(S) /\ Append(q, m) # <<>>
  OBVIOUS

LEMMA SeqNumStep ==
    ASSUME NEW n \in SeqNums
    PROVE  (n + 1) % TxSeqMod \in SeqNums
  BY DEF SeqNums

\* The table of the callbacks: the semaphore of each place, and where the
\* callback goes on.
LEMMA DutyFacts ==
    /\ Duty["begins"].s = "write_tx_lock" /\ Duty["begins"].zero = "none"
    /\ Duty["begins"].else = "none"
    /\ Duty["complete"].s = "sem" /\ Duty["complete"].zero = "none"
    /\ Duty["complete"].else = "none"
    /\ Duty["refused"].s = "sem" /\ Duty["refused"].zero = "none"
    /\ Duty["refused"].else = "none"
    /\ Duty["acked"].s = "ack_sem" /\ Duty["acked"].zero = "none"
    /\ Duty["acked"].else = "none"
    /\ Duty["timeout"].s = "ack_sem" /\ Duty["timeout"].zero = "none"
    /\ Duty["timeout"].else = "refused"
    /\ Duty["rs_ack"].s = "ack_sem" /\ Duty["rs_ack"].zero = "rs_sem"
    /\ Duty["rs_ack"].else = "rs_sem"
    /\ Duty["rs_sem"].s = "sem" /\ Duty["rs_sem"].zero = "rs_lock"
    /\ Duty["rs_sem"].else = "rs_lock"
    /\ Duty["rs_lock"].s = "write_tx_lock" /\ Duty["rs_lock"].zero = "none"
    /\ Duty["rs_lock"].else = "none"
  BY DEF Duty

LEMMA DutyTypes ==
    \A place \in Places : /\ Duty[place].s \in Sems
                          /\ Duty[place].zero \in Places \cup {"none"}
                          /\ Duty[place].else \in Places \cup {"none"}
  BY DutyFacts DEF Places, Sems

\* What a look does to the thread that takes it, and to no other.
LEMMA LookFacts ==
    ASSUME TypeOK, NEW t \in Callers, NEW place \in Places, LookAt(t, place)
    PROVE  /\ cbAt' \in [Callers -> Places \cup {"none"}]
           /\ cbStep' \in [Callers -> {"look", "name", "give"}]
           /\ \A u \in Callers \ {t} : cbAt'[u] = cbAt[u] /\ cbStep'[u] = cbStep[u]
           /\ sems[Duty[place].s] = 0
                => cbAt'[t] = place /\ cbStep'[t] \in {"name", "give"}
           /\ sems[Duty[place].s] = 0 /\ Duty[place].s = "ack_sem"
                => cbStep'[t] = "name"
           /\ sems[Duty[place].s] = 0 /\ Duty[place].s # "ack_sem"
                => cbStep'[t] = "give"
           /\ sems[Duty[place].s] # 0
                => cbAt'[t] = Duty[place].else /\ cbStep'[t] = cbStep[t]
  <1>1. /\ cbAt \in [Callers -> Places \cup {"none"}]
        /\ cbStep \in [Callers -> {"look", "name", "give"}]
    BY DEF TypeOK
  <1>2. Duty[place].else \in Places \cup {"none"}
    BY DutyTypes
  <1>3. CASE sems[Duty[place].s] = 0
    <2> DEFINE v == IF Duty[place].s = "ack_sem" THEN "name" ELSE "give"
    <2>1. v \in {"name", "give"}  OBVIOUS
    <2>2. cbAt' = [cbAt EXCEPT ![t] = place] /\ cbStep' = [cbStep EXCEPT ![t] = v]
      BY <1>3, Zenon DEF LookAt
    <2>3. (Duty[place].s = "ack_sem" => v = "name")
          /\ (Duty[place].s # "ack_sem" => v = "give")
      OBVIOUS
    <2> HIDE DEF v
    <2> QED  BY <1>1, <1>3, <2>1, <2>2, <2>3
  <1>4. CASE sems[Duty[place].s] # 0
    <2>1. cbAt' = [cbAt EXCEPT ![t] = Duty[place].else] /\ cbStep' = cbStep
      BY <1>4, Zenon DEF LookAt
    <2> QED  BY <1>1, <1>2, <1>4, <2>1
  <1> QED  BY <1>3, <1>4

\* Naming what ended the wait, and releasing.
LEMMA NameFacts ==
    ASSUME TypeOK, NEW t \in Callers, CbName(t)
    PROVE  /\ cbAt[t] \in Places /\ cbStep[t] = "name"
           /\ cbStep' \in [Callers -> {"look", "name", "give"}]
           /\ cbStep'[t] = "give"
           /\ \A u \in Callers \ {t} : cbStep'[u] = cbStep[u]
           /\ ack_seq_num' \in SeqNums \cup {-1}
           /\ cbAt[t] # "acked" => ack_seq_num' = -1
  BY DEF TypeOK, CbName

LEMMA GiveFacts ==
    ASSUME TypeOK, NEW t \in Callers, CbGive(t)
    PROVE  /\ cbAt[t] \in Places /\ cbStep[t] = "give"
           /\ cbAt' \in [Callers -> Places \cup {"none"}]
           /\ cbStep' \in [Callers -> {"look", "name", "give"}]
           /\ cbAt'[t] = Duty[cbAt[t]].zero /\ cbStep'[t] = "look"
           /\ \A u \in Callers \ {t} : cbAt'[u] = cbAt[u] /\ cbStep'[u] = cbStep[u]
           /\ sems' \in [Sems -> Nat]
           /\ \A s \in Sems : (Duty[cbAt[t]].s = s => sems'[s] = sems[s] + 1)
                              /\ (Duty[cbAt[t]].s # s => sems'[s] = sems[s])
  <1>1. cbAt[t] \in Places /\ cbStep[t] = "give"
    BY DEF TypeOK, CbGive
  <1> DEFINE d == Duty[cbAt[t]]
  <1>2. d.s \in Sems /\ d.zero \in Places \cup {"none"}
    BY <1>1, DutyTypes
  <1>3. /\ sems' = [sems EXCEPT ![d.s] = @ + 1]
        /\ cbAt' = [cbAt EXCEPT ![t] = d.zero]
        /\ cbStep' = [cbStep EXCEPT ![t] = "look"]
    BY DEF CbGive
  <1> HIDE DEF d
  <1>4. /\ sems' \in [Sems -> Nat]
        /\ \A s \in Sems : (d.s = s => sems'[s] = sems[s] + 1)
                           /\ (d.s # s => sems'[s] = sems[s])
    BY <1>2, <1>3 DEF TypeOK
  <1>5. /\ cbAt' \in [Callers -> Places \cup {"none"}] /\ cbAt'[t] = d.zero
        /\ cbStep' \in [Callers -> {"look", "name", "give"}] /\ cbStep'[t] = "look"
        /\ \A u \in Callers \ {t} : cbAt'[u] = cbAt[u] /\ cbStep'[u] = cbStep[u]
    BY <1>2, <1>3 DEF TypeOK
  <1> QED  BY <1>1, <1>4, <1>5 DEF d

LEMMA CountStep ==
    ASSUME NEW f \in [Sems -> Nat], NEW s \in Sems
    PROVE  [f EXCEPT ![s] = @ + 1] \in [Sems -> Nat]
  OBVIOUS

LEMMA TypeInit == Init => Inv0
  <1> SUFFICES ASSUME Init PROVE Inv0  OBVIOUS
  <1> USE DEF Init, Sems, SeqNums, Half, Frames, BlankFrame, PCs, Sites
  <1>1. tx_q \in Seq([pkt : Packets, retries : 0..MaxRetries]) OBVIOUS
  <1>2. sems \in [Sems -> Nat] OBVIOUS
  <1>3. frame_seq_num \in SeqNums OBVIOUS
  <1>4. ack_seq_num \in SeqNums \cup {-1} OBVIOUS
  <1>5. pc \in PCs /\ saw0 \in BOOLEAN OBVIOUS
  <1>6. txbuf \in [Half -> Frames] OBVIOUS
  <1>7. air \in [pkt : Packets \cup {NoPacket}, seq : SeqNums, half : Half] OBVIOUS
  <1>8. granted \in [Packets -> 0..MaxRetries] OBVIOUS
  <1>9. TypeOK
    <2>1. xfer \in BOOLEAN
      BY Zenon
    <2>5. n_sent \in Nat /\ idx \in Half /\ room \in 0..SlotRoom
      OBVIOUS
    <2>2. radio \in {"idle", "queued", "txing", "await", "listen"}
      OBVIOUS
    <2>3. heard \in BOOLEAN /\ attempts \in [Packets -> Nat] /\ rcvd \subseteq Packets
      OBVIOUS
    <2>4. outcome \in [Packets ->
            {"new", "rejected", "queued", "confirmed", "dropped"}]
      OBVIOUS
    <2>6. cbAt \in [Callers -> Places \cup {"none"}]
      OBVIOUS
    <2>7. cbStep \in [Callers -> {"look", "name", "give"}] /\ rx_seq \in SeqNums
      OBVIOUS
    <2> QED
      BY <1>1, <1>2, <1>3, <1>4, <1>5, <1>6, <1>7, <1>8, <2>1, <2>2, <2>3, <2>4,
         <2>5, <2>6, <2>7, Zenon DEF TypeOK
  <1>10. HeadThere
    BY DEF HeadThere, Holding
  <1> QED  BY <1>9, <1>10 DEF Inv0

\* The table of release sites: the semaphore and the continuation.
LEMMA SiteFacts ==
    /\ Site["err_sem"].s = "sem" /\ Site["err_sem"].next = "err_lock"
    /\ Site["err_lock"].s = "write_tx_lock" /\ Site["err_lock"].next = "err_ack"
    /\ Site["err_ack"].s = "ack_sem" /\ Site["err_ack"].next = "again"
    /\ Site["ack_got"].s = "ack_sem" /\ Site["ack_got"].next = "verify"
    /\ Site["drained"].s = "sem" /\ Site["drained"].next = "idle"
  BY DEF Site

\* The variables that most steps change; the rest keep their types because
\* they keep their values.
LEMMA TypeMoves ==
    ASSUME Inv0,
           pc' \in PCs, saw0' \in BOOLEAN, sems' \in [Sems -> Nat],
           room' \in 0..SlotRoom, ack_seq_num' \in SeqNums \cup {-1},
           radio' \in {"idle", "queued", "txing", "await", "listen"},
           pc' \in Holding => pc \in Holding,
           UNCHANGED <<cbVars, tx_q, frame_seq_num, xfer, n_sent, idx, txbuf,
                       air, heard, histVars>>
    PROVE  Inv0'
  <1>1. TypeOK'  BY DEF Inv0, TypeOK, histVars, cbVars
  <1>2. HeadThere'  BY DEF Inv0, HeadThere
  <1> QED  BY <1>1, <1>2 DEF Inv0

LEMMA PendType ==
    ASSUME Inv0, NEW s \in Sems, Pend(s)
    PROVE  sems' \in [Sems -> Nat]
  <1>1. sems \in [Sems -> Nat] /\ sems[s] > 0 /\ sems' = [sems EXCEPT ![s] = @ - 1]
    BY DEF Inv0, TypeOK, Pend
  <1> QED  BY <1>1

\* Every step that only moves the task and changes counts.
LEMMA TypeSync ==
    ASSUME Inv0,
           PendLock \/ PendSem \/ PendAck \/ AwaitAck \/ Drain \/ RxPend
             \/ RxWait \/ RxRelease \/ ReadCount \/ ReleaseSeen
    PROVE  Inv0'
  <1>0. /\ {"sem", "write_tx_lock", "ack_sem"} = Sems
        /\ sems \in [Sems -> Nat] /\ saw0 \in BOOLEAN /\ room \in 0..SlotRoom
        /\ ack_seq_num \in SeqNums \cup {-1}
        /\ radio \in {"idle", "queued", "txing", "await", "listen"}
    BY DEF Inv0, TypeOK, Sems
  <1>1. CASE PendLock \/ PendSem \/ PendAck \/ AwaitAck \/ Drain \/ RxPend
               \/ RxWait
    <2>1. /\ UNCHANGED <<cbVars, tx_q, frame_seq_num, ack_seq_num, xfer, n_sent, idx,
                         room, txbuf, radio, air, heard, histVars, saw0>>
          /\ \E t \in Sems : Pend(t)
      BY <1>0, <1>1 DEF PendLock, PendSem, PendAck, AwaitAck, Drain, RxPend,
                        RxWait, Goto
    <2>2. pc' \in PCs /\ (pc' \in Holding => pc \in Holding)
      BY <1>1 DEF PendLock, PendSem, PendAck, AwaitAck, Drain, RxPend, RxWait,
                  Goto, PCs, Sites, Holding
    <2>3. sems' \in [Sems -> Nat]  BY <2>1, PendType
    <2> QED  BY <1>0, <2>1, <2>2, <2>3, TypeMoves
  <1>2. CASE RxRelease
    <2>1. sems' \in [Sems -> Nat]  BY <1>0, <1>2, CountStep DEF RxRelease
    <2>2. pc' \in PCs /\ (pc' \in Holding => pc \in Holding)
      BY <1>2 DEF RxRelease, Goto, PCs, Holding
    <2> QED  BY <1>0, <1>2, <2>1, <2>2, TypeMoves DEF RxRelease, Goto
  <1>3. CASE ReadCount
    <2>1. pc' \in PCs /\ saw0' \in BOOLEAN
      <3>1. CASE sems[Site[pc].s] = 0
        BY <1>3, <3>1, Zenon DEF ReadCount, Inv0, TypeOK
      <3>2. CASE sems[Site[pc].s] # 0
        <4>1. pc' = Site[pc].next /\ saw0' = saw0
          BY <1>3, <3>2, Zenon DEF ReadCount, Goto
        <4> QED  BY <1>0, <1>3, <4>1, SiteFacts DEF ReadCount, Sites, PCs
      <3> QED  BY <3>1, <3>2
    <2>2. pc' \in Holding => pc \in Holding
      BY <1>3, SiteFacts DEF ReadCount, Sites, Holding, Goto
    <2>3. UNCHANGED <<cbVars, tx_q, sems, frame_seq_num, ack_seq_num, xfer, n_sent,
                      idx, room, txbuf, radio, air, heard, histVars>>
      BY <1>3 DEF ReadCount
    <2> QED  BY <1>0, <2>1, <2>2, <2>3, TypeMoves
  <1>4. CASE ReleaseSeen
    <2>1. pc' \in PCs /\ saw0' \in BOOLEAN
      BY <1>4, SiteFacts DEF ReleaseSeen, Sites, PCs
    <2>2. pc' \in Holding => pc \in Holding
      BY <1>4, SiteFacts DEF ReleaseSeen, Sites, Holding
    <2>3. sems' \in [Sems -> Nat]
      <3>1. Site[pc].s \in Sems  BY <1>0, <1>4, SiteFacts DEF ReleaseSeen, Sites
      <3>2. sems' = [sems EXCEPT ![Site[pc].s] = @ + 1]
        BY <1>4 DEF ReleaseSeen
      <3> QED  BY <1>0, <3>1, <3>2, CountStep
    <2>4. UNCHANGED <<cbVars, tx_q, frame_seq_num, ack_seq_num, xfer, n_sent,
                      idx, room, txbuf, radio, air, heard, histVars>>
      BY <1>4 DEF ReleaseSeen
    <2> QED  BY <1>0, <2>1, <2>2, <2>3, <2>4, TypeMoves
  <1> QED  BY <1>1, <1>2, <1>3, <1>4

LEMMA TypeStart ==
    ASSUME Inv0, StartTx
    PROVE  Inv0'
  <1>1. tx_q # <<>> /\ Head(tx_q) \in Mbufs
    BY QueueFacts DEF Inv0, HeadThere, Holding, StartTx, TypeOK, Mbufs
  <1>2. txbuf[idx] \in Frames
    BY DEF Inv0, TypeOK
  <1>3. attempts' \in [Packets -> Nat]
    <2>1. attempts' = [attempts EXCEPT ![Head(tx_q).pkt] = @ + 1]
      BY DEF StartTx
    <2>2. attempts \in [Packets -> Nat]  BY DEF Inv0, TypeOK
    <2>3. Head(tx_q).pkt \in Packets  BY <1>1 DEF Mbufs
    <2> QED  BY <2>1, <2>2, <2>3
  <1>4. /\ radio' = "queued" /\ heard' \in BOOLEAN /\ n_sent' \in Nat
        /\ air' \in [pkt : Packets \cup {NoPacket}, seq : SeqNums, half : Half]
    <2>1. radio' = "queued" /\ heard' \in BOOLEAN
      BY Zenon DEF StartTx
    <2>2. n_sent' \in Nat  BY DEF Inv0, TypeOK, StartTx
    <2>3. air' = [pkt |-> txbuf[idx].pkt, seq |-> txbuf[idx].seq, half |-> idx]
          /\ idx \in Half
      BY DEF StartTx, Inv0, TypeOK
    <2> QED  BY <1>2, <2>1, <2>2, <2>3 DEF Frames
  <1>5. (pc' = "ack_wait" \/ pc' = "done") /\ saw0' = saw0
    BY DEF StartTx, Goto
  <1> QED
    BY <1>1, <1>3, <1>4, <1>5
    DEF Inv0, TypeOK, HeadThere, StartTx, PCs, cbVars

LEMMA TypeWrite ==
    ASSUME Inv0, WriteTx
    PROVE  Inv0'
  <1>1. tx_q # <<>> /\ Head(tx_q) \in Mbufs
    BY QueueFacts DEF Inv0, HeadThere, Holding, WriteTx, TypeOK, Mbufs
  <1>2. /\ pc' = "sem" /\ saw0' = saw0 /\ xfer' = TRUE
        /\ UNCHANGED <<cbVars, tx_q, sems, ack_seq_num, room, radio, air, heard,
                       histVars>>
    BY DEF WriteTx, Goto
  <1>3. CASE xfer
    BY <1>1, <1>2, <1>3
    DEF Inv0, TypeOK, HeadThere, WriteTx, PCs, histVars, cbVars
  <1>4. CASE ~xfer
    <2>1. frame_seq_num' \in SeqNums /\ n_sent' \in Nat /\ idx' \in Half
      BY <1>4, SeqNumStep DEF WriteTx, Inv0, TypeOK, Half
    <2>2. txbuf' \in [Half -> Frames]
      <3> DEFINE w == [pkt |-> Head(tx_q).pkt, seq |-> frame_seq_num']
      <3>1. w \in Frames  BY <1>1, <2>1 DEF Frames, Mbufs
      <3>2. txbuf' = [txbuf EXCEPT ![idx'] = w]  BY <1>4 DEF WriteTx
      <3>3. txbuf \in [Half -> Frames]  BY DEF Inv0, TypeOK
      <3> HIDE DEF w
      <3> QED  BY <3>1, <3>2, <3>3
    <2> QED
      BY <1>1, <1>2, <2>1, <2>2
      DEF Inv0, TypeOK, HeadThere, PCs, histVars, cbVars
  <1> QED  BY <1>3, <1>4

\* A packet leaves the queue, or its retries are written back.
LEMMA TypeVerify ==
    ASSUME Inv0, VerifyOk \/ VerifyDrop \/ VerifyRetry \/ Done
    PROVE  Inv0'
  <1>1. tx_q # <<>> /\ pc \in {"verify", "done"}
    BY DEF Inv0, HeadThere, Holding, VerifyOk, VerifyDrop, VerifyRetry, Done
  <1>2. tx_q \in Seq(Mbufs)
    BY DEF Inv0, TypeOK, Mbufs
  <1>3. Head(tx_q) \in Mbufs /\ Tail(tx_q) \in Seq(Mbufs) /\ Head(tx_q) = tx_q[1]
        /\ 1 \in DOMAIN tx_q
    BY <1>1, <1>2, QueueFacts
  <1>4. CASE VerifyOk
    BY <1>1, <1>4 DEF VerifyOk, Inv0, TypeOK, HeadThere, PCs, histVars, cbVars, Goto
  <1>5. CASE VerifyDrop
    <2>1. outcome' \in [Packets ->
            {"new", "rejected", "queued", "confirmed", "dropped"}]
      BY <1>3, <1>5 DEF VerifyDrop, Inv0, TypeOK, Mbufs
    <2> QED
      BY <1>3, <1>5, <2>1
      DEF VerifyDrop, Inv0, TypeOK, HeadThere, Holding, PCs, Goto, Mbufs, cbVars
  <1>6. CASE VerifyRetry
    <2>1. tx_q' \in Seq(Mbufs) /\ tx_q' # <<>>
      <3>1. n_sent \in Nat /\ n_sent <= tx_q[1].retries
        BY <1>3, <1>6 DEF VerifyRetry, Inv0, TypeOK
      <3> DEFINE m == [tx_q[1] EXCEPT !.retries = @ - n_sent]
      <3>2. m \in Mbufs  BY <1>3, <3>1 DEF Mbufs
      <3>3. tx_q' = [tx_q EXCEPT ![1] = m]  BY <1>6 DEF VerifyRetry
      <3> HIDE DEF m
      <3> QED  BY <1>1, <1>2, <1>3, <3>2, <3>3
    <2> QED
      BY <1>6, <2>1
      DEF VerifyRetry, Inv0, TypeOK, HeadThere, Holding, PCs, Goto, Mbufs, cbVars,
          histVars
  <1>7. CASE Done
    <2>1. outcome' \in [Packets ->
            {"new", "rejected", "queued", "confirmed", "dropped"}]
      BY <1>3, <1>7 DEF Done, Inv0, TypeOK, Mbufs
    <2> QED
      BY <1>3, <1>7, <2>1
      DEF Done, Inv0, TypeOK, HeadThere, Holding, PCs, Goto, Mbufs, cbVars
  <1> QED  BY <1>4, <1>5, <1>6, <1>7

\* The remaining steps of the task and of its callers.
LEMMA TypeTask ==
    ASSUME Inv0,
           \/ \E p \in Packets, r \in 0..MaxRetries : Enqueue(p, r)
           \/ SlotEmpty \/ (\E r \in 0..SlotRoom : Slot(r))
           \/ Loop \/ (\E r \in 0..SlotRoom : StartTxError(r)) \/ Again
           \/ \E b \in BOOLEAN : RxStart(b)
    PROVE  Inv0'
  <1> USE DEF Inv0, TypeOK, HeadThere, Holding, PCs, Sites, histVars, cbVars, Goto
  <1>1. ASSUME NEW p \in Packets, NEW r \in 0..MaxRetries, Enqueue(p, r)
        PROVE  Inv0'
    <2>1. UNCHANGED <<cbVars, sems, frame_seq_num, ack_seq_num, taskVars, txbuf,
                      radio, air, heard, attempts, rcvd>>
      BY <1>1 DEF Enqueue
    <2>2. outcome' \in [Packets ->
            {"new", "rejected", "queued", "confirmed", "dropped"}]
      <3>1. \/ outcome' = [outcome EXCEPT ![p] = "queued"]
            \/ outcome' = [outcome EXCEPT ![p] = "rejected"]
        BY <1>1 DEF Enqueue
      <3>2. outcome \in [Packets ->
              {"new", "rejected", "queued", "confirmed", "dropped"}]
        OBVIOUS
      <3> HIDE DEF Inv0
      <3> QED  BY <3>1, <3>2
    <2>3. granted' \in [Packets -> 0..MaxRetries]
      <3>1. granted' = granted \/ granted' = [granted EXCEPT ![p] = r]
        BY <1>1 DEF Enqueue
      <3>2. granted \in [Packets -> 0..MaxRetries]  OBVIOUS
      <3> HIDE DEF Inv0
      <3> QED  BY <3>1, <3>2
    <2>4. /\ tx_q' \in Seq([pkt : Packets, retries : 0..MaxRetries])
          /\ tx_q # <<>> => tx_q' # <<>>
      <3>1. tx_q' = Append(tx_q, [pkt |-> p, retries |-> r]) \/ tx_q' = tx_q
        BY <1>1 DEF Enqueue
      <3>2. [pkt |-> p, retries |-> r] \in Mbufs /\ tx_q \in Seq(Mbufs)
        BY DEF Mbufs
      <3>3. tx_q' \in Seq(Mbufs) /\ (tx_q # <<>> => tx_q' # <<>>)
        <4> HIDE DEF Inv0
        <4> QED  BY <3>1, <3>2, AppendFacts
      <3> QED  BY <3>3, Zenon DEF Mbufs
    <2>5. UNCHANGED <<cbAt, cbStep, rx_seq, sems, frame_seq_num, ack_seq_num, pc, saw0, xfer, n_sent,
                      idx, room, txbuf, radio, air, heard, attempts, rcvd>>
      BY <2>1 DEF taskVars
    <2>6. TypeOK'
      <3> HIDE DEF PCs, Sites, Holding
      <3> QED  BY <2>2, <2>3, <2>4, <2>5
    <2>7. HeadThere'
      BY <2>4, <2>5
    <2> QED  BY <2>6, <2>7, Zenon
  <1>2. CASE SlotEmpty  BY <1>2 DEF SlotEmpty
  <1>3. ASSUME NEW r \in 0..SlotRoom, Slot(r) PROVE Inv0'
    BY <1>3 DEF Slot, Half
  <1>4. CASE Loop
    <2>1. room' \in 0..SlotRoom  BY <1>4 DEF Loop
    <2>2. pc' = "drain" \/ pc' = "lock"  BY <1>4 DEF Loop
    <2> QED  BY <1>4, <2>1, <2>2, TypeMoves DEF Loop
  <1>5. ASSUME NEW r \in 0..SlotRoom, StartTxError(r) PROVE Inv0'
    BY <1>5 DEF StartTxError
  <1>6. CASE Again  BY <1>6 DEF Again
  <1>7. ASSUME NEW b \in BOOLEAN, RxStart(b) PROVE Inv0'
    <2>1. pc' = "rx_wait" \/ pc' = "idle"  BY <1>7 DEF RxStart
    <2>2. radio' \in {"idle", "queued", "txing", "await", "listen"}
      BY <1>7 DEF RxStart
    <2>3. sems' \in [Sems -> Nat]
      <3>1. sems \in [Sems -> Nat]  OBVIOUS
      <3>2. sems' = sems \/ sems' = [sems EXCEPT !["sem"] = @ + 1]
        BY <1>7 DEF RxStart
      <3>3. "sem" \in Sems  BY DEF Sems
      <3> HIDE DEF Inv0
      <3> QED  BY <3>1, <3>2, <3>3, CountStep
    <2> QED  BY <1>7, <2>1, <2>2, <2>3, TypeMoves DEF RxStart
  <1> QED  BY <1>1, <1>2, <1>3, <1>4, <1>5, <1>6, <1>7

\* A callback touches neither the queue nor what the task keeps to itself.
LEMMA TypeCallback ==
    ASSUME Inv0,
           cbAt' \in [Callers -> Places \cup {"none"}],
           cbStep' \in [Callers -> {"look", "name", "give"}],
           rx_seq' \in SeqNums, sems' \in [Sems -> Nat],
           ack_seq_num' \in SeqNums \cup {-1},
           radio' \in {"idle", "queued", "txing", "await", "listen"},
           heard' \in BOOLEAN, rcvd' \subseteq Packets,
           UNCHANGED <<tx_q, frame_seq_num, taskVars, txbuf, air, outcome,
                       granted, attempts>>
    PROVE  Inv0'
  <1>1. TypeOK'  BY DEF Inv0, TypeOK, taskVars
  <1>2. HeadThere'  BY DEF Inv0, HeadThere, taskVars
  <1> QED  BY <1>1, <1>2 DEF Inv0

LEMMA TypeCbStep ==
    ASSUME Inv0, NEW t \in Callers, CbStep(t)
    PROVE  Inv0'
  <1>0. /\ TypeOK /\ cbAt[t] \in Places \cup {"none"}
        /\ cbAt \in [Callers -> Places \cup {"none"}]
        /\ rx_seq \in SeqNums /\ sems \in [Sems -> Nat]
        /\ ack_seq_num \in SeqNums \cup {-1}
        /\ radio \in {"idle", "queued", "txing", "await", "listen"}
        /\ heard \in BOOLEAN /\ rcvd \subseteq Packets
    BY DEF Inv0, TypeOK
  <1>1. CASE CbLook(t)
    <2>1. cbAt[t] \in Places /\ LookAt(t, cbAt[t])
      BY <1>0, <1>1 DEF CbLook
    <2> QED  BY <1>0, <1>1, <2>1, LookFacts, TypeCallback DEF CbLook, histVars
  <1>2. CASE CbName(t)
    BY <1>0, <1>2, NameFacts, TypeCallback DEF CbName, histVars
  <1>3. CASE CbGive(t)
    BY <1>0, <1>3, GiveFacts, TypeCallback DEF CbGive, histVars
  <1> QED  BY <1>1, <1>2, <1>3 DEF CbStep

\* The places at which the interrupt task enters a callback.
LEMMA IrqPlaces ==
    /\ "irq" \in Callers
    /\ "begins" \in Places /\ "complete" \in Places /\ "acked" \in Places
    /\ "timeout" \in Places /\ "refused" \in Places
  BY DEF Callers, Places

LEMMA TypeIrq ==
    ASSUME Inv0, Irq \/ \E t \in Resetters : Resetter(t)
    PROVE  Inv0'
  <1>0. /\ TypeOK /\ cbAt \in [Callers -> Places \cup {"none"}]
        /\ cbStep \in [Callers -> {"look", "name", "give"}]
        /\ rx_seq \in SeqNums /\ sems \in [Sems -> Nat]
        /\ ack_seq_num \in SeqNums \cup {-1}
        /\ radio \in {"idle", "queued", "txing", "await", "listen"}
        /\ heard \in BOOLEAN /\ rcvd \subseteq Packets
        /\ air.pkt \in Packets \cup {NoPacket}
    BY DEF Inv0, TypeOK
  <1>1. ASSUME NEW place \in Places, IrqCall(place)
        PROVE  /\ cbAt' \in [Callers -> Places \cup {"none"}]
               /\ cbStep' \in [Callers -> {"look", "name", "give"}]
    BY <1>0, <1>1, LookFacts, IrqPlaces DEF IrqCall
  <1>2. CASE TxBegins
    BY <1>0, <1>1, <1>2, IrqPlaces, TypeCallback DEF TxBegins, histVars
  <1>3. CASE TxComplete
    <2>1. radio' = "await" \/ radio' = "idle"  BY <1>3 DEF TxComplete
    <2>2. heard' \in BOOLEAN /\ rcvd' \subseteq Packets
      BY <1>0, <1>3 DEF TxComplete
    <2> QED  BY <1>0, <1>1, <1>3, <2>1, <2>2, IrqPlaces, TypeCallback DEF TxComplete
  <1>4. ASSUME NEW n \in SeqNums, AckReceived(n) PROVE Inv0'
    BY <1>0, <1>1, <1>4, IrqPlaces, TypeCallback DEF AckReceived, histVars
  <1>5. CASE RxTimeout
    BY <1>0, <1>1, <1>5, IrqPlaces, TypeCallback DEF RxTimeout, histVars
  <1>6. CASE ForeignFrame
    <2>1. /\ cbAt' \in [Callers -> Places \cup {"none"}]
          /\ cbStep' \in [Callers -> {"look", "name", "give"}]
      BY <1>0, <1>1, <1>6, IrqPlaces DEF ForeignFrame
    <2> QED  BY <1>0, <1>6, <2>1, TypeCallback DEF ForeignFrame, histVars
  <1>7. CASE ListenEvent
    BY <1>0, <1>1, <1>7, IrqPlaces, TypeCallback DEF ListenEvent, histVars
  <1>8. CASE CbStep("irq")
    BY <1>8, IrqPlaces, TypeCbStep
  <1>9. ASSUME NEW t \in Resetters, Resetter(t) PROVE Inv0'
    <2>1. t \in Callers  BY DEF Callers
    <2>2. CASE Reset(t)
      <3>1. cbAt' \in [Callers -> Places \cup {"none"}]
        BY <1>0, <2>1, <2>2 DEF Reset, Places
      <3> QED  BY <1>0, <2>2, <3>1, TypeCallback DEF Reset, histVars
    <2>3. CASE CbStep(t)  BY <2>1, <2>3, TypeCbStep
    <2> QED  BY <1>9, <2>2, <2>3 DEF Resetter
  <1> QED
    BY <1>2, <1>3, <1>4, <1>5, <1>6, <1>7, <1>8, <1>9 DEF Irq

LEMMA TypeStep == Inv0 /\ [Next]_vars => Inv0'
  <1> SUFFICES ASSUME Inv0, [Next]_vars PROVE Inv0'  OBVIOUS
  <1>1. CASE UNCHANGED vars
    BY <1>1 DEF vars, taskVars, histVars, cbVars, Inv0, TypeOK, HeadThere
  <1>2. CASE Next
    BY <1>2, TypeSync, TypeStart, TypeWrite, TypeVerify, TypeTask, TypeIrq
    DEF Next, Task, StartOutcome
  <1> QED  BY <1>1, <1>2

\* Type correctness of the sender: in particular the retries kept in an mbuf
\* stay in 0..MaxRetries when they are written back, and the task never
\* works on an empty queue, whatever resets, listening and stray frames do.
THEOREM TypeCorrect == Spec => []TypeOK
  <1>1. Spec => []Inv0
    BY TypeInit, TypeStep, PTL DEF Spec
  <1> QED  BY <1>1, PTL DEF Inv0

-----------------------------------------------------------------------------
(* The counts of the semaphores, with every disturbance there is. *)

\* SemBound, which counts the releases still to come in, is inductive once
\* the task is known to remember a zero only where it is about to release.
SemInv == SemBound /\ (saw0 => pc \in Sites)

LEMMA ThreadsFinite ==
    /\ IsFiniteSet(Threads) /\ Cardinality(Threads) \in Nat
    /\ "task" \in Threads /\ Cardinality(Threads) >= 1
    /\ \A s \in Sems : Releasers(s) \in SUBSET Threads
  <1>1. IsFiniteSet(Callers)
    BY FS_Singleton, FS_Union, ResettersAssumption DEF Callers
  <1>2. IsFiniteSet(Threads)
    BY <1>1, FS_Singleton, FS_Union DEF Threads
  <1>3. {"task"} \in SUBSET Threads /\ Cardinality({"task"}) = 1
    BY FS_Singleton DEF Threads
  <1>4. Cardinality({"task"}) <= Cardinality(Threads)
    BY <1>2, <1>3, FS_Subset
  <1>5. \A s \in Sems : Releasers(s) \in SUBSET Threads
    BY DEF Releasers, Threads
  <1> QED  BY <1>2, <1>3, <1>4, <1>5, FS_CardinalityType DEF Threads

\* The four things a step may do to the count of a semaphore and to the
\* threads that are to release it.
LEMMA SemEach ==
    ASSUME Inv0, SemBound, NEW s \in Sems,
           \/ sems'[s] = sems[s] /\ Releasers(s)' \subseteq Releasers(s)
           \/ sems'[s] = 0
           \/ /\ sems'[s] = sems[s] - 1
              /\ Releasers(s)' \subseteq Releasers(s) \cup {"task"}
           \/ /\ sems'[s] = sems[s] + 1
              /\ \E t \in Releasers(s) : Releasers(s)' \subseteq Releasers(s) \ {t}
    PROVE  sems'[s] + Cardinality(Releasers(s)') <= Cardinality(Threads)
  <1> DEFINE R == Releasers(s)
             Q == Releasers(s)'
             n == Cardinality(Threads)
  <1>1. IsFiniteSet(Threads) /\ n \in Nat /\ R \in SUBSET Threads
    BY ThreadsFinite
  <1>2. sems[s] \in Nat /\ sems[s] + Cardinality(R) <= n
    BY DEF Inv0, TypeOK, SemBound
  <1>3. IsFiniteSet(R) /\ Cardinality(R) \in Nat
    BY <1>1, FS_Subset, FS_CardinalityType
  <1>4. Q \in SUBSET Threads
    BY DEF Releasers, Threads
  <1>5. Cardinality(Q) \in Nat /\ Cardinality(Q) <= n
    BY <1>1, <1>4, FS_Subset, FS_CardinalityType
  <1>0. n \in Nat  BY <1>1
  <1> HIDE DEF R, Q, n
  <1>6. ASSUME sems'[s] = sems[s], Q \subseteq R
        PROVE  sems'[s] + Cardinality(Q) <= n
    <2>1. Cardinality(Q) <= Cardinality(R)  BY <1>3, <1>6, FS_Subset
    <2> QED  BY <1>0, <1>2, <1>3, <1>5, <1>6, <2>1
  <1>7. ASSUME sems'[s] = 0 PROVE sems'[s] + Cardinality(Q) <= n
    BY <1>5, <1>7
  <1>8. ASSUME sems'[s] = sems[s] - 1, Q \subseteq R \cup {"task"}
        PROVE  sems'[s] + Cardinality(Q) <= n
    <2>1. /\ IsFiniteSet(R \cup {"task"})
          /\ Cardinality(R \cup {"task"}) <= Cardinality(R) + 1
      <3>1. /\ IsFiniteSet(R \cup {"task"})
            /\ \/ Cardinality(R \cup {"task"}) = Cardinality(R)
               \/ Cardinality(R \cup {"task"}) = Cardinality(R) + 1
        BY <1>3, FS_AddElement
      <3> QED  BY <1>3, <3>1
    <2>2. Cardinality(Q) <= Cardinality(R \cup {"task"})
      BY <1>8, <2>1, FS_Subset
    <2>3. Cardinality(R \cup {"task"}) \in Nat  BY <2>1, FS_CardinalityType
    <2> QED  BY <1>0, <1>2, <1>3, <1>5, <1>8, <2>1, <2>2, <2>3
  <1>9. ASSUME sems'[s] = sems[s] + 1, NEW t \in R, Q \subseteq R \ {t}
        PROVE  sems'[s] + Cardinality(Q) <= n
    <2>1. IsFiniteSet(R \ {t}) /\ Cardinality(R \ {t}) = Cardinality(R) - 1
      BY <1>3, FS_RemoveElement
    <2>2. Cardinality(Q) <= Cardinality(R \ {t})
      BY <1>9, <2>1, FS_Subset
    <2> QED  BY <1>0, <1>2, <1>3, <1>5, <1>9, <2>1, <2>2
  <1> QED  BY <1>6, <1>7, <1>8, <1>9 DEF R, Q, n

\* A look at a count that is not zero, or the naming of an end, leaves the
\* releases to come as they were; a look at a zero adds one to a count of 0.
LEMMA SemLook ==
    ASSUME Inv0, SemInv, NEW t \in Callers, NEW place \in Places,
           cbAt[t] = "none" \/ cbStep[t] = "look",
           cbAt[t] = "none" => cbStep[t] = "look", LookAt(t, place),
           UNCHANGED <<sems, pc, saw0>>
    PROVE  SemInv'
  <1>1. TypeOK  BY DEF Inv0
  <1>2. /\ \A u \in Callers \ {t} : cbAt'[u] = cbAt[u] /\ cbStep'[u] = cbStep[u]
        /\ sems[Duty[place].s] = 0 => cbAt'[t] = place
        /\ sems[Duty[place].s] # 0 => cbStep'[t] = cbStep[t]
    BY <1>1, LookFacts
  <1>3. \A s \in Sems : sems'[s] = 0 \/ (sems'[s] = sems[s] /\ Releasers(s)' \subseteq Releasers(s))
    <2> SUFFICES ASSUME NEW s \in Sems, sems[s] # 0
                 PROVE  Releasers(s)' \subseteq Releasers(s)
      OBVIOUS
    <2>1. \/ cbStep'[t] = "look"
          \/ cbAt'[t] = place /\ Duty[place].s # s
      BY <1>2
    <2> QED  BY <1>2, <2>1 DEF Releasers
  <1>4. SemBound'  BY <1>3, SemEach DEF SemInv, SemBound
  <1> QED  BY <1>4 DEF SemInv

LEMMA SemGive ==
    ASSUME Inv0, SemInv, NEW t \in Callers, CbGive(t), UNCHANGED <<pc, saw0>>
    PROVE  SemInv'
  <1>1. /\ cbAt[t] \in Places /\ cbStep[t] = "give" /\ cbStep'[t] = "look"
        /\ \A u \in Callers \ {t} : cbAt'[u] = cbAt[u] /\ cbStep'[u] = cbStep[u]
        /\ \A s \in Sems : (Duty[cbAt[t]].s = s => sems'[s] = sems[s] + 1)
                           /\ (Duty[cbAt[t]].s # s => sems'[s] = sems[s])
    BY GiveFacts DEF Inv0
  <1>2. cbAt[t] # "none" /\ t # "task"
    BY <1>1, ResettersAssumption DEF Callers, Places
  <1>3. ASSUME NEW s \in Sems
        PROVE  sems'[s] + Cardinality(Releasers(s)') <= Cardinality(Threads)
    <2>1. Releasers(s)' \subseteq Releasers(s) \ {t}
      BY <1>1, <1>2 DEF Releasers
    <2>2. CASE Duty[cbAt[t]].s = s
      <3>1. t \in Releasers(s)  BY <1>1, <1>2, <2>2 DEF Releasers
      <3> QED  BY <1>1, <2>1, <2>2, <3>1, SemEach DEF SemInv
    <2>3. CASE Duty[cbAt[t]].s # s
      BY <1>1, <2>1, <2>3, SemEach DEF SemInv
    <2> QED  BY <2>2, <2>3
  <1> QED  BY <1>3 DEF SemInv, SemBound

\* A thread that is in no callback has its step at "look".
IdleInv == \A t \in Callers : cbAt[t] = "none" => cbStep[t] = "look"

LEMMA SemCbStep ==
    ASSUME Inv0, SemInv, IdleInv, NEW t \in Callers, CbStep(t)
    PROVE  SemInv' /\ IdleInv'
  <1>0. UNCHANGED <<pc, saw0>> /\ TypeOK /\ cbAt[t] \in Places \cup {"none"}
    BY DEF CbStep, CbLook, CbName, CbGive, taskVars, Inv0, TypeOK
  <1>1. CASE CbLook(t)
    <2>1. /\ cbAt[t] \in Places /\ cbStep[t] = "look" /\ LookAt(t, cbAt[t])
          /\ UNCHANGED sems
      BY <1>0, <1>1 DEF CbLook
    <2>2. IdleInv'
      BY <1>0, <2>1, LookFacts DEF IdleInv, Places
    <2> QED  BY <1>0, <2>1, <2>2, SemLook DEF Places
  <1>2. CASE CbName(t)
    <2>1. /\ UNCHANGED <<sems, cbAt>> /\ cbStep[t] = "name" /\ cbAt[t] # "none"
          /\ \A u \in Callers \ {t} : cbStep'[u] = cbStep[u]
      BY <1>0, <1>2, NameFacts DEF CbName
    <2>2. \A s \in Sems : Releasers(s)' \subseteq Releasers(s)
      BY <1>0, <2>1 DEF Releasers
    <2>3. SemBound'  BY <2>1, <2>2, SemEach DEF SemInv, SemBound
    <2> QED  BY <1>0, <2>1, <2>3 DEF SemInv, IdleInv
  <1>3. CASE CbGive(t)
    BY <1>0, <1>3, GiveFacts, SemGive DEF IdleInv
  <1> QED  BY <1>1, <1>2, <1>3 DEF CbStep

LEMMA SemIrq ==
    ASSUME Inv0, SemInv, IdleInv, Irq \/ \E t \in Resetters : Resetter(t)
    PROVE  SemInv' /\ IdleInv'
  <1>0. /\ TypeOK /\ cbAt \in [Callers -> Places \cup {"none"}]
        /\ UNCHANGED <<pc, saw0>>
    BY DEF Inv0, TypeOK, Irq, Resetter, Reset, CbStep, CbLook, CbName, CbGive,
           TxBegins, TxComplete, AckReceived, RxTimeout, ForeignFrame,
           ListenEvent, taskVars
  <1>1. ASSUME NEW place \in Places, IrqCall(place), UNCHANGED sems
        PROVE  SemInv' /\ IdleInv'
    <2>1. cbAt["irq"] = "none" /\ cbStep["irq"] = "look" /\ LookAt("irq", place)
      BY <1>1, IrqPlaces DEF IrqCall, IdleInv
    <2>2. SemInv'  BY <1>0, <1>1, <2>1, IrqPlaces, SemLook
    <2>3. IdleInv'  BY <1>0, <2>1, IrqPlaces, LookFacts DEF IdleInv, Places
    <2> QED  BY <2>2, <2>3
  <1>2. ASSUME UNCHANGED <<sems, cbAt, cbStep>> PROVE SemInv' /\ IdleInv'
    BY <1>0, <1>2 DEF SemInv, SemBound, Releasers, IdleInv
  <1>3. CASE TxBegins \/ TxComplete \/ RxTimeout \/ ListenEvent
             \/ \E n \in SeqNums : AckReceived(n)
    BY <1>1, <1>3, IrqPlaces
    DEF TxBegins, TxComplete, RxTimeout, ListenEvent, AckReceived
  <1>4. CASE ForeignFrame
    BY <1>1, <1>2, <1>4, IrqPlaces DEF ForeignFrame
  <1>5. CASE CbStep("irq")
    BY <1>5, IrqPlaces, SemCbStep
  <1>6. ASSUME NEW t \in Resetters, Resetter(t) PROVE SemInv' /\ IdleInv'
    <2>1. t \in Callers  BY DEF Callers
    <2>2. CASE Reset(t)
      <3>1. /\ cbAt[t] = "none" /\ cbStep[t] = "look" /\ UNCHANGED <<sems, cbStep>>
            /\ cbAt' = [cbAt EXCEPT ![t] = "rs_ack"]
        BY <2>1, <2>2 DEF Reset, IdleInv
      <3>2. \A u \in Callers \ {t} : cbAt'[u] = cbAt[u]
        BY <1>0, <3>1
      <3>3. \A s \in Sems : Releasers(s)' \subseteq Releasers(s)
        BY <1>0, <3>1, <3>2 DEF Releasers
      <3>4. SemBound'  BY <3>1, <3>3, SemEach DEF SemInv, SemBound
      <3> QED  BY <1>0, <3>1, <3>2, <3>4 DEF SemInv, IdleInv
    <2>3. CASE CbStep(t)  BY <2>1, <2>3, SemCbStep
    <2> QED  BY <1>6, <2>2, <2>3 DEF Resetter
  <1> QED  BY <1>3, <1>4, <1>5, <1>6 DEF Irq

\* A step of the task that pends or leaves the counts alone, from a place
\* that is not a release site.
LEMMA SemTask ==
    ASSUME Inv0, SemInv, pc \notin Sites, UNCHANGED <<saw0, cbAt, cbStep>>,
           \/ UNCHANGED sems /\ pc' \notin {"rx_start", "rx_release"}
           \/ \E s \in Sems : Pend(s) /\ (pc' \in {"rx_start", "rx_release"} => s = "sem")
    PROVE  SemInv'
  <1>1. saw0' = FALSE /\ saw0 = FALSE  BY DEF SemInv, Inv0, TypeOK
  <1>2. CASE UNCHANGED sems /\ pc' \notin {"rx_start", "rx_release"}
    <2>1. \A s \in Sems : Releasers(s)' \subseteq Releasers(s)
      BY <1>1, <1>2 DEF Releasers
    <2>2. SemBound'  BY <1>2, <2>1, SemEach DEF SemInv, SemBound
    <2> QED  BY <1>1, <2>2 DEF SemInv
  <1>3. ASSUME NEW s \in Sems, Pend(s),
               pc' \in {"rx_start", "rx_release"} => s = "sem"
        PROVE  SemInv'
    <2>1. \A r \in Sems : sems'[r] = IF r = s THEN sems[r] - 1 ELSE sems[r]
      BY <1>3 DEF Pend, Inv0, TypeOK
    <2>2. \A r \in Sems : Releasers(r)' \subseteq Releasers(r) \cup {"task"}
      BY <1>1 DEF Releasers
    <2>3. \A r \in Sems : r # s => Releasers(r)' \subseteq Releasers(r)
      BY <1>1, <1>3 DEF Releasers
    <2>4. SemBound'  BY <2>1, <2>2, <2>3, SemEach DEF SemInv, SemBound
    <2> QED  BY <1>1, <2>4 DEF SemInv
  <1> QED  BY <1>2, <1>3

LEMMA SemStep == Inv0 /\ SemInv /\ IdleInv /\ [Next]_vars => SemInv' /\ IdleInv'
  <1> SUFFICES ASSUME Inv0, SemInv, IdleInv, [Next]_vars PROVE SemInv' /\ IdleInv'
    OBVIOUS
  <1> USE DEF Goto
  <1>1. CASE UNCHANGED vars
    BY <1>1 DEF vars, taskVars, cbVars, SemInv, SemBound, Releasers, IdleInv
  <1>2. CASE Irq \/ \E t \in Resetters : Resetter(t)
    BY <1>2, SemIrq
  <1>3. CASE \E p \in Packets, r \in 0..MaxRetries : Enqueue(p, r)
    BY <1>3 DEF Enqueue, taskVars, cbVars, SemInv, SemBound, Releasers, IdleInv
  <1>4. SlotEmpty \/ (\E r \in 0..SlotRoom : Slot(r)) \/ Task => IdleInv'
    BY DEF Task, SlotEmpty, Slot, Loop, PendLock, WriteTx, PendSem, PendAck,
           StartOutcome, StartTx, StartTxError, ReadCount, ReleaseSeen,
           AwaitAck, VerifyOk, VerifyDrop, VerifyRetry, Done, Again, Drain,
           RxPend, RxStart, RxWait, RxRelease, cbVars, IdleInv
  <1>5. CASE ReadCount
    <2>1. UNCHANGED <<sems, cbAt, cbStep>> /\ pc \in Sites /\ saw0 = FALSE
      BY <1>5 DEF ReadCount, Inv0, TypeOK, cbVars
    <2>2. CASE sems[Site[pc].s] = 0
      <3>1. pc' = pc  BY <1>5, <2>2 DEF ReadCount
      <3>2. \A s \in Sems : sems[s] = 0 \/ Releasers(s)' \subseteq Releasers(s)
        BY <2>1, <2>2, <3>1 DEF Releasers
      <3>3. SemBound'  BY <2>1, <3>2, SemEach DEF SemInv, SemBound
      <3> QED  BY <1>4, <1>5, <2>1, <3>1, <3>3 DEF SemInv, Task
    <2>3. CASE sems[Site[pc].s] # 0
      <3>1. pc' = Site[pc].next /\ saw0' = FALSE
        BY <1>5, <2>1, <2>3, Zenon DEF ReadCount
      <3>2. pc' \notin {"rx_start", "rx_release"}
        BY <2>1, <3>1, SiteFacts DEF Sites
      <3>3. \A s \in Sems : Releasers(s)' \subseteq Releasers(s)
        BY <2>1, <3>1, <3>2 DEF Releasers
      <3>4. SemBound'  BY <2>1, <3>3, SemEach DEF SemInv, SemBound
      <3> QED  BY <1>4, <1>5, <3>1, <3>4 DEF SemInv, Task
    <2> QED  BY <2>2, <2>3
  <1>6. CASE ReleaseSeen
    <2>1. /\ pc \in Sites /\ saw0 /\ saw0' = FALSE /\ pc' = Site[pc].next
          /\ UNCHANGED <<cbAt, cbStep>>
      BY <1>6 DEF ReleaseSeen, cbVars
    <2>2. pc' \notin {"rx_start", "rx_release"} /\ Site[pc].s \in Sems
      BY <2>1, SiteFacts DEF Sites, Sems
    <2>3. \A r \in Sems : (Site[pc].s = r => sems'[r] = sems[r] + 1)
                         /\ (Site[pc].s # r => sems'[r] = sems[r])
      BY <1>6, <2>2 DEF ReleaseSeen, Inv0, TypeOK
    <2>4. \A s \in Sems : Releasers(s)' \subseteq Releasers(s) \ {"task"}
      BY <2>1, <2>2, ResettersAssumption DEF Releasers, Callers
    <2>5. "task" \in Releasers(Site[pc].s)
      BY <2>1 DEF Releasers
    <2>6. SemBound'  BY <2>3, <2>4, <2>5, SemEach DEF SemInv, SemBound
    <2> QED  BY <1>4, <1>6, <2>1, <2>6 DEF SemInv, Task
  <1>7. CASE RxRelease \/ \E b \in BOOLEAN : RxStart(b)
    <2>1. pc \in {"rx_start", "rx_release"} /\ pc' \in {"rx_wait", "idle"}
          /\ UNCHANGED <<saw0, cbAt, cbStep>>
      BY <1>7 DEF RxRelease, RxStart, cbVars
    <2>2. saw0 = FALSE /\ saw0' = FALSE
      BY <2>1 DEF SemInv, Sites, Inv0, TypeOK
    <2>3. \/ UNCHANGED sems
          \/ \A r \in Sems : (r = "sem" => sems'[r] = sems[r] + 1)
                            /\ (r # "sem" => sems'[r] = sems[r])
      BY <1>7 DEF RxRelease, RxStart, Inv0, TypeOK
    <2>4. \A s \in Sems : Releasers(s)' \subseteq Releasers(s) \ {"task"}
      BY <2>1, <2>2, ResettersAssumption DEF Releasers, Callers
    <2>5. "task" \in Releasers("sem")
      BY <2>1 DEF Releasers
    <2>6. SemBound'  BY <2>3, <2>4, <2>5, SemEach DEF SemInv, SemBound
    <2> QED  BY <1>4, <1>7, <2>2, <2>6 DEF SemInv, Task
  <1>8. CASE PendLock \/ PendSem \/ PendAck \/ AwaitAck \/ Drain \/ RxPend \/ RxWait
    <2>1. pc \notin Sites /\ UNCHANGED <<saw0, cbAt, cbStep>>
      BY <1>8 DEF PendLock, PendSem, PendAck, AwaitAck, Drain, RxPend, RxWait,
                  Sites, cbVars
    <2>2. \E s \in Sems : Pend(s) /\ (pc' \in {"rx_start", "rx_release"} => s = "sem")
      <3>1. CASE PendLock
        BY <3>1 DEF PendLock, Sems
      <3>2. CASE PendSem  BY <3>2 DEF PendSem, Sems
      <3>3. CASE PendAck  BY <3>3 DEF PendAck, Sems
      <3>4. CASE AwaitAck  BY <3>4 DEF AwaitAck, Sems
      <3>5. CASE Drain \/ RxPend \/ RxWait
        BY <3>5 DEF Drain, RxPend, RxWait, Sems
      <3> QED  BY <1>8, <3>1, <3>2, <3>3, <3>4, <3>5
    <2> QED  BY <1>4, <1>8, <2>1, <2>2, SemTask DEF Task
  <1>9. CASE \/ SlotEmpty \/ (\E r \in 0..SlotRoom : Slot(r))
             \/ Loop \/ WriteTx \/ StartOutcome
             \/ VerifyOk \/ VerifyDrop \/ VerifyRetry \/ Done \/ Again
    <2>1. pc \notin Sites /\ UNCHANGED <<saw0, sems, cbAt, cbStep>>
      BY <1>9 DEF SlotEmpty, Slot, Loop, WriteTx, StartOutcome, StartTx,
                  StartTxError, VerifyOk, VerifyDrop, VerifyRetry, Done, Again,
                  Sites, cbVars
    <2>2. pc' \notin {"rx_start", "rx_release"}
      BY <1>9 DEF SlotEmpty, Slot, Loop, WriteTx, StartOutcome, StartTx,
                  StartTxError, VerifyOk, VerifyDrop, VerifyRetry, Done, Again
    <2> QED  BY <1>4, <1>9, <2>1, <2>2, SemTask DEF Task
  <1> QED
    BY <1>1, <1>2, <1>3, <1>5, <1>6, <1>7, <1>8, <1>9 DEF Next, Task

\* However many other tasks call uwb_phy_forcetrxoff, and however the steps
\* of all threads fall between each other's "read the count" and "release",
\* a semaphore's count and the releases still to come are together at most
\* the number of threads.
THEOREM SemaphoresBounded == Spec => []SemBound
  <1>1. Init => SemInv /\ IdleInv
    <2> SUFFICES ASSUME Init PROVE SemInv /\ IdleInv  OBVIOUS
    <2>1. \A s \in Sems : Releasers(s) = {}
      BY DEF Init, Releasers, Sites
    <2>2. \A s \in Sems : sems[s] = 1  BY DEF Init
    <2>3. Cardinality({}) = 0  BY FS_EmptySet
    <2>4. Cardinality(Threads) \in Nat /\ Cardinality(Threads) >= 1
      BY ThreadsFinite
    <2>5. SemBound
      <3> SUFFICES ASSUME NEW r \in Sems
                   PROVE  sems[r] + Cardinality(Releasers(r)) <= Cardinality(Threads)
        BY DEF SemBound
      <3>1. Cardinality(Releasers(r)) = 0  BY <2>1, <2>3
      <3>2. sems[r] = 1  BY <2>2
      <3> QED  BY <2>4, <3>1, <3>2
    <2>6. saw0 = FALSE /\ IdleInv  BY DEF Init, IdleInv
    <2> QED  BY <2>5, <2>6 DEF SemInv
  <1>2. Spec => [](Inv0 /\ SemInv /\ IdleInv)
    BY <1>1, TypeInit, TypeStep, SemStep, PTL DEF Spec
  <1> QED  BY <1>2, PTL DEF SemInv

-----------------------------------------------------------------------------
(* The retry budget, with every disturbance there is. *)

\* Between the start of a frame and the verdict on it the attempt is
\* already counted but not yet taken from the retries.
Counted == {"ack_wait", "ack_got", "verify", "done"}

\* Where the packet at the head has no start that the mbuf does not know of.
Fresh == \/ pc \in {"sem", "ack", "start", "err_sem", "err_lock", "err_ack"}
         \/ pc \in {"again", "loop", "lock", "write"} /\ xfer

Unsettled(i) == IF i = 1 /\ pc \in Counted THEN 1 ELSE 0

RetryInv ==
    /\ \A i \in DOMAIN tx_q : outcome[tx_q[i].pkt] = "queued"
    /\ \A i, j \in DOMAIN tx_q : tx_q[i].pkt = tx_q[j].pkt => i = j
    /\ \A i \in DOMAIN tx_q :
          attempts[tx_q[i].pkt] + tx_q[i].retries
            = granted[tx_q[i].pkt] + Unsettled(i)
    /\ \A p \in Packets : outcome[p] \in {"new", "rejected"} => attempts[p] = 0
    /\ RetryContract
    /\ pc \in Counted => n_sent = 1
    /\ Fresh => n_sent = 0

LEMMA RetryQuiet ==
    ASSUME RetryInv, UNCHANGED <<tx_q, outcome, granted, attempts, n_sent>>,
           pc' \in Counted <=> pc \in Counted, Fresh' => Fresh
    PROVE  RetryInv'
  BY DEF RetryInv, RetryContract, Unsettled

\* The head leaves the queue with outcome v.
LEMMA RetryPop ==
    ASSUME Inv0, RetryInv, tx_q # <<>>, pc \in {"verify", "done"}, pc' = "again",
           NEW v \in {"confirmed", "dropped"},
           v = "dropped" => n_sent > Head(tx_q).retries,
           outcome' = [outcome EXCEPT ![Head(tx_q).pkt] = v],
           tx_q' = Tail(tx_q), xfer' = FALSE,
           UNCHANGED <<granted, attempts, n_sent>>
    PROVE  RetryInv'
  <1> DEFINE h == Head(tx_q).pkt
  <1>1. tx_q \in Seq(Mbufs)  BY DEF Inv0, TypeOK, Mbufs
  <1>2. /\ Head(tx_q) = tx_q[1] /\ tx_q[1] \in Mbufs /\ 1 \in DOMAIN tx_q
        /\ DOMAIN tx_q = 1..Len(tx_q) /\ Len(tx_q) \in Nat
        /\ DOMAIN tx_q' = 1..(Len(tx_q) - 1)
        /\ \A i \in DOMAIN tx_q' : tx_q'[i] = tx_q[i + 1] /\ i + 1 \in DOMAIN tx_q
    BY <1>1, QueueFacts
  <1>3. \A i \in DOMAIN tx_q : tx_q[i] \in Mbufs
    BY <1>1
  <1>4. h \in Packets /\ tx_q[1].retries \in Nat
    BY <1>2 DEF Mbufs
  <1>5. attempts[h] + tx_q[1].retries = granted[h] + 1 /\ n_sent = 1
    BY <1>2 DEF RetryInv, Unsettled, Counted
  <1>6. attempts[h] \in Nat /\ granted[h] \in Nat
    BY <1>4 DEF Inv0, TypeOK
  <1>7. \A i \in DOMAIN tx_q' : tx_q'[i].pkt # h
    BY <1>2 DEF RetryInv
  <1>8. \A p \in Packets : outcome'[p] = IF p = h THEN v ELSE outcome[p]
    BY <1>4 DEF Inv0, TypeOK
  <1>9. RetryContract'
    <2>1. v = "dropped" => attempts[h] = granted[h] + 1
      BY <1>2, <1>4, <1>5, <1>6
    <2> QED  BY <1>8, <2>1 DEF RetryInv, RetryContract
  <1>10. \A i \in DOMAIN tx_q' : outcome'[tx_q'[i].pkt] = "queued"
    BY <1>2, <1>3, <1>7, <1>8 DEF RetryInv, Mbufs
  <1>11. \A i, j \in DOMAIN tx_q' : tx_q'[i].pkt = tx_q'[j].pkt => i = j
    BY <1>2 DEF RetryInv
  <1>12. \A i \in DOMAIN tx_q' :
           attempts'[tx_q'[i].pkt] + tx_q'[i].retries
             = granted'[tx_q'[i].pkt] + Unsettled(i)'
    <2> SUFFICES ASSUME NEW i \in DOMAIN tx_q'
                 PROVE  attempts[tx_q'[i].pkt] + tx_q'[i].retries
                          = granted[tx_q'[i].pkt] + Unsettled(i)'
      OBVIOUS
    <2>1. Unsettled(i)' = 0  BY DEF Unsettled, Counted
    <2>2. Unsettled(i + 1) = 0  BY <1>2 DEF Unsettled
    <2> QED  BY <1>2, <2>1, <2>2 DEF RetryInv
  <1>13. \A p \in Packets : outcome'[p] \in {"new", "rejected"} => attempts'[p] = 0
    BY <1>8 DEF RetryInv
  <1>14. (pc' \in Counted => n_sent' = 1) /\ (Fresh' => n_sent' = 0)
    BY DEF Counted, Fresh
  <1> QED  BY <1>9, <1>10, <1>11, <1>12, <1>13, <1>14 DEF RetryInv

LEMMA RetryEnqueue ==
    ASSUME Inv0, RetryInv, NEW p \in Packets, NEW r \in 0..MaxRetries, Enqueue(p, r)
    PROVE  RetryInv'
  <1>1. outcome[p] = "new" /\ attempts[p] = 0
    BY DEF Enqueue, RetryInv
  <1>2. UNCHANGED <<attempts, pc, xfer, n_sent>>
    BY DEF Enqueue, taskVars
  <1>3. tx_q \in Seq(Mbufs) /\ Len(tx_q) \in Nat
    BY DEF Inv0, TypeOK, Mbufs
  <1>4. \A i \in DOMAIN tx_q : tx_q[i].pkt \in Packets /\ tx_q[i].pkt # p
    BY <1>1, <1>3, MbufFacts DEF RetryInv
  <1>5. CASE outcome' = [outcome EXCEPT ![p] = "rejected"] /\ UNCHANGED <<tx_q, granted>>
    <2>1. \A q \in Packets : outcome'[q] = IF q = p THEN "rejected" ELSE outcome[q]
      BY <1>5 DEF Inv0, TypeOK
    <2> QED  BY <1>1, <1>2, <1>4, <1>5, <2>1
        DEF RetryInv, RetryContract, Fresh, Unsettled
  <1>6. CASE /\ outcome' = [outcome EXCEPT ![p] = "queued"]
             /\ tx_q' = Append(tx_q, [pkt |-> p, retries |-> r])
             /\ granted' = [granted EXCEPT ![p] = r]
    <2>1. \A q \in Packets : /\ outcome'[q] = IF q = p THEN "queued" ELSE outcome[q]
                             /\ granted'[q] = IF q = p THEN r ELSE granted[q]
      BY <1>6 DEF Inv0, TypeOK
    <2> DEFINE n == Len(tx_q) + 1
    <2>2. /\ DOMAIN tx_q = 1..Len(tx_q) /\ DOMAIN tx_q' = 1..n
          /\ tx_q'[n] = [pkt |-> p, retries |-> r]
          /\ \A i \in 1..Len(tx_q) : tx_q'[i] = tx_q[i]
      BY <1>3, <1>6
    <2>3. \A i \in 1..n : i \in DOMAIN tx_q \/ i = n
      BY <1>3, <2>2
    <2>4. n = 1 => pc \notin Counted
      BY <1>3 DEF Inv0, HeadThere, Holding, Counted
    <2>5. tx_q'[n].pkt = p /\ tx_q'[n].retries = r
      BY <2>2
    <2>6. \A i \in DOMAIN tx_q' : outcome'[tx_q'[i].pkt] = "queued"
      BY <1>4, <2>1, <2>2, <2>3, <2>5 DEF RetryInv
    <2>7. \A i, j \in DOMAIN tx_q' : tx_q'[i].pkt = tx_q'[j].pkt => i = j
      BY <1>4, <2>2, <2>3, <2>5 DEF RetryInv
    <2>8. \A i \in DOMAIN tx_q' :
             attempts'[tx_q'[i].pkt] + tx_q'[i].retries
               = granted'[tx_q'[i].pkt] + Unsettled(i)'
      <3>1. \A i : Unsettled(i)' = Unsettled(i)  BY <1>2 DEF Unsettled
      <3>2. Unsettled(n) = 0  BY <2>4 DEF Unsettled
      <3>3. ASSUME NEW i \in DOMAIN tx_q
            PROVE  attempts'[tx_q'[i].pkt] + tx_q'[i].retries
                     = granted'[tx_q'[i].pkt] + Unsettled(i)'
        BY <1>2, <1>4, <2>1, <2>2, <3>1 DEF RetryInv
      <3>4. ASSUME NEW i, i = n
            PROVE  attempts'[tx_q'[i].pkt] + tx_q'[i].retries
                     = granted'[tx_q'[i].pkt] + Unsettled(i)'
        BY <1>1, <1>2, <2>1, <2>5, <3>1, <3>2, <3>4
      <3> QED  BY <2>2, <2>3, <3>3, <3>4
    <2>9. RetryContract'
      BY <1>1, <1>2, <2>1 DEF RetryInv, RetryContract
    <2>10. \A q \in Packets : outcome'[q] \in {"new", "rejected"} => attempts'[q] = 0
      BY <1>2, <2>1 DEF RetryInv
    <2>11. (pc' \in Counted => n_sent' = 1) /\ (Fresh' => n_sent' = 0)
      BY <1>2 DEF RetryInv, Fresh
    <2> QED  BY <2>6, <2>7, <2>8, <2>9, <2>10, <2>11 DEF RetryInv
  <1> QED  BY <1>5, <1>6 DEF Enqueue

LEMMA RetryStart ==
    ASSUME Inv0, RetryInv, StartTx
    PROVE  RetryInv'
  <1>1. tx_q \in Seq(Mbufs) /\ tx_q # <<>>
    BY DEF Inv0, TypeOK, HeadThere, Holding, StartTx, Mbufs
  <1>2. Head(tx_q) = tx_q[1] /\ tx_q[1] \in Mbufs /\ 1 \in DOMAIN tx_q
    BY <1>1, QueueFacts
  <1>3. \A i \in DOMAIN tx_q : tx_q[i].pkt \in Packets
    BY <1>1, MbufFacts
  <1>4. /\ UNCHANGED <<tx_q, outcome, granted>> /\ pc = "start"
        /\ n_sent' = n_sent + 1 /\ pc' \in {"ack_wait", "done"}
    BY DEF StartTx, Goto
  <1>5. \A p \in Packets : attempts'[p] = attempts[p] + IF p = tx_q[1].pkt THEN 1 ELSE 0
    BY <1>2, <1>3 DEF StartTx, Inv0, TypeOK
  <1>6. \A p \in Packets : attempts[p] \in Nat /\ granted[p] \in Nat
    BY DEF Inv0, TypeOK
  <1>7. n_sent = 0 /\ \A i : Unsettled(i) = 0
    BY <1>4 DEF RetryInv, Fresh, Unsettled, Counted
  <1>8. \A i : Unsettled(i)' = IF i = 1 THEN 1 ELSE 0
    BY <1>4 DEF Unsettled, Counted
  <1>9. \A i \in DOMAIN tx_q' :
           attempts'[tx_q'[i].pkt] + tx_q'[i].retries
             = granted'[tx_q'[i].pkt] + Unsettled(i)'
    <2> SUFFICES ASSUME NEW i \in DOMAIN tx_q
                 PROVE  attempts'[tx_q[i].pkt] + tx_q[i].retries
                          = granted[tx_q[i].pkt] + Unsettled(i)'
      BY <1>4
    <2>1. tx_q[i].retries \in Nat  BY <1>1, MbufFacts
    <2>2. attempts[tx_q[i].pkt] + tx_q[i].retries = granted[tx_q[i].pkt]
      BY <1>3, <1>6, <1>7, <2>1 DEF RetryInv
    <2>3. i = 1 <=> tx_q[i].pkt = tx_q[1].pkt
      BY <1>2 DEF RetryInv
    <2> QED  BY <1>3, <1>5, <1>6, <1>8, <2>1, <2>2, <2>3
  <1>10. attempts[tx_q[1].pkt] <= granted[tx_q[1].pkt]
    <2>1. tx_q[1].retries \in Nat  BY <1>2 DEF Mbufs
    <2> QED  BY <1>2, <1>3, <1>6, <1>7, <2>1 DEF RetryInv
  <1>11. outcome[tx_q[1].pkt] = "queued"
    BY <1>2 DEF RetryInv
  <1>12. RetryContract' /\ \A p \in Packets : outcome'[p] \in {"new", "rejected"} => attempts'[p] = 0
    BY <1>4, <1>5, <1>6, <1>10, <1>11 DEF RetryInv, RetryContract
  <1>13. (pc' \in Counted => n_sent' = 1) /\ (Fresh' => n_sent' = 0)
    BY <1>4, <1>7 DEF Fresh, Counted
  <1> QED  BY <1>4, <1>9, <1>12, <1>13 DEF RetryInv

LEMMA RetryWriteBack ==
    ASSUME Inv0, RetryInv, VerifyRetry
    PROVE  RetryInv'
  <1>1. tx_q \in Seq(Mbufs) /\ tx_q # <<>>
    BY DEF Inv0, TypeOK, HeadThere, Holding, VerifyRetry, Mbufs
  <1>2. Head(tx_q) = tx_q[1] /\ tx_q[1] \in Mbufs /\ 1 \in DOMAIN tx_q
    BY <1>1, QueueFacts
  <1>3. /\ UNCHANGED <<outcome, granted, attempts>> /\ pc = "verify"
        /\ pc' = "again" /\ n_sent' = 0 /\ n_sent <= tx_q[1].retries
    BY <1>2 DEF VerifyRetry, Goto, histVars
  <1>4. n_sent = 1  BY <1>3 DEF RetryInv, Counted
  <1>5. DOMAIN tx_q' = DOMAIN tx_q
    BY <1>1 DEF VerifyRetry
  <1>6. \A i \in DOMAIN tx_q : /\ tx_q'[i].pkt = tx_q[i].pkt
                               /\ tx_q'[i].retries = tx_q[i].retries - Unsettled(i)
    <2>1. tx_q' = [tx_q EXCEPT ![1].retries = @ - 1]
      BY <1>4 DEF VerifyRetry
    <2>2. ASSUME NEW i \in DOMAIN tx_q, i # 1
          PROVE  tx_q'[i] = tx_q[i] /\ Unsettled(i) = 0
      BY <1>1, <2>1, <2>2 DEF Unsettled
    <2>3. tx_q'[1] = [tx_q[1] EXCEPT !.retries = @ - 1]
      BY <1>1, <1>2, <2>1
    <2>4. tx_q'[1].pkt = tx_q[1].pkt /\ tx_q'[1].retries = tx_q[1].retries - 1
      BY <1>2, <2>3 DEF Mbufs
    <2>5. Unsettled(1) = 1  BY <1>3 DEF Unsettled, Counted
    <2>6. \A i \in DOMAIN tx_q : tx_q[i].retries \in Nat  BY <1>1, MbufFacts
    <2> QED  BY <2>2, <2>4, <2>5, <2>6
  <1>7. \A i : Unsettled(i)' = 0
    BY <1>3 DEF Unsettled, Counted
  <1>8. \A i \in DOMAIN tx_q :
           /\ tx_q[i].pkt \in Packets /\ tx_q[i].retries \in Nat
           /\ Unsettled(i) \in Nat
    BY <1>1, MbufFacts DEF Unsettled
  <1>9. \A p \in Packets : attempts[p] \in Nat /\ granted[p] \in Nat
    BY DEF Inv0, TypeOK
  <1>10. \A i \in DOMAIN tx_q' :
           attempts'[tx_q'[i].pkt] + tx_q'[i].retries
             = granted'[tx_q'[i].pkt] + Unsettled(i)'
    BY <1>3, <1>5, <1>6, <1>7, <1>8, <1>9 DEF RetryInv
  <1>11. RetryContract'  BY <1>3 DEF RetryInv, RetryContract
  <1>12. \A i \in DOMAIN tx_q' : outcome'[tx_q'[i].pkt] = "queued"
    BY <1>3, <1>5, <1>6 DEF RetryInv
  <1>13. \A i, j \in DOMAIN tx_q' : tx_q'[i].pkt = tx_q'[j].pkt => i = j
    BY <1>5, <1>6 DEF RetryInv
  <1>14. \A p \in Packets :
            outcome'[p] \in {"new", "rejected"} => attempts'[p] = 0
    BY <1>3 DEF RetryInv
  <1> QED
    BY <1>3, <1>10, <1>11, <1>12, <1>13, <1>14 DEF RetryInv, Fresh, Counted

LEMMA RetryStep == Inv0 /\ RetryInv /\ [Next]_vars => RetryInv'
  <1> SUFFICES ASSUME Inv0, RetryInv, [Next]_vars PROVE RetryInv'  OBVIOUS
  <1> USE DEF Goto, Counted, Fresh
  <1>1. CASE UNCHANGED vars
    BY <1>1, RetryQuiet DEF vars, taskVars, histVars
  <1>2. CASE \E p \in Packets, r \in 0..MaxRetries : Enqueue(p, r)
    BY <1>2, RetryEnqueue
  <1>3. CASE SlotEmpty
    BY <1>3, RetryQuiet DEF SlotEmpty, histVars
  <1>4. CASE \E r \in 0..SlotRoom : Slot(r)
    BY <1>4 DEF Slot, RetryInv, RetryContract, histVars, Unsettled
  <1>5. CASE Irq \/ \E t \in Resetters : Resetter(t)
    <2>1. UNCHANGED <<tx_q, outcome, granted, attempts, taskVars>>
      BY <1>5 DEF Irq, Resetter, Reset, CbStep, CbLook, CbName, CbGive,
                  TxBegins, TxComplete, AckReceived, RxTimeout, ForeignFrame,
                  ListenEvent, histVars
    <2> QED  BY <2>1, RetryQuiet DEF taskVars
  <1>6. CASE Task
    <2>1. CASE Loop  BY <2>1, RetryQuiet DEF Loop, histVars
    <2>2. CASE PendLock  BY <2>2, RetryQuiet DEF PendLock, histVars
    <2>3. CASE WriteTx
      <3>1. UNCHANGED <<tx_q, outcome, granted, attempts>> /\ pc = "write" /\ pc' = "sem"
        BY <2>3 DEF WriteTx, histVars
      <3>2. n_sent' = 0
        BY <2>3 DEF WriteTx, RetryInv
      <3> QED  BY <3>1, <3>2 DEF RetryInv, RetryContract, Unsettled
    <2>4. CASE PendSem
      <3>1. pc = "sem" /\ pc' \in {"ack", "start"} /\ xfer' = xfer
            /\ UNCHANGED <<tx_q, outcome, granted, attempts, n_sent>>
        BY <2>4 DEF PendSem, histVars
      <3> QED  BY <3>1, RetryQuiet
    <2>5. CASE PendAck  BY <2>5, RetryQuiet DEF PendAck, histVars
    <2>6. CASE StartTx  BY <2>6, RetryStart
    <2>7. CASE \E r \in 0..SlotRoom : StartTxError(r)
      BY <2>7, RetryQuiet DEF StartTxError, histVars
    <2>8. CASE ReadCount \/ ReleaseSeen
      <3>1. /\ UNCHANGED <<tx_q, outcome, granted, attempts, n_sent, xfer>>
            /\ pc \in Sites /\ (pc' = pc \/ pc' = Site[pc].next)
        BY <2>8 DEF ReadCount, ReleaseSeen, histVars
      <3>2. (pc' \in Counted <=> pc \in Counted) /\ (Fresh' => Fresh)
        BY <3>1, SiteFacts DEF Sites
      <3> QED  BY <3>1, <3>2, RetryQuiet
    <2>9. CASE AwaitAck  BY <2>9, RetryQuiet DEF AwaitAck, histVars
    <2>10. CASE VerifyOk  BY <2>10, RetryQuiet DEF VerifyOk, histVars
    <2>11. CASE VerifyDrop \/ Done
      BY <2>11, RetryPop DEF VerifyDrop, Done, Inv0, HeadThere, Holding
    <2>12. CASE VerifyRetry  BY <2>12, RetryWriteBack
    <2>13. CASE Again  BY <2>13, RetryQuiet DEF Again, histVars
    <2>14. CASE Drain \/ RxPend \/ RxWait \/ RxRelease
      BY <2>14, RetryQuiet DEF Drain, RxPend, RxWait, RxRelease, histVars
    <2>15. CASE \E b \in BOOLEAN : RxStart(b)
      BY <2>15, RetryQuiet DEF RxStart, histVars
    <2> QED
      BY <1>6, <2>1, <2>2, <2>3, <2>4, <2>5, <2>6, <2>7, <2>8, <2>9, <2>10,
         <2>11, <2>12, <2>13, <2>14, <2>15 DEF Task, StartOutcome
  <1> QED  BY <1>1, <1>2, <1>3, <1>4, <1>5, <1>6 DEF Next

\* The retry contract of uwb_transport_enqueue_tx holds for every retry
\* limit and whatever start errors, resets and stray frames do.
THEOREM RetriesRespected == Spec => []RetryContract
  <1>1. Init => RetryInv
    BY DEF Init, RetryInv, RetryContract, Counted, Fresh
  <1>2. Spec => [](Inv0 /\ RetryInv)
    BY <1>1, TypeInit, TypeStep, RetryStep, PTL DEF Spec
  <1> QED  BY <1>2, PTL DEF RetryInv

-----------------------------------------------------------------------------
(* Who holds which semaphore, when nothing but foreign frames and stray     *)
(* acknowledgements disturbs the sender.                                    *)

Calm == Resetters = {} /\ Disturbances \subseteq {"foreign", "stray"}

\* A callback that has seen the zero still holds what it is to release.
irqAt == cbAt["irq"]

SemHeld == \/ InFlight \/ irqAt = "complete"
           \/ pc \in {"ack", "start", "err_sem", "drained"}
LockHeld == \/ radio = "queued" \/ irqAt = "begins"
            \/ pc \in {"write", "sem", "ack", "start", "err_sem", "err_lock"}

\* The places the task can be at while a frame is on its way out.
Overlapping == {"ack_wait", "done", "again", "loop", "lock", "write", "sem",
                "drain"}

\* sem and write_tx_lock are zero exactly while somebody holds them, and the
\* task and the radio never hold one of them at the same time.
HoldInv ==
    /\ sems["sem"] = IF SemHeld THEN 0 ELSE 1
    /\ sems["write_tx_lock"] = IF LockHeld THEN 0 ELSE 1
    /\ InFlight \/ irqAt = "complete" => pc \in Overlapping
    /\ radio = "queued" \/ irqAt = "begins" => pc \notin {"write", "sem"}
    /\ irqAt = "begins" => radio = "txing"
    /\ irqAt = "complete" => ~InFlight
    /\ saw0 => pc \in Sites

\* The interrupt task is in a callback only after it has seen a zero.
IrqInv ==
    /\ irqAt \in {"none", "begins", "complete", "acked", "timeout"}
    /\ irqAt \in {"begins", "complete"} => cbStep["irq"] = "give"
    /\ irqAt \in {"acked", "timeout"}
         => cbStep["irq"] \in {"name", "give"} /\ radio = "idle"

\* ack_sem is zero from its pend to the end of the wait, and with
\* acknowledgements the radio works only while the task waits for one.
AckInv ==
    /\ ~RequestAcks => /\ radio # "await"
                       /\ irqAt \notin {"acked", "timeout"}
                       /\ pc \notin {"ack", "ack_wait", "ack_got", "verify"}
                       /\ sems["ack_sem"] = 1
                       /\ pc = "err_ack" => ~saw0
    /\ RequestAcks =>
         /\ radio # "idle" \/ irqAt # "none"
              => pc = "ack_wait" /\ sems["ack_sem"] = 0
         /\ pc \in {"start", "err_sem", "err_lock", "err_ack", "ack_got"}
              => sems["ack_sem"] = 0
         /\ pc \notin {"start", "err_sem", "err_lock", "err_ack", "ack_got",
                       "ack_wait"} => sems["ack_sem"] = 1
         /\ pc = "ack_wait" => sems["ack_sem"] \in {0, 1}

NoListen ==
    /\ pc \notin {"rx_pend", "rx_start", "rx_wait", "rx_release"}
    /\ radio # "listen"

CalmInv == HoldInv /\ IrqInv /\ AckInv /\ NoListen

\* The counts after a pend.
LEMMA PendFacts ==
    ASSUME Inv0, NEW s \in Sems, Pend(s)
    PROVE  /\ sems[s] > 0
           /\ \A t \in Sems : sems'[t] = IF t = s THEN sems[t] - 1 ELSE sems[t]
  BY DEF Pend, Inv0, TypeOK

\* The interrupt task looks at a semaphore: it enters the callback if it is
\* zero, and is done if it is one.
LEMMA IrqLook ==
    ASSUME TypeOK, NEW place \in {"begins", "complete", "acked", "timeout"},
           IrqCall(place)
    PROVE  /\ irqAt = "none"
           /\ sems[Duty[place].s] = 0 =>
                /\ irqAt' = place
                /\ place \in {"begins", "complete"} => cbStep'["irq"] = "give"
                /\ place \in {"acked", "timeout"} => cbStep'["irq"] = "name"
  <1>1. place \in Places /\ LookAt("irq", place) /\ irqAt = "none"
    BY DEF Places, IrqCall, irqAt
  <1>2. /\ place \in {"begins", "complete"} => Duty[place].s # "ack_sem"
        /\ place \in {"acked", "timeout"} => Duty[place].s = "ack_sem"
    BY DutyFacts
  <1> QED  BY <1>1, <1>2, IrqPlaces, LookFacts DEF irqAt

LEMMA CalmCallback ==
    ASSUME Calm, Inv0, CalmInv, Irq \/ \E t \in Resetters : Resetter(t)
    PROVE  CalmInv'
  <1> USE DEF CalmInv, HoldInv, IrqInv, AckInv, NoListen, SemHeld, LockHeld,
              InFlight, Overlapping
  <1>1. UNCHANGED <<pc, saw0>> /\ TypeOK /\ Resetters = {}
    BY DEF Calm, Inv0, Irq, TxBegins, TxComplete, AckReceived, RxTimeout,
           ForeignFrame, ListenEvent, CbStep, CbLook, CbName, CbGive, taskVars
  <1>2. CASE TxBegins
    <2>1. UNCHANGED sems /\ radio = "queued" /\ radio' = "txing" /\ IrqCall("begins")
      BY <1>2 DEF TxBegins
    <2>2. sems[Duty["begins"].s] = 0  BY <2>1, DutyFacts
    <2>3. irqAt' = "begins" /\ cbStep'["irq"] = "give" /\ irqAt = "none"
      BY <1>1, <2>1, <2>2, IrqLook
    <2> QED  BY <1>1, <2>1, <2>3
  <1>3. CASE TxComplete
    <2>1. /\ UNCHANGED sems /\ radio = "txing" /\ IrqCall("complete")
          /\ (RequestAcks => radio' = "await") /\ (~RequestAcks => radio' = "idle")
      BY <1>3 DEF TxComplete
    <2>2. sems[Duty["complete"].s] = 0  BY <2>1, DutyFacts
    <2>3. irqAt' = "complete" /\ cbStep'["irq"] = "give" /\ irqAt = "none"
      BY <1>1, <2>1, <2>2, IrqLook
    <2> QED  BY <1>1, <2>1, <2>3
  <1>4. ASSUME NEW n \in SeqNums, AckReceived(n) PROVE CalmInv'
    <2>1. UNCHANGED sems /\ radio = "await" /\ radio' = "idle" /\ IrqCall("acked")
      BY <1>4 DEF AckReceived
    <2>2. sems[Duty["acked"].s] = 0 /\ RequestAcks  BY <2>1, DutyFacts
    <2>3. irqAt' = "acked" /\ cbStep'["irq"] = "name" /\ irqAt = "none"
      BY <1>1, <2>1, <2>2, IrqLook
    <2> QED  BY <1>1, <2>1, <2>2, <2>3
  <1>5. CASE RxTimeout
    <2>1. UNCHANGED sems /\ radio = "await" /\ radio' = "idle" /\ IrqCall("timeout")
      BY <1>5 DEF RxTimeout
    <2>2. sems[Duty["timeout"].s] = 0 /\ RequestAcks  BY <2>1, DutyFacts
    <2>3. irqAt' = "timeout" /\ cbStep'["irq"] = "name" /\ irqAt = "none"
      BY <1>1, <2>1, <2>2, IrqLook
    <2> QED  BY <1>1, <2>1, <2>2, <2>3
  <1>6. CASE ForeignFrame
    <2>1. /\ UNCHANGED sems /\ radio = "await" /\ radio' = "idle"
          /\ pc = "ack_wait" /\ RequestAcks
          /\ \/ IrqCall("refused")
             \/ irqAt = "none" /\ UNCHANGED <<cbAt, cbStep>>
      BY <1>6 DEF ForeignFrame, irqAt
    <2>2. irqAt = "none"  BY <2>1 DEF IrqCall, irqAt
    <2>3. sems[Duty["refused"].s] # 0  BY <2>1, <2>2, DutyFacts
    <2>4. irqAt' = "none"
      <3>1. ASSUME IrqCall("refused") PROVE irqAt' = "none"
        <4>1. LookAt("irq", "refused")  BY <3>1 DEF IrqCall
        <4> QED  BY <1>1, <2>3, <4>1, IrqPlaces, LookFacts, DutyFacts DEF irqAt
      <3> QED  BY <2>1, <2>2, <3>1 DEF irqAt
    <2> QED  BY <1>1, <2>1, <2>2, <2>4
  <1>7. ~ListenEvent
    BY DEF ListenEvent
  <1>8. CASE CbLook("irq")
    BY <1>8 DEF CbLook, irqAt
  <1>9. CASE CbName("irq")
    <2>1. /\ UNCHANGED <<sems, radio, cbAt>> /\ cbStep'["irq"] = "give"
          /\ cbStep["irq"] = "name"
      BY <1>1, <1>9, IrqPlaces, NameFacts DEF CbName
    <2> QED  BY <1>1, <2>1 DEF irqAt
  <1>10. CASE CbGive("irq")
    <2>1. /\ UNCHANGED radio /\ irqAt' = Duty[irqAt].zero
          /\ \A s \in Sems : (Duty[irqAt].s = s => sems'[s] = sems[s] + 1)
                             /\ (Duty[irqAt].s # s => sems'[s] = sems[s])
      BY <1>1, <1>10, IrqPlaces, GiveFacts DEF CbGive, irqAt
    <2>2. irqAt \in {"begins", "complete", "acked", "timeout"}
      BY <1>10 DEF CbGive, irqAt
    <2>3. "sem" \in Sems /\ "ack_sem" \in Sems /\ "write_tx_lock" \in Sems
      BY DEF Sems
    <2>4. irqAt' = "none"  BY <2>1, <2>2, DutyFacts
    <2>5. CASE irqAt = "begins"
      <3>1. /\ sems'["write_tx_lock"] = 1 /\ sems'["sem"] = sems["sem"]
            /\ sems'["ack_sem"] = sems["ack_sem"]
        BY <2>1, <2>3, <2>5, DutyFacts
      <3> QED  BY <1>1, <2>1, <2>4, <2>5, <3>1
    <2>6. CASE irqAt = "complete"
      <3>1. /\ sems'["sem"] = 1 /\ sems'["write_tx_lock"] = sems["write_tx_lock"]
            /\ sems'["ack_sem"] = sems["ack_sem"]
        BY <2>1, <2>3, <2>6, DutyFacts
      <3> QED  BY <1>1, <2>1, <2>4, <2>6, <3>1
    <2>7. CASE irqAt \in {"acked", "timeout"}
      <3>1. RequestAcks /\ pc = "ack_wait" /\ sems["ack_sem"] = 0
        BY <2>7
      <3>2. /\ sems'["ack_sem"] = 1 /\ sems'["write_tx_lock"] = sems["write_tx_lock"]
            /\ sems'["sem"] = sems["sem"]
        BY <2>1, <2>3, <2>7, <3>1, DutyFacts
      <3> QED  BY <1>1, <2>1, <2>4, <2>7, <3>1, <3>2
    <2> QED  BY <2>2, <2>5, <2>6, <2>7
  <1> QED
    BY <1>1, <1>2, <1>3, <1>4, <1>5, <1>6, <1>7, <1>8, <1>9, <1>10
    DEF Irq, CbStep

LEMMA CalmTask ==
    ASSUME Calm, Inv0, CalmInv, Task
    PROVE  CalmInv'
  <1>0. UNCHANGED <<cbAt, cbStep>> /\ irqAt' = irqAt
    BY DEF Task, Loop, PendLock, WriteTx, PendSem, PendAck, StartOutcome,
           StartTx, StartTxError, ReadCount, ReleaseSeen, AwaitAck, VerifyOk,
           VerifyDrop, VerifyRetry, Done, Again, Drain, RxPend, RxStart,
           RxWait, RxRelease, cbVars, irqAt
  <1> USE <1>0 DEF CalmInv, HoldInv, IrqInv, AckInv, NoListen, SemHeld,
                   LockHeld, InFlight, Overlapping, Sites, Goto
  <1>1. CASE Loop  BY <1>1 DEF Loop
  <1>2. CASE PendLock
    <2>1. sems["write_tx_lock"] = 1 /\ sems'["write_tx_lock"] = 0
          /\ sems'["sem"] = sems["sem"] /\ sems'["ack_sem"] = sems["ack_sem"]
      BY <1>2, PendFacts DEF PendLock, Sems
    <2> QED  BY <1>2, <2>1 DEF PendLock
  <1>3. CASE WriteTx  BY <1>3 DEF WriteTx
  <1>4. CASE PendSem
    <2>1. sems["sem"] = 1 /\ sems'["sem"] = 0
          /\ sems'["write_tx_lock"] = sems["write_tx_lock"]
          /\ sems'["ack_sem"] = sems["ack_sem"]
      BY <1>4, PendFacts DEF PendSem, Sems
    <2>2. /\ pc = "sem" /\ radio' = radio /\ saw0' = saw0
          /\ RequestAcks => pc' = "ack"
          /\ ~RequestAcks => pc' = "start"
      BY <1>4 DEF PendSem
    <2> QED  BY <2>1, <2>2
  <1>5. CASE PendAck
    <2>1. sems["ack_sem"] > 0 /\ sems'["ack_sem"] = sems["ack_sem"] - 1
          /\ sems'["write_tx_lock"] = sems["write_tx_lock"]
          /\ sems'["sem"] = sems["sem"]
      BY <1>5, PendFacts DEF PendAck, Sems
    <2> QED  BY <1>5, <2>1 DEF PendAck
  <1>6. CASE StartTx
    <2>1. /\ pc = "start" /\ radio' = "queued" /\ UNCHANGED <<sems, saw0>>
          /\ RequestAcks => pc' = "ack_wait"
          /\ ~RequestAcks => pc' = "done"
      BY <1>6 DEF StartTx
    <2> QED  BY <2>1
  <1>7. CASE \E r \in 0..SlotRoom : StartTxError(r)
    BY <1>7 DEF StartTxError
  <1>8. CASE ReadCount
    <2>1. /\ pc \in Sites /\ UNCHANGED <<sems, radio>>
          /\ \/ pc' = pc /\ sems[Site[pc].s] = 0
             \/ pc' = Site[pc].next /\ sems[Site[pc].s] # 0 /\ saw0' = FALSE
      BY <1>8 DEF ReadCount, Inv0, TypeOK
    <2>2. \/ pc' = pc /\ (pc = "err_ack" => RequestAcks)
          \/ pc = "err_ack" /\ pc' = "again" /\ ~RequestAcks /\ saw0' = FALSE
      BY <2>1, SiteFacts
    <2> QED  BY <2>1, <2>2
  <1>9. CASE ReleaseSeen
    <2>1. /\ pc \in Sites /\ saw0' = FALSE /\ UNCHANGED radio
          /\ pc' = Site[pc].next
      BY <1>9 DEF ReleaseSeen
    <2>2. \A t \in Sems : sems'[t] = IF t = Site[pc].s THEN sems[t] + 1 ELSE sems[t]
      BY <1>9 DEF ReleaseSeen, Inv0, TypeOK
    <2>3. \A t \in Sems : (Site[pc].s = t => sems'[t] = sems[t] + 1)
                           /\ (Site[pc].s # t => sems'[t] = sems[t])
      BY <2>2
    <2>4. pc = "err_ack" => RequestAcks
      BY <1>9 DEF ReleaseSeen
    <2>5. "sem" \in Sems /\ "ack_sem" \in Sems /\ "write_tx_lock" \in Sems
      BY DEF Sems
    <2> QED  BY <2>1, <2>3, <2>4, <2>5, SiteFacts
  <1>10. CASE AwaitAck
    <2>1. sems["ack_sem"] = 1 /\ sems'["ack_sem"] = 0
          /\ sems'["write_tx_lock"] = sems["write_tx_lock"]
          /\ sems'["sem"] = sems["sem"]
      BY <1>10, PendFacts DEF AwaitAck, Sems
    <2> QED  BY <1>10, <2>1 DEF AwaitAck
  <1>11. CASE VerifyOk \/ VerifyDrop \/ VerifyRetry \/ Done \/ Again
    BY <1>11 DEF VerifyOk, VerifyDrop, VerifyRetry, Done, Again
  <1>12. CASE Drain
    <2>1. sems["sem"] = 1 /\ sems'["sem"] = 0
          /\ sems'["write_tx_lock"] = sems["write_tx_lock"]
          /\ sems'["ack_sem"] = sems["ack_sem"]
      BY <1>12, PendFacts DEF Drain, Sems
    <2> QED  BY <1>12, <2>1 DEF Drain
  <1>13. ~RxPend /\ ~RxWait /\ ~RxRelease /\ \A b \in BOOLEAN : ~RxStart(b)
    BY DEF RxPend, RxWait, RxRelease, RxStart
  <1> QED
    BY <1>1, <1>2, <1>3, <1>4, <1>5, <1>6, <1>7, <1>8, <1>9, <1>10, <1>11,
       <1>12, <1>13 DEF Task, StartOutcome

LEMMA CalmStep ==
    ASSUME Calm
    PROVE  Inv0 /\ CalmInv /\ [Next]_vars => CalmInv'
  <1> SUFFICES ASSUME Inv0, CalmInv, [Next]_vars PROVE CalmInv'  OBVIOUS
  <1> USE DEF CalmInv, HoldInv, IrqInv, AckInv, NoListen, SemHeld, LockHeld,
              InFlight, Overlapping, Sites, Goto, irqAt, cbVars
  <1>1. CASE UNCHANGED vars  BY <1>1 DEF vars, taskVars
  <1>2. CASE \E p \in Packets, r \in 0..MaxRetries : Enqueue(p, r)
    BY <1>2 DEF Enqueue, taskVars
  <1>3. CASE SlotEmpty
    BY <1>3 DEF SlotEmpty, Calm
  <1>4. CASE \E r \in 0..SlotRoom : Slot(r)
    BY <1>4 DEF Slot
  <1> QED  BY <1>1, <1>2, <1>3, <1>4, CalmTask, CalmCallback DEF Next

\* Without resets and listening the sender starts no frame while another is
\* on its way out and does not write the device buffer between a start and
\* the begin of the transmission, with and without acknowledgements.
THEOREM CalmSafe ==
    ASSUME Calm
    PROVE  Spec => []NoOverlap /\ []ErrataSafe
  <1>1. Init => CalmInv
    BY DEF Init, CalmInv, HoldInv, IrqInv, AckInv, NoListen, SemHeld,
           LockHeld, InFlight, Overlapping, Sites, Sems, irqAt, Callers
  <1>2. CalmInv => NoOverlap /\ ErrataSafe
    BY DEF CalmInv, HoldInv, Overlapping, NoOverlap, ErrataSafe
  <1>3. Spec => [](Inv0 /\ CalmInv)
    BY <1>1, TypeInit, TypeStep, CalmStep, PTL DEF Spec
  <1> QED  BY <1>2, <1>3, PTL

\* The same for the device buffer alone: without resets and listening nothing
\* is written to it between uwb_start_tx and the begin of the transmission,
\* which is what the pend of write_tx_lock is there for.
THEOREM BuffersUntouched ==
    ASSUME Calm
    PROVE  Spec => []ErrataSafe
  BY CalmSafe

-----------------------------------------------------------------------------
(* The two halves of the device buffer *)

\* While a frame is out the task is one half ahead of it only between
\* writing the next packet and waiting for the frame.
BufInv ==
    /\ FrameIntact
    /\ InFlight /\ pc \in {"again", "loop", "lock", "write"} => ~xfer
    /\ InFlight /\ pc # "sem" => air.half = idx
    /\ InFlight /\ pc = "sem" => air.half = 1 - idx

LEMMA BufQuiet ==
    ASSUME BufInv, UNCHANGED <<txbuf, air, idx>>, InFlight' => InFlight,
           InFlight' => (pc' = "sem" <=> pc = "sem"),
           InFlight' /\ pc' \in {"again", "loop", "lock", "write"}
             => ~xfer' \/ (xfer' = xfer /\ pc \in {"again", "loop", "lock", "write"})
    PROVE  BufInv'
  BY DEF BufInv, FrameIntact

LEMMA BufWrite ==
    ASSUME Inv0, CalmInv, BufInv, WriteTx
    PROVE  BufInv'
  <1>1. /\ pc = "write" /\ pc' = "sem" /\ UNCHANGED <<radio, air>>
        /\ idx \in Half /\ txbuf \in [Half -> Frames] /\ air.half \in Half
    BY DEF WriteTx, Goto, Inv0, TypeOK
  <1>2. CASE ~InFlight
    BY <1>1, <1>2 DEF BufInv, FrameIntact, InFlight
  <1>3. CASE InFlight
    <2>1. ~xfer /\ air.half = idx
      BY <1>1, <1>3 DEF BufInv
    <2>2. idx' = 1 - idx
      BY <2>1 DEF WriteTx
    <2>3. txbuf'[air.half] = txbuf[air.half]
      BY <1>1, <2>1, <2>2 DEF WriteTx, Half
    <2> QED
      BY <1>1, <1>3, <2>1, <2>2, <2>3 DEF BufInv, FrameIntact, InFlight, Half
  <1> QED  BY <1>2, <1>3

LEMMA BufStart ==
    ASSUME Inv0, StartTx
    PROVE  BufInv'
  <1>1. /\ UNCHANGED <<txbuf, idx>> /\ pc' \in {"ack_wait", "done"}
        /\ air' = [pkt |-> txbuf[idx].pkt, seq |-> txbuf[idx].seq, half |-> idx]
    BY DEF StartTx, Goto
  <1>2. txbuf[idx] \in Frames
    BY DEF Inv0, TypeOK
  <1>3. txbuf[idx] = [pkt |-> txbuf[idx].pkt, seq |-> txbuf[idx].seq]
    BY <1>2 DEF Frames
  <1> QED  BY <1>1, <1>3 DEF BufInv, FrameIntact

LEMMA BufStep ==
    ASSUME Calm
    PROVE  Inv0 /\ CalmInv /\ BufInv /\ [Next]_vars => BufInv'
  <1> SUFFICES ASSUME Inv0, CalmInv, BufInv, [Next]_vars PROVE BufInv'
    OBVIOUS
  <1> USE DEF Goto, InFlight
  <1>1. CASE UNCHANGED vars
    BY <1>1, BufQuiet DEF vars, taskVars
  <1>2. CASE \E p \in Packets, r \in 0..MaxRetries : Enqueue(p, r)
    BY <1>2, BufQuiet DEF Enqueue, taskVars
  <1>3. CASE SlotEmpty \/ \E r \in 0..SlotRoom : Slot(r)
    <2>1. pc = "idle" /\ UNCHANGED radio  BY <1>3 DEF SlotEmpty, Slot
    <2>2. ~InFlight'
      BY <2>1 DEF CalmInv, HoldInv, Overlapping
    <2> QED  BY <2>2 DEF BufInv, FrameIntact
  <1>4. CASE Irq \/ \E t \in Resetters : Resetter(t)
    <2>1. UNCHANGED <<txbuf, air, idx, pc, xfer>>
      BY <1>4 DEF Irq, Resetter, Reset, CbStep, CbLook, CbName, CbGive,
                  TxBegins, TxComplete, AckReceived, RxTimeout, ForeignFrame,
                  ListenEvent, taskVars
    <2>2. InFlight' => InFlight
      BY <1>4 DEF Irq, Resetter, Reset, CbStep, CbLook, CbName, CbGive,
                  TxBegins, TxComplete, AckReceived, RxTimeout, ForeignFrame,
                  ListenEvent
    <2> QED  BY <2>1, <2>2, BufQuiet
  <1>5. CASE WriteTx  BY <1>5, BufWrite
  <1>6. CASE StartTx  BY <1>6, BufStart
  <1>7. CASE \/ PendSem \/ PendAck \/ (\E r \in 0..SlotRoom : StartTxError(r))
             \/ ReadCount \/ ReleaseSeen \/ AwaitAck \/ VerifyOk
             \/ VerifyDrop \/ VerifyRetry
    <2>1. UNCHANGED radio
      BY <1>7 DEF PendSem, PendAck, StartTxError, ReadCount, ReleaseSeen,
                  AwaitAck, VerifyOk, VerifyDrop, VerifyRetry
    <2>2. ~InFlight
      <3>1. CASE PendSem
        BY <3>1, PendFacts DEF PendSem, Sems, CalmInv, HoldInv, SemHeld
      <3>2. CASE AwaitAck
        <4>1. sems["ack_sem"] > 0  BY <3>2, PendFacts DEF AwaitAck, Sems
        <4>2. pc = "ack_wait"  BY <3>2 DEF AwaitAck
        <4> QED  BY <4>1, <4>2 DEF CalmInv, AckInv
      <3>3. CASE ~PendSem /\ ~AwaitAck
        <4>1. pc \in {"ack", "start", "verify"} \cup Sites
          BY <1>7, <3>3 DEF PendAck, StartTxError, ReadCount, ReleaseSeen,
                            VerifyOk, VerifyDrop, VerifyRetry
        <4> QED  BY <4>1 DEF CalmInv, HoldInv, Overlapping, Sites
      <3> QED  BY <3>1, <3>2, <3>3
    <2> QED  BY <2>1, <2>2 DEF BufInv, FrameIntact
  <1>8. CASE Loop  BY <1>8, BufQuiet DEF Loop
  <1>9. CASE PendLock  BY <1>9, BufQuiet DEF PendLock
  <1>10. CASE Done  BY <1>10, BufQuiet DEF Done
  <1>11. CASE Again  BY <1>11, BufQuiet DEF Again
  <1>12. CASE Drain  BY <1>12, BufQuiet DEF Drain
  <1>13. ~RxPend /\ ~RxWait /\ ~RxRelease /\ \A b \in BOOLEAN : ~RxStart(b)
    BY DEF RxPend, RxWait, RxRelease, RxStart, CalmInv, NoListen
  <1> QED
    BY <1>1, <1>2, <1>3, <1>4, <1>5, <1>6, <1>7, <1>8, <1>9, <1>10, <1>11,
       <1>12, <1>13 DEF Next, Task, StartOutcome

LEMMA CalmInit == Init => CalmInv
  BY DEF Init, CalmInv, HoldInv, IrqInv, AckInv, NoListen, SemHeld,
         LockHeld, InFlight, Overlapping, Sites, Sems, irqAt, Callers

\* Writing the next packet ahead, and starting over at half 1 in every slot,
\* never touches the frame that is on its way out.
THEOREM FramesIntact ==
    ASSUME Calm
    PROVE  Spec => []FrameIntact
  <1>1. Init => BufInv
    BY DEF Init, BufInv, FrameIntact, InFlight
  <1>2. Spec => [](Inv0 /\ CalmInv /\ BufInv)
    BY <1>1, TypeInit, TypeStep, CalmInit, CalmStep, BufStep, PTL DEF Spec
  <1> QED  BY <1>2, PTL DEF BufInv

-----------------------------------------------------------------------------
(* The sender implements PacketService *)

\* The setting: acknowledgements requested, and at most foreign data frames
\* disturb the sender.
Acked == RequestAcks /\ Resetters = {} /\ Disturbances \subseteq {"foreign"}

Waiting == {"ack_wait", "ack_got", "verify"}

\* The head of the queue is in the half of the buffer that is sent next.
Loaded ==
    \/ pc \in {"sem", "ack", "start", "err_sem", "err_lock", "err_ack"}
    \/ pc \in {"again", "loop", "lock", "write"} /\ xfer

HeadPkt == Head(tx_q).pkt

\* The wait for the acknowledgement is over, or about to be.
Answered == \/ pc \in {"ack_got", "verify"}
            \/ pc = "ack_wait" /\ sems["ack_sem"] # 0

\* What a callback is about to report, or has named, was really received.
AnswerTrue ==
    /\ irqAt = "acked" => heard
    /\ irqAt \in {"acked", "timeout"} /\ cbStep["irq"] = "give"
         => ack_seq_num = -1 \/ heard

\* A positive verdict is only ever based on the acknowledgement of the head.
ServiceInv ==
    /\ Loaded => tx_q # <<>> /\ txbuf[idx].pkt = HeadPkt
    /\ pc \in Waiting => air.pkt = HeadPkt /\ txbuf[idx].pkt = HeadPkt
    /\ pc \in Waiting /\ heard => HeadPkt \in rcvd
    /\ Answered => ack_seq_num = -1 \/ heard
    /\ pc = "done" => HeadPkt \in rcvd
    /\ AnswerTrue

LEMMA ServiceQuiet ==
    ASSUME ServiceInv, UNCHANGED <<cbVars, tx_q, txbuf, idx, air, heard, rcvd,
                       ack_seq_num>>,
           Loaded' => Loaded, pc' \in Waiting => pc \in Waiting,
           Answered' => Answered, pc' = "done" => pc = "done"
    PROVE  ServiceInv'
  BY DEF ServiceInv, AnswerTrue, HeadPkt, cbVars, irqAt

LEMMA ServiceCallback ==
    ASSUME Acked, Inv0, CalmInv, ServiceInv,
           Irq \/ \E t \in Resetters : Resetter(t)
    PROVE  ServiceInv'
  <1> USE DEF Loaded, Waiting, Answered, AnswerTrue
  <1>1. UNCHANGED <<tx_q, txbuf, idx, air, pc, xfer>>
    BY DEF Irq, Resetter, Reset, CbStep, CbLook, CbName, CbGive, TxBegins,
           TxComplete, AckReceived, RxTimeout, ForeignFrame, ListenEvent,
           taskVars
  <1>2. Calm /\ RequestAcks /\ Resetters = {} /\ TypeOK
    BY DEF Acked, Calm, Inv0
  <1>3. /\ radio # "idle" \/ irqAt # "none" => pc = "ack_wait" /\ sems["ack_sem"] = 0
        /\ irqAt \in {"none", "begins", "complete", "acked", "timeout"}
    BY <1>2 DEF CalmInv, AckInv, IrqInv
  <1>4. pc = "ack_wait" => HeadPkt \in Packets
    <2>1. tx_q \in Seq(Mbufs)  BY DEF Inv0, TypeOK, Mbufs
    <2> QED  BY <2>1, QueueFacts DEF Inv0, HeadThere, Holding, HeadPkt, Mbufs
  <1>5. ASSUME NEW place \in {"begins", "complete", "acked", "timeout"},
               IrqCall(place), radio # "idle", UNCHANGED <<sems, ack_seq_num>>,
               UNCHANGED <<heard, rcvd>> \/ (heard' => air.pkt \in rcvd'),
               rcvd \subseteq rcvd',
               place = "acked" => heard'
        PROVE  ServiceInv'
    <2>1. irqAt = "none" /\ irqAt' \in Places \cup {"none"}
      <3>1. LookAt("irq", place) /\ place \in Places
        BY <1>5 DEF IrqCall, Places
      <3> QED  BY <1>2, <1>5, <3>1, IrqLook, IrqPlaces, LookFacts DEF irqAt
    <2>2. pc = "ack_wait" /\ sems["ack_sem"] = 0  BY <1>3, <1>5
    <2>3. /\ irqAt' = "acked" => heard'
          /\ irqAt' \in {"acked", "timeout"} => cbStep'["irq"] # "give"
      <3>1. LookAt("irq", place) /\ place \in Places
        BY <1>5 DEF IrqCall, Places
      <3>2. \/ irqAt' = place /\ (place \in {"acked", "timeout"} => cbStep'["irq"] = "name")
            \/ irqAt' \in {"none", "refused"}
        BY <1>2, <1>5, <3>1, IrqPlaces, LookFacts, IrqLook, DutyFacts DEF irqAt
      <3> QED  BY <1>5, <3>2
    <2>4. air.pkt = HeadPkt  BY <2>2 DEF ServiceInv
    <2> QED  BY <1>1, <1>5, <2>2, <2>3, <2>4 DEF ServiceInv, HeadPkt
  <1>6. CASE TxBegins
    BY <1>5, <1>6 DEF TxBegins, histVars
  <1>7. CASE TxComplete
    <2>1. radio # "idle" /\ pc = "ack_wait"  BY <1>3, <1>7 DEF TxComplete
    <2>2. air.pkt \notin {NoPacket}
      BY <1>4, <2>1, PacketsAssumption DEF ServiceInv
    <2>3. (heard' => air.pkt \in rcvd') /\ rcvd \subseteq rcvd'
      BY <1>7, <2>2 DEF TxComplete
    <2> QED  BY <1>5, <1>7, <2>1, <2>3 DEF TxComplete
  <1>8. ASSUME NEW n \in SeqNums, AckReceived(n) PROVE ServiceInv'
    BY <1>5, <1>8 DEF AckReceived, Acked, histVars
  <1>9. CASE RxTimeout
    BY <1>5, <1>9 DEF RxTimeout, histVars
  <1>10. CASE ForeignFrame
    <2>1. /\ radio = "await" /\ UNCHANGED <<sems, ack_seq_num, heard, rcvd>>
          /\ \/ IrqCall("refused")
             \/ irqAt = "none" /\ UNCHANGED <<cbAt, cbStep>>
      BY <1>10 DEF ForeignFrame, histVars, irqAt
    <2>2. irqAt = "none"  BY <2>1 DEF IrqCall, irqAt
    <2>3. irqAt' \notin {"acked", "timeout"}
      <3>1. ASSUME IrqCall("refused") PROVE irqAt' \in {"none", "refused"}
        <4>1. LookAt("irq", "refused")  BY <3>1 DEF IrqCall
        <4>2. \/ irqAt' = "refused" \/ irqAt' = Duty["refused"].else
          BY <1>2, <4>1, IrqPlaces, LookFacts DEF irqAt
        <4> QED  BY <4>2, DutyFacts
      <3> QED  BY <2>1, <2>2, <3>1 DEF irqAt
    <2> QED  BY <1>1, <2>1, <2>3 DEF ServiceInv, HeadPkt
  <1>11. ~ListenEvent /\ ~CbLook("irq")
    <2>1. ~ListenEvent  BY DEF ListenEvent, CalmInv, NoListen
    <2>2. ~CbLook("irq")  BY DEF CbLook, CalmInv, IrqInv, irqAt
    <2> QED  BY <2>1, <2>2
  <1>12. CASE CbName("irq")
    <2>1. UNCHANGED <<sems, heard, rcvd, cbAt>> /\ irqAt # "none"
      BY <1>12 DEF CbName, histVars, irqAt
    <2>2. sems["ack_sem"] = 0 /\ pc = "ack_wait"  BY <1>3, <2>1
    <2>3. irqAt = "acked" \/ ack_seq_num' = -1
      BY <1>2, <1>12, IrqPlaces, NameFacts DEF irqAt
    <2> QED  BY <1>1, <2>1, <2>2, <2>3 DEF ServiceInv, HeadPkt, irqAt
  <1>13. CASE CbGive("irq")
    <2>1. /\ UNCHANGED <<heard, rcvd, ack_seq_num>> /\ irqAt # "none"
          /\ cbStep["irq"] = "give" /\ irqAt' = Duty[irqAt].zero
          /\ sems'["ack_sem"] # sems["ack_sem"] => Duty[irqAt].s = "ack_sem"
      BY <1>2, <1>13, IrqPlaces, GiveFacts DEF CbGive, histVars, irqAt, Sems
    <2>2. irqAt' = "none" /\ (Duty[irqAt].s = "ack_sem" => irqAt \in {"acked", "timeout"})
      BY <1>3, <2>1, DutyFacts
    <2>3. pc = "ack_wait" /\ sems["ack_sem"] = 0  BY <1>3, <2>1
    <2>4. sems'["ack_sem"] # 0 => ack_seq_num = -1 \/ heard
      BY <2>1, <2>2, <2>3 DEF ServiceInv
    <2> QED  BY <1>1, <2>1, <2>2, <2>3, <2>4 DEF ServiceInv, HeadPkt
  <1> QED
    BY <1>2, <1>6, <1>7, <1>8, <1>9, <1>10, <1>11, <1>12, <1>13
    DEF Irq, CbStep

LEMMA ServiceStep ==
    ASSUME Acked
    PROVE  Inv0 /\ CalmInv /\ ServiceInv /\ [Next]_vars => ServiceInv'
  <1> SUFFICES ASSUME Inv0, CalmInv, ServiceInv, [Next]_vars PROVE ServiceInv'
    OBVIOUS
  <1> SUFFICES ASSUME ~Irq, ~\E t \in Resetters : Resetter(t)
               PROVE  ServiceInv'
    BY ServiceCallback
  <1> USE DEF Goto, Waiting, Loaded, Answered
  <1>0. AnswerTrue'
    <2>1. CASE StartTx
      <3>1. irqAt = "none" /\ UNCHANGED cbVars
        BY <2>1 DEF StartTx, Acked, CalmInv, AckInv
      <3> QED  BY <3>1 DEF AnswerTrue, irqAt, cbVars
    <2>2. CASE ~StartTx
      <3>1. UNCHANGED <<cbVars, heard, ack_seq_num>>
        BY <2>2
        DEF Next, vars, Enqueue, Task, SlotEmpty, Slot, Loop, PendLock, WriteTx,
            PendSem, PendAck, StartOutcome, StartTxError, ReadCount, ReleaseSeen,
            AwaitAck, VerifyOk, VerifyDrop, VerifyRetry, Done, Again, Drain,
            RxPend, RxStart, RxWait, RxRelease
      <3> QED  BY <3>1 DEF ServiceInv, AnswerTrue, irqAt, cbVars
    <2> QED  BY <2>1, <2>2
  <1> USE <1>0
  <1>1. CASE UNCHANGED vars
    BY <1>1, ServiceQuiet DEF vars, taskVars, histVars
  <1>2. ASSUME NEW p \in Packets, NEW r \in 0..MaxRetries, Enqueue(p, r)
        PROVE  ServiceInv'
    <2>1. UNCHANGED <<sems, ack_seq_num, pc, xfer, idx, txbuf, air, heard, rcvd>>
      BY <1>2 DEF Enqueue, taskVars
    <2>2. tx_q # <<>> => tx_q' # <<>> /\ Head(tx_q') = Head(tx_q)
      <3>1. tx_q' = tx_q \/ tx_q' = Append(tx_q, [pkt |-> p, retries |-> r])
        BY <1>2 DEF Enqueue
      <3>2. tx_q \in Seq(Mbufs) /\ [pkt |-> p, retries |-> r] \in Mbufs
        BY DEF Inv0, TypeOK, Mbufs
      <3> QED  BY <3>1, <3>2
    <2>3. pc \in Waiting \cup {"done"} => tx_q # <<>>
      BY DEF Inv0, HeadThere, Holding
    <2> QED  BY <2>1, <2>2, <2>3 DEF ServiceInv, HeadPkt
  <1>3. CASE SlotEmpty \/ \E r \in 0..SlotRoom : Slot(r)
    BY <1>3 DEF SlotEmpty, Slot, ServiceInv
  <1>5. CASE Loop  BY <1>5, ServiceQuiet DEF Loop, histVars
  <1>6. CASE PendLock  BY <1>6, ServiceQuiet DEF PendLock, histVars
  <1>7. CASE WriteTx
    <2>1. pc = "write" /\ pc' = "sem" /\ UNCHANGED tx_q /\ tx_q # <<>>
      BY <1>7 DEF WriteTx, Inv0, HeadThere, Holding
    <2>2. CASE xfer
      BY <1>7, <2>1, <2>2 DEF WriteTx, ServiceInv, HeadPkt
    <2>3. CASE ~xfer
      <3>1. idx' \in Half /\ txbuf \in [Half -> Frames]
        BY <1>7, <2>3 DEF WriteTx, Half, Inv0, TypeOK
      <3>2. txbuf'[idx'].pkt = HeadPkt
        BY <1>7, <2>3, <3>1 DEF WriteTx, HeadPkt
      <3> QED  BY <2>1, <3>2 DEF ServiceInv, HeadPkt
    <2> QED  BY <2>2, <2>3
  <1>8. CASE PendSem
    <2>1. /\ pc = "sem" /\ (pc' = "ack" \/ pc' = "start")
          /\ UNCHANGED <<tx_q, txbuf, idx>>
      BY <1>8 DEF PendSem
    <2> QED  BY <1>8, <2>1 DEF ServiceInv, HeadPkt, PendSem
  <1>9. CASE PendAck  BY <1>9, ServiceQuiet DEF PendAck, histVars
  <1>10. CASE StartTx
    <2>1. /\ pc = "start" /\ pc' = "ack_wait" /\ heard' = FALSE
          /\ UNCHANGED <<tx_q, sems, rcvd, txbuf, idx>>
          /\ air'.pkt = txbuf[idx].pkt
      BY <1>10 DEF StartTx, Acked
    <2>2. sems["ack_sem"] = 0
      BY <2>1 DEF CalmInv, AckInv, Acked
    <2> QED  BY <2>1, <2>2 DEF ServiceInv, HeadPkt
  <1>11. CASE \E r \in 0..SlotRoom : StartTxError(r)
    BY <1>11, ServiceQuiet DEF StartTxError, histVars
  <1>12. CASE ReadCount \/ ReleaseSeen
    <2>1. /\ pc \in Sites /\ (pc' = pc \/ pc' = Site[pc].next)
          /\ UNCHANGED <<tx_q, txbuf, idx, air, heard, rcvd, ack_seq_num, xfer>>
      BY <1>12 DEF ReadCount, ReleaseSeen, histVars
    <2>2. pc = "ack_got" => pc' \in {"ack_got", "verify"}
      BY <2>1, SiteFacts
    <2>3. pc \in {"err_sem", "err_lock"} => pc' \in {"err_sem", "err_lock", "err_ack"}
      BY <2>1, SiteFacts
    <2>4. pc = "err_ack" => pc' \in {"err_ack", "again"}
      BY <2>1, SiteFacts
    <2>5. pc = "drained" => pc' \in {"drained", "idle"}
      BY <2>1, SiteFacts
    <2> QED  BY <2>1, <2>2, <2>3, <2>4, <2>5 DEF Sites, ServiceInv, HeadPkt
  <1>13. CASE AwaitAck
    <2>1. sems["ack_sem"] # 0
      BY <1>13, PendFacts DEF AwaitAck, Sems
    <2> QED  BY <1>13, <2>1 DEF AwaitAck, ServiceInv, HeadPkt, histVars
  <1>14. CASE VerifyOk
    <2>1. ack_seq_num # -1
      BY <1>14 DEF VerifyOk, Inv0, TypeOK, SeqNums
    <2>2. HeadPkt \in rcvd
      BY <1>14, <2>1 DEF VerifyOk, ServiceInv
    <2> QED  BY <1>14, <2>2 DEF VerifyOk, ServiceInv, HeadPkt, histVars
  <1>15. CASE VerifyDrop \/ Done
    BY <1>15 DEF VerifyDrop, Done, ServiceInv
  <1>16. CASE VerifyRetry
    <2>1. tx_q \in Seq(Mbufs) /\ tx_q # <<>>
      BY <1>16 DEF VerifyRetry, Inv0, TypeOK, HeadThere, Holding, Mbufs
    <2>2. tx_q' # <<>> /\ Head(tx_q').pkt = HeadPkt
      <3> DEFINE m == [tx_q[1] EXCEPT !.retries = @ - n_sent]
      <3>1. 1 \in DOMAIN tx_q /\ tx_q[1] \in Mbufs /\ Head(tx_q) = tx_q[1]
            /\ Len(tx_q) \in Nat
        BY <2>1, QueueFacts
      <3>2. m.pkt = tx_q[1].pkt  BY <3>1 DEF Mbufs
      <3>3. tx_q' = [tx_q EXCEPT ![1] = m]  BY <1>16 DEF VerifyRetry
      <3> HIDE DEF m
      <3>4. Len(tx_q') = Len(tx_q) /\ tx_q'[1] = m  BY <2>1, <3>1, <3>3
      <3>5. tx_q' # <<>> /\ Head(tx_q') = tx_q'[1]
        BY <2>1, <3>1, <3>4
      <3> QED  BY <3>1, <3>2, <3>4, <3>5 DEF HeadPkt
    <2>3. pc' = "again"  BY <1>16 DEF VerifyRetry
    <2>4. txbuf'[idx'].pkt = HeadPkt
      BY <1>16 DEF VerifyRetry, ServiceInv
    <2> QED  BY <2>2, <2>3, <2>4 DEF ServiceInv, HeadPkt
  <1>17. CASE Again  BY <1>17, ServiceQuiet DEF Again, histVars
  <1>18. CASE Drain  BY <1>18, ServiceQuiet DEF Drain, histVars
  <1>19. ~RxPend /\ ~RxWait /\ ~RxRelease /\ \A b \in BOOLEAN : ~RxStart(b)
    BY DEF RxPend, RxWait, RxRelease, RxStart, CalmInv, NoListen
  <1> QED
    BY <1>1, <1>2, <1>3, <1>5, <1>6, <1>7, <1>8, <1>9, <1>10, <1>11,
       <1>12, <1>13, <1>14, <1>15, <1>16, <1>17, <1>18, <1>19
    DEF Next, Task, StartOutcome

\* The abstract queue: the packets of the mbufs in tx_q.
Pending == [i \in DOMAIN tx_q |-> tx_q[i].pkt]

LEMMA PendingFacts ==
    ASSUME NEW q \in Seq(Mbufs), q # <<>>
    PROVE  /\ [i \in DOMAIN q |-> q[i].pkt] # <<>>
           /\ Head([i \in DOMAIN q |-> q[i].pkt]) = Head(q).pkt
           /\ [i \in DOMAIN Tail(q) |-> Tail(q)[i].pkt]
                = Tail([i \in DOMAIN q |-> q[i].pkt])
  <1> DEFINE a == [i \in DOMAIN q |-> q[i].pkt]
  <1>1. /\ Len(q) \in Nat /\ Len(q) >= 1 /\ DOMAIN q = 1..Len(q)
        /\ Head(q) = q[1]
        /\ Tail(q) \in Seq(Mbufs) /\ Len(Tail(q)) = Len(q) - 1
        /\ \A i \in 1..(Len(q) - 1) : Tail(q)[i] = q[i + 1]
    BY QueueFacts
  <1>2. \A i \in DOMAIN q : q[i].pkt \in Packets  BY MbufFacts
  <1>3. a \in Seq(Packets) /\ Len(a) = Len(q) /\ \A i \in 1..Len(q) : a[i] = q[i].pkt
    BY <1>1, <1>2
  <1> HIDE DEF a
  <1>4. a # <<>> /\ Head(a) = a[1]
    BY <1>1, <1>3
  <1>5. [i \in DOMAIN Tail(q) |-> Tail(q)[i].pkt] = Tail(a)
    <2> DEFINE b == [i \in 1..(Len(q) - 1) |-> q[i + 1].pkt]
    <2>1. DOMAIN Tail(q) = 1..(Len(q) - 1)
      BY <1>1
    <2>2. [i \in DOMAIN Tail(q) |-> Tail(q)[i].pkt] = b
      BY <1>1, <2>1
    <2>3. Tail(a) = [i \in 1..(Len(a) - 1) |-> a[i + 1]]
      <3>1. Tail(a) \in Seq(Packets) /\ Len(Tail(a)) = Len(a) - 1
            /\ \A i \in 1..(Len(a) - 1) : Tail(a)[i] = a[i + 1]
        BY <1>3, <1>4
      <3>2. Tail(a) = [i \in 1..Len(Tail(a)) |-> Tail(a)[i]]
        <4> DEFINE t == Tail(a)
        <4>1. t \in Seq(Packets)  BY <3>1
        <4> HIDE DEF t
        <4>2. Len(t) \in Nat /\ t \in [1..Len(t) -> Packets]  BY <4>1
        <4>3. t = [i \in 1..Len(t) |-> t[i]]  BY <4>2
        <4> QED  BY <4>3 DEF t
      <3> QED  BY <3>1, <3>2
    <2>4. \A i \in 1..(Len(q) - 1) : a[i + 1] = q[i + 1].pkt
      BY <1>1, <1>3
    <2>5. Tail(a) = b
      BY <1>3, <2>3, <2>4
    <2> QED  BY <2>2, <2>5
  <1>6. Head(a) = Head(q).pkt
    BY <1>1, <1>3, <1>4
  <1> QED  BY <1>4, <1>5, <1>6 DEF a

LEMMA PendingAppend ==
    ASSUME NEW q \in Seq(Mbufs), NEW m \in Mbufs
    PROVE  [i \in DOMAIN Append(q, m) |-> Append(q, m)[i].pkt]
             = Append([i \in DOMAIN q |-> q[i].pkt], m.pkt)
  <1> DEFINE a == [i \in DOMAIN q |-> q[i].pkt]
             n == Len(q) + 1
             b == [i \in 1..n |-> IF i = n THEN m.pkt ELSE q[i].pkt]
  <1>1. Len(q) \in Nat /\ DOMAIN q = 1..Len(q)  OBVIOUS
  <1>2. \A i \in DOMAIN q : q[i].pkt \in Packets  BY MbufFacts
  <1>3. a \in Seq(Packets) /\ Len(a) = Len(q) /\ \A i \in 1..Len(q) : a[i] = q[i].pkt
    BY <1>1, <1>2
  <1>4. /\ DOMAIN Append(q, m) = 1..n
        /\ \A i \in 1..n : Append(q, m)[i] = IF i = n THEN m ELSE q[i]
    BY <1>1
  <1>5. [i \in DOMAIN Append(q, m) |-> Append(q, m)[i].pkt] = b
    BY <1>4
  <1>6. m.pkt \in Packets  BY DEF Mbufs
  <1> HIDE DEF a
  <1>7. Append(a, m.pkt) = [i \in 1..(Len(a) + 1) |-> IF i = Len(a) + 1 THEN m.pkt ELSE a[i]]
    BY <1>3, <1>6
  <1>8. \A i \in 1..n : i # n => a[i] = q[i].pkt
    BY <1>1, <1>3
  <1>9. Append(a, m.pkt) = b
    BY <1>3, <1>7, <1>8
  <1> QED  BY <1>5, <1>9 DEF a

LEMMA ServiceSimulates ==
    ASSUME Acked, Inv0, CalmInv, ServiceInv, [Next]_vars
    PROVE  [Service!SvcNext]_(Service!svcVars)
  <1> DEFINE Stutter == UNCHANGED <<Pending, outcome, rcvd>>
  <1>1. tx_q \in Seq(Mbufs)  BY DEF Inv0, TypeOK, Mbufs
  <1>2. UNCHANGED <<tx_q, outcome, rcvd>> => Stutter
    BY DEF Pending
  <1>3. Stutter => UNCHANGED Service!svcVars
    BY DEF Service!svcVars, Pending
  <1>4. CASE UNCHANGED vars
    BY <1>2, <1>3, <1>4 DEF vars, histVars
  <1>5. ASSUME NEW p \in Packets, NEW r \in 0..MaxRetries, Enqueue(p, r)
        PROVE  Service!SvcNext
    <2>1. outcome[p] = "new" /\ UNCHANGED rcvd  BY <1>5 DEF Enqueue
    <2>2. CASE /\ outcome' = [outcome EXCEPT ![p] = "queued"]
               /\ tx_q' = Append(tx_q, [pkt |-> p, retries |-> r])
      <3>1. [pkt |-> p, retries |-> r] \in Mbufs  BY DEF Mbufs
      <3>2. Pending' = Append(Pending, p)
        BY <1>1, <2>2, <3>1, PendingAppend DEF Pending
      <3>3. Service!Accept(p)
        BY <2>1, <2>2, <3>2 DEF Service!Accept, Pending
      <3> QED  BY <3>3 DEF Service!SvcNext
    <2>3. CASE outcome' = [outcome EXCEPT ![p] = "rejected"] /\ UNCHANGED tx_q
      <3>1. Service!Refuse(p)
        BY <2>1, <2>3 DEF Service!Refuse
      <3> QED  BY <3>1 DEF Service!SvcNext
    <2> QED  BY <1>5, <2>2, <2>3 DEF Enqueue
  <1>6. CASE VerifyDrop \/ Done
    <2>1. tx_q # <<>> /\ UNCHANGED rcvd /\ tx_q' = Tail(tx_q)
      BY <1>6 DEF VerifyDrop, Done, Inv0, HeadThere, Holding
    <2>2. Pending # <<>> /\ Head(Pending) = HeadPkt /\ Pending' = Tail(Pending)
      BY <1>1, <2>1, PendingFacts DEF Pending, HeadPkt
    <2>3. CASE VerifyDrop
      <3>1. Service!Drop
        BY <2>1, <2>2, <2>3 DEF VerifyDrop, Service!Drop, Pending, HeadPkt
      <3> QED  BY <3>1 DEF Service!SvcNext
    <2>4. CASE Done
      <3>1. HeadPkt \in rcvd  BY <2>4 DEF Done, ServiceInv
      <3>2. Service!Confirm
        BY <2>1, <2>2, <2>4, <3>1 DEF Done, Service!Confirm, Pending, HeadPkt
      <3> QED  BY <3>2 DEF Service!SvcNext
    <2> QED  BY <1>6, <2>3, <2>4
  <1>7. CASE TxComplete
    <2>1. pc = "ack_wait" /\ UNCHANGED <<tx_q, outcome>>
      BY <1>7 DEF TxComplete, CalmInv, AckInv, Acked
    <2>2. tx_q # <<>> /\ air.pkt = HeadPkt
      BY <2>1 DEF Inv0, HeadThere, Holding, ServiceInv, Waiting
    <2>3. Pending # <<>> /\ Head(Pending) = HeadPkt
      BY <1>1, <2>2, PendingFacts DEF Pending, HeadPkt
    <2>4. CASE UNCHANGED rcvd
      BY <1>2, <1>3, <2>1, <2>4
    <2>5. CASE rcvd' = rcvd \cup ({air.pkt} \ {NoPacket})
      <3>1. HeadPkt \in Packets
        BY <1>1, <2>2, QueueFacts DEF HeadPkt, Mbufs
      <3>2. rcvd' = rcvd \cup {HeadPkt}
        BY <2>2, <2>5, <3>1, PacketsAssumption
      <3>3. UNCHANGED Pending  BY <2>1 DEF Pending
      <3>4. Service!Deliver
        BY <2>1, <2>3, <3>2, <3>3 DEF Service!Deliver, Pending
      <3> QED  BY <3>4 DEF Service!SvcNext
    <2> QED  BY <1>7, <2>4, <2>5 DEF TxComplete
  <1>8. CASE VerifyRetry
    <2>1. tx_q # <<>> /\ UNCHANGED <<outcome, rcvd>>
      BY <1>8 DEF VerifyRetry, Inv0, HeadThere, Holding, histVars
    <2>2. 1 \in DOMAIN tx_q /\ tx_q[1] \in Mbufs
      BY <1>1, <2>1, QueueFacts
    <2>3. DOMAIN tx_q' = DOMAIN tx_q /\ \A i \in DOMAIN tx_q : tx_q'[i].pkt = tx_q[i].pkt
      <3> DEFINE m == [tx_q[1] EXCEPT !.retries = @ - n_sent]
      <3>1. m.pkt = tx_q[1].pkt  BY <2>2 DEF Mbufs
      <3>2. tx_q' = [tx_q EXCEPT ![1] = m]  BY <1>8 DEF VerifyRetry
      <3> HIDE DEF m
      <3>3. DOMAIN tx_q' = DOMAIN tx_q
            /\ \A i \in DOMAIN tx_q : tx_q'[i] = IF i = 1 THEN m ELSE tx_q[i]
        BY <1>1, <2>2, <3>2
      <3> QED  BY <3>1, <3>3
    <2>4. UNCHANGED Pending
      BY <2>3 DEF Pending
    <2> QED  BY <1>3, <2>1, <2>4
  <1>9. CASE \/ SlotEmpty \/ (\E r \in 0..SlotRoom : Slot(r))
             \/ Loop \/ PendLock \/ WriteTx \/ PendSem \/ PendAck \/ StartOutcome
             \/ ReadCount \/ ReleaseSeen \/ AwaitAck \/ VerifyOk \/ Again \/ Drain
    <2>1. UNCHANGED <<tx_q, outcome, rcvd>>
      BY <1>9 DEF SlotEmpty, Slot, Loop, PendLock, WriteTx, PendSem, PendAck,
                  StartOutcome, StartTx, StartTxError, ReadCount, ReleaseSeen,
                  AwaitAck, VerifyOk, Again, Drain, histVars
    <2> QED  BY <1>2, <1>3, <2>1
  <1>10. CASE \/ RxPend \/ (\E b \in BOOLEAN : RxStart(b)) \/ RxWait \/ RxRelease
              \/ TxBegins \/ RxTimeout \/ (\E s \in SeqNums : AckReceived(s))
              \/ ForeignFrame \/ ListenEvent \/ CbStep("irq")
              \/ \E t \in Resetters : Resetter(t)
    <2>1. UNCHANGED <<tx_q, outcome, rcvd>>
      BY <1>10 DEF RxPend, RxStart, RxWait, RxRelease, TxBegins, RxTimeout,
                   AckReceived, ForeignFrame, ListenEvent, Resetter, Reset,
                   CbStep, CbLook, CbName, CbGive, histVars
    <2> QED  BY <1>2, <1>3, <2>1
  <1> QED
    BY <1>4, <1>5, <1>6, <1>7, <1>8, <1>9, <1>10 DEF Next, Task, Irq

\* With acknowledgements the sender implements PacketService: packets are
\* served in order, only the head of the queue reaches the peer, and none is
\* reported sent that the peer did not receive.
THEOREM SenderImplementsService ==
    ASSUME Acked
    PROVE  Spec => ImplementsService
  <1>1. Init => Service!SvcInit
    <2> SUFFICES ASSUME Init PROVE Service!SvcInit  OBVIOUS
    <2>1. tx_q = <<>>  BY DEF Init
    <2>2. [i \in DOMAIN tx_q |-> tx_q[i].pkt] = <<>>
      BY <2>1
    <2> QED  BY <2>2 DEF Init, Service!SvcInit
  <1>2. Init => ServiceInv
    BY DEF Init, ServiceInv, AnswerTrue, Loaded, Waiting, Answered, irqAt, Callers
  <1>3. Calm  BY DEF Acked, Calm
  <1>4. Spec => [](Inv0 /\ CalmInv /\ ServiceInv)
    BY <1>2, <1>3, TypeInit, TypeStep, CalmInit, CalmStep, ServiceStep, PTL DEF Spec
  <1>5. Inv0 /\ CalmInv /\ ServiceInv /\ [Next]_vars => [Service!SvcNext]_(Service!svcVars)
    BY ServiceSimulates
  <1> QED
    BY <1>1, <1>4, <1>5, PTL DEF Spec, ImplementsService, Service!SvcSpec

=============================================================================

-------------------------- MODULE ReceivePathProofs --------------------------
(***************************************************************************)
(* Proofs about the way of a received frame.  UwbTransportRx, for any      *)
(* senders, codes and sizes of the pool: types, and that no mbuf is lost   *)
(* or freed twice.  The two go together: the counters stay within the pool *)
(* because every mbuf is accounted for, and a shut down is what has_init   *)
(* is cleared by.  DplMqueue, the queue of mbufs between the interrupt and *)
(* the task, for every set of producers and of mbufs: no wake-up is lost.  *)
(***************************************************************************)
EXTENDS UwbTransportRx, DplMqueue, TLAPS

-----------------------------------------------------------------------------
(* The receiver *)

(* The mbufs somebody knows of. *)
Known == free + Len(rx_q) + user + (IF rpc = "got" THEN 1 ELSE 0)

RxInv ==
    /\ RxTypeOK
    /\ has_init <=> dpc \in {"up", "removed"}
    /\ Known <= PoolSize
    /\ has_init => Known = PoolSize

LEMMA RxInvInit == RxInit => RxInv
<1>1. SUFFICES ASSUME RxInit PROVE RxInv
  OBVIOUS
<1>2. (CHOOSE c \in Codes : TRUE) \in Codes
  BY RxConstants
<1>3. cur \in [Senders -> 0..MaxPackets] /\ last_age \in 0..Window /\ free \in 0..PoolSize /\ user \in 0..PoolSize
  BY <1>1, RxConstants DEF RxInit
<1>4. rx_q \in Seq(Codes) /\ extension_list \in Seq(Codes) /\ Len(rx_q) = 0
  BY <1>1 DEF RxInit
<1>5. Known = PoolSize
  BY <1>1, <1>4, RxConstants DEF RxInit, Known
<1>6. RxTypeOK
  BY <1>1, <1>2, <1>3, <1>4 DEF RxInit, RxTypeOK
<1>. QED BY <1>1, <1>5, <1>6, RxConstants DEF RxInit, RxInv

(* The header of a frame. *)
LEMMA HeaderType ==
    ASSUME RxTypeOK, NEW s \in Senders
    PROVE  Header(s) \in Headers
BY RxConstants DEF RxTypeOK, Header, Headers

(* The duplicate filter keeps its types (last_frame). *)
LEMMA RememberType ==
    ASSUME RxTypeOK, NEW s \in Senders, ~IsRepeat(s), Remember(s)
    PROVE  /\ last_frame' \in Headers /\ last_age' \in 0..Window
           /\ recent' \subseteq (Headers \X (0..(Window - 1)))
           /\ repeated' \in BOOLEAN
BY HeaderType, RxConstants DEF RxTypeOK, Remember

(* What rx_complete_cb and the task do with mbufs. *)
LEMMA AcceptKeeps ==
    ASSUME RxInv, NEW s \in Senders, NEW c \in Codes, RxAccept(s, c)
    PROVE  RxInv'
<1>1. /\ ~IsRepeat(s) /\ Remember(s) /\ free > 0 /\ free' = free - 1 /\ rx_q' = Append(rx_q, c)
      /\ UNCHANGED <<cur, rpc, held, user, extension_list, has_init, dpc>>
  BY DEF RxAccept
<1>2. free' \in 0..PoolSize /\ rx_q' \in Seq(Codes) /\ Len(rx_q') = Len(rx_q) + 1
  BY <1>1, RxConstants DEF RxInv, RxTypeOK
<1>3. RxTypeOK'
  BY <1>1, <1>2, RememberType DEF RxInv, RxTypeOK
<1>4. Known' = Known
  BY <1>1, <1>2 DEF Known, RxInv, RxTypeOK
<1>. QED BY <1>1, <1>3, <1>4 DEF RxInv

LEMMA DropKeeps ==
    ASSUME RxInv, NEW s \in Senders, RxDrop(s)
    PROVE  RxInv'
<1>1. /\ ~IsRepeat(s) /\ Remember(s)
      /\ UNCHANGED <<cur, free, rx_q, rpc, held, user, extension_list, has_init, dpc>>
  BY DEF RxDrop
<1>. QED BY <1>1, RememberType DEF RxInv, RxTypeOK, Known

(* A queue that is not empty, without its first mbuf. *)
LEMMA TailOfQueue ==
    ASSUME RxTypeOK, rx_q # <<>>
    PROVE  /\ Head(rx_q) \in Codes /\ Tail(rx_q) \in Seq(Codes)
           /\ Len(rx_q) \in Nat \ {0} /\ Len(Tail(rx_q)) = Len(rx_q) - 1
BY DEF RxTypeOK

LEMMA GetKeeps == ASSUME RxInv, ProcessGet PROVE RxInv'
<1>1. /\ rpc = "wait" /\ rx_q # <<>> /\ held' = Head(rx_q) /\ rx_q' = Tail(rx_q) /\ rpc' = "got"
      /\ UNCHANGED <<cur, last_frame, last_age, free, user, extension_list,
                     has_init, dpc, recent, repeated>>
  BY DEF ProcessGet
<1>2. RxTypeOK'
  BY <1>1, TailOfQueue DEF RxInv, RxTypeOK
<1>3. Known' = Known
  BY <1>1, TailOfQueue DEF Known, RxInv, RxTypeOK
<1>. QED BY <1>1, <1>2, <1>3 DEF RxInv

(* The extension owns the mbuf, or it is freed, or lost when has_init is cleared. *)
LEMMA DeliverKeeps == ASSUME RxInv, ProcessDeliver \/ ProcessStop PROVE RxInv'
<1>1. /\ rpc = "got" /\ rpc' = "wait"
      /\ \/ has_init /\ user' + free' = user + free + 1 /\ user' \in Nat /\ free' \in Nat
         \/ ~has_init /\ UNCHANGED <<user, free>>
      /\ UNCHANGED <<cur, last_frame, last_age, rx_q, held, extension_list,
                     has_init, dpc, recent, repeated>>
  BY DEF ProcessDeliver, ProcessStop, RxInv, RxTypeOK
<1>2. Len(rx_q) \in Nat /\ free \in Nat /\ user \in Nat /\ PoolSize \in Nat
  BY RxConstants DEF RxInv, RxTypeOK
<1>3. (has_init => Known' = Known) /\ (~has_init => Known' = Known - 1) /\ Known \in Nat
  BY <1>1, <1>2 DEF Known
<1>4. free' \in 0..PoolSize /\ user' \in 0..PoolSize
  <2>1. has_init => user' + free' <= PoolSize
    BY <1>1, <1>2 DEF Known, RxInv
  <2>. QED BY <1>1, <1>2, <2>1 DEF RxInv, RxTypeOK
<1>5. RxTypeOK'
  BY <1>1, <1>4 DEF RxInv, RxTypeOK
<1>. QED BY <1>1, <1>2, <1>3, <1>5 DEF RxInv

LEMMA UserFreeKeeps == ASSUME RxInv, UserFree PROVE RxInv'
<1>1. /\ user > 0 /\ user' = user - 1 /\ free' = free + 1
      /\ UNCHANGED <<cur, last_frame, last_age, rx_q, rpc, held, extension_list,
                     has_init, dpc, recent, repeated>>
  BY DEF UserFree
<1>2. Len(rx_q) \in Nat /\ free \in Nat /\ user \in Nat /\ PoolSize \in Nat
  BY RxConstants DEF RxInv, RxTypeOK
<1>3. Known' = Known
  BY <1>1, <1>2 DEF Known
<1>4. free' \in 0..PoolSize /\ user' \in 0..PoolSize
  BY <1>1, <1>2 DEF Known, RxInv
<1>5. RxTypeOK'
  BY <1>1, <1>4 DEF RxInv, RxTypeOK
<1>. QED BY <1>1, <1>3, <1>5 DEF RxInv

(* The list of extensions stays a list of codes. *)
LEMMA ExtensionsKeep ==
    ASSUME RxInv, NEW c \in Codes, AppendExtension(c) \/ RemoveExtension(c)
    PROVE  RxInv'
<1>1. UNCHANGED <<cur, last_frame, last_age, free, rx_q, rpc, held, user,
                  has_init, dpc, recent, repeated>>
  BY DEF AppendExtension, RemoveExtension
<1>2. extension_list \in Seq(Codes)
  BY DEF RxInv, RxTypeOK
<1>3. extension_list' \in Seq(Codes)
  <2>1. CASE AppendExtension(c)
    BY <1>2, <2>1 DEF AppendExtension
  <2>2. CASE RemoveExtension(c)
    <3>1. PICK i \in DOMAIN extension_list :
             extension_list' = SubSeq(extension_list, 1, i - 1)
                               \o SubSeq(extension_list, i + 1, Len(extension_list))
      BY <2>2 DEF RemoveExtension
    <3>2. i \in 1..Len(extension_list) /\ Len(extension_list) \in Nat
      BY <1>2
    <3>3. SubSeq(extension_list, 1, i - 1) \in Seq(Codes)
      <4>1. \A k \in 1..i - 1 : extension_list[k] \in Codes
        BY <1>2, <3>2
      <4>. QED BY <1>2, <3>2, <4>1
    <3>4. SubSeq(extension_list, i + 1, Len(extension_list)) \in Seq(Codes)
      <4>1. \A k \in i + 1..Len(extension_list) : extension_list[k] \in Codes
        BY <1>2, <3>2
      <4>. QED BY <1>2, <3>2, <4>1
    <3>. QED BY <3>1, <3>3, <3>4
  <2>. QED BY <2>1, <2>2
<1>. QED BY <1>1, <1>3 DEF RxInv, RxTypeOK, Known

(* Taking it down: after has_init is cleared every mbuf that is taken from the *)
(* queue is freed, by whoever takes it.                                        *)
LEMMA DownKeeps ==
    ASSUME RxInv, DownRemove \/ DownClear \/ DownDrain \/ DownFree
    PROVE  RxInv'
<1>1. UNCHANGED <<cur, last_frame, last_age, rpc, held, user, extension_list, recent, repeated>>
  BY DEF DownRemove, DownClear, DownDrain, DownFree
<1>2. CASE DownDrain
  <2>1. /\ dpc = "draining" /\ rx_q # <<>> /\ rx_q' = Tail(rx_q) /\ free' = free + 1
        /\ UNCHANGED <<has_init, dpc>>
    BY <1>2 DEF DownDrain
  <2>2. free \in Nat /\ user \in Nat /\ PoolSize \in Nat
    BY RxConstants DEF RxInv, RxTypeOK
  <2>3. Known' = Known
    BY <1>1, <2>1, <2>2, TailOfQueue DEF Known, RxInv
  <2>4. free' \in 0..PoolSize
    BY <2>1, <2>2, TailOfQueue DEF Known, RxInv
  <2>5. RxTypeOK'
    BY <1>1, <2>1, <2>4, TailOfQueue DEF RxInv, RxTypeOK
  <2>. QED BY <2>1, <2>3, <2>5 DEF RxInv
<1>3. CASE DownRemove \/ DownClear \/ DownFree
  <2>1. /\ free' = free /\ rx_q' = rx_q /\ (has_init' => has_init)
        /\ dpc' \in {"up", "removed", "draining", "freed"}
    BY <1>3 DEF DownRemove, DownClear, DownFree
  <2>2. has_init' <=> dpc' \in {"up", "removed"}
    BY <1>3 DEF DownRemove, DownClear, DownFree, RxInv
  <2>5. has_init' \in BOOLEAN
    BY <1>3 DEF DownRemove, DownClear, DownFree, RxInv, RxTypeOK
  <2>3. RxTypeOK'
    BY <1>1, <2>1, <2>5 DEF RxInv, RxTypeOK
  <2>4. Known' = Known
    BY <1>1, <2>1 DEF Known
  <2>. QED BY <2>1, <2>2, <2>3, <2>4 DEF RxInv
<1>. QED BY <1>2, <1>3

(* Frames that change no mbuf, and time. *)
LEMMA OthersKeep ==
    ASSUME RxInv,
           \/ \E s \in Senders : NextPacket(s) \/ RxDuplicate(s)
           \/ RxTick \/ UNCHANGED rxVars
    PROVE  RxInv'
<1>1. UNCHANGED <<last_frame, free, rx_q, rpc, held, user, extension_list, has_init, dpc, repeated>>
  BY DEF NextPacket, RxDuplicate, RxTick, rxVars
<1>0. recent' = recent \/ RxTick
  BY DEF NextPacket, RxDuplicate, rxVars
<1>2. cur' \in [Senders -> 0..MaxPackets]
  <2>1. ASSUME NEW s \in Senders, NextPacket(s) PROVE cur' \in [Senders -> 0..MaxPackets]
    BY <2>1, RxConstants DEF NextPacket, RxInv, RxTypeOK
  <2>. QED BY <2>1 DEF RxInv, RxTypeOK, RxDuplicate, RxTick, rxVars
<1>3. last_age' \in 0..Window
  BY RxConstants DEF RxInv, RxTypeOK, NextPacket, RxDuplicate, RxTick, rxVars, Aged
<1>4. recent' \subseteq (Headers \X (0..(Window - 1)))
  <2>1. CASE RxTick
    <3>1. recent' = {<<r[1], r[2] + 1>> : r \in {x \in recent : x[2] + 1 < Window}}
      BY <2>1 DEF RxTick
    <3>2. \A r \in recent : r[1] \in Headers /\ r[2] \in 0..(Window - 1)
      BY DEF RxInv, RxTypeOK
    <3>3. \A r \in {x \in recent : x[2] + 1 < Window} : r[2] + 1 \in 0..(Window - 1)
      BY <3>2, RxConstants
    <3>. QED BY <3>1, <3>2, <3>3
  <2>2. CASE ~RxTick
    BY <1>0, <2>2 DEF RxInv, RxTypeOK
  <2>. QED BY <2>1, <2>2
<1>. QED BY <1>1, <1>2, <1>3, <1>4 DEF RxInv, RxTypeOK, Known

LEMMA RxStep == RxInv /\ [RxNext]_rxVars => RxInv'
BY AcceptKeeps, DropKeeps, GetKeeps, DeliverKeeps, UserFreeKeeps, ExtensionsKeep, DownKeeps, OthersKeep
   DEF RxNext

THEOREM RxInvariant == RxSpec => []RxInv
BY RxInvInit, RxStep, PTL DEF RxSpec

-----------------------------------------------------------------------------
(* Every variable keeps its type, however rx_complete_cb, the task, the       *)
(* extensions and uwb_transport_pkg_down interleave.                          *)
THEOREM RxTypeCorrect == RxSpec => []RxTypeOK
BY RxInvariant, PTL DEF RxInv

(* For any size of the pool, no mbuf is lost while the transport is up, and   *)
(* none is freed twice, also while uwb_transport_free and the task empty the  *)
(* queue together.                                                            *)
THEOREM MbufsNeverLost == RxSpec => []MbufsAccounted
<1>1. RxInv => MbufsAccounted
  BY DEF RxInv, MbufsAccounted, Known
<1>. QED BY <1>1, RxInvariant, PTL

-----------------------------------------------------------------------------
(* The duplicate filter.  A header accepted within the window is of a packet  *)
(* of the past, or of the current one; then it is the one kept in last_frame, *)
(* which is no older.                                                         *)
Seen(s) ==
    \A r \in recent :
        \E k \in 0..cur[s] :
            /\ r[1] = <<s, k>>
            /\ k = cur[s] => last_frame = r[1] /\ last_age <= r[2]

RepeatInv(s) == RxInv /\ Seen(s) /\ ~repeated

LEMMA RememberSeen ==
    ASSUME NEW s \in Senders, MaxPackets < RxSeqMod, RepeatInv(s), ~IsRepeat(s),
           Remember(s), cur' = cur
    PROVE  Seen(s)' /\ ~repeated'
<1>1. cur[s] \in 0..MaxPackets /\ Header(s) = <<s, cur[s]>>
  <2>1. cur[s] \in 0..MaxPackets
    BY DEF RepeatInv, RxInv, RxTypeOK
  <2>2. cur[s] % RxSeqMod = cur[s]
    BY <2>1, RxConstants
  <2>. QED BY <2>1, <2>2 DEF Header
<1>2. ASSUME NEW r \in recent PROVE \E k \in 0..cur[s] : r[1] = <<s, k>> /\ k # cur[s]
  <2>1. PICK k \in 0..cur[s] : /\ r[1] = <<s, k>>
                               /\ k = cur[s] => last_frame = r[1] /\ last_age <= r[2]
    BY DEF RepeatInv, Seen
  <2>2. r[2] \in 0..(Window - 1) /\ last_age \in 0..Window
    BY DEF RepeatInv, RxInv, RxTypeOK
  <2>3. k # cur[s]
    BY <1>1, <2>1, <2>2, RxConstants DEF IsRepeat
  <2>. QED BY <2>1, <2>3
<1>3. \A r \in recent : r[1] # Header(s)
  BY <1>1, <1>2
<1>4. ~repeated'
  BY <1>3 DEF Remember, RepeatInv
<1>5. last_frame' = Header(s) /\ last_age' = 0 /\ recent' = recent \cup {<<Header(s), 0>>}
  BY DEF Remember
<1>6. Seen(s)'
  <2>1. ASSUME NEW r \in recent'
        PROVE  \E k \in 0..cur[s] : /\ r[1] = <<s, k>>
                                    /\ k = cur[s] => last_frame' = r[1] /\ last_age' <= r[2]
    <3>1. CASE r \in recent
      BY <1>2, <3>1
    <3>2. CASE r = <<Header(s), 0>>
      BY <1>1, <1>5, <3>2
    <3>. QED BY <1>5, <2>1, <3>1, <3>2
  <2>. QED BY <2>1 DEF Seen
<1>. QED BY <1>4, <1>6

LEMMA RepeatStep ==
    ASSUME NEW s \in Senders, Senders = {s}, MaxPackets < RxSeqMod
    PROVE  RepeatInv(s) /\ [RxNext]_rxVars => RepeatInv(s)'
<1>. SUFFICES ASSUME RepeatInv(s), [RxNext]_rxVars PROVE Seen(s)' /\ ~repeated'
  BY RxStep DEF RepeatInv
<1>1. CASE RxDrop(s) \/ \E c \in Codes : RxAccept(s, c)
  <2>1. ~IsRepeat(s) /\ Remember(s) /\ cur' = cur
    BY <1>1 DEF RxDrop, RxAccept
  <2>. QED BY <2>1, RememberSeen
<1>2. CASE NextPacket(s)
  <2>1. cur[s] \in Nat /\ cur'[s] = cur[s] + 1 /\ UNCHANGED <<recent, repeated>>
    BY <1>2, RxConstants DEF NextPacket, RepeatInv, RxInv, RxTypeOK
  <2>2. \A r \in recent : \E k \in 0..cur'[s] : r[1] = <<s, k>> /\ k # cur'[s]
    BY <2>1 DEF RepeatInv, Seen
  <2>. QED BY <2>1, <2>2 DEF RepeatInv, Seen
<1>3. CASE RxTick
  <2>1. /\ recent' = {<<r[1], r[2] + 1>> : r \in {x \in recent : x[2] + 1 < Window}}
        /\ last_age' = Aged(last_age) /\ UNCHANGED <<cur, last_frame, repeated>>
    BY <1>3 DEF RxTick
  <2>2. last_age \in Nat /\ \A r \in recent : r[2] \in Nat
    BY RxConstants DEF RepeatInv, RxInv, RxTypeOK
  <2>3. ASSUME NEW r \in recent'
        PROVE  \E k \in 0..cur[s] : /\ r[1] = <<s, k>>
                                    /\ k = cur[s] => last_frame = r[1] /\ last_age' <= r[2]
    <3>1. PICK x \in recent : r = <<x[1], x[2] + 1>>
      BY <2>1, <2>3
    <3>2. PICK k \in 0..cur[s] : /\ x[1] = <<s, k>>
                                 /\ k = cur[s] => last_frame = x[1] /\ last_age <= x[2]
      BY DEF RepeatInv, Seen
    <3>3. last_age' <= last_age + 1
      BY <2>1, <2>2, RxConstants DEF Aged
    <3>4. r[1] = x[1] /\ r[2] = x[2] + 1
      BY <3>1
    <3>5. last_age <= x[2] => last_age' <= r[2]
      BY <2>1, <2>2, <3>3, <3>4, RxConstants DEF Aged
    <3>. QED BY <3>2, <3>4, <3>5
  <2>. QED BY <2>1, <2>3 DEF RepeatInv, Seen
<1>4. CASE UNCHANGED <<cur, last_frame, last_age, recent, repeated>>
  BY <1>4 DEF RepeatInv, Seen
<1>. QED
  BY <1>1, <1>2, <1>3, <1>4
     DEF RxNext, RxDuplicate, ProcessGet, ProcessDeliver, ProcessStop, UserFree,
         AppendExtension, RemoveExtension, DownRemove, DownClear, DownDrain, DownFree, rxVars

(* A packet of the only peer is accepted at most once within 10 ms, however   *)
(* often it is repeated, whether or not an mbuf was there for it; as long as  *)
(* its sequence numbers do not come round.  last_frame is one header: with    *)
(* two peers this does not hold.                                              *)
THEOREM RepeatsRejected ==
    ASSUME NEW s \in Senders, Senders = {s}, MaxPackets < RxSeqMod
    PROVE  RxSpec => []RejectsRepeats
<1>1. RxInit => RepeatInv(s)
  BY RxInvInit DEF RxInit, RepeatInv, Seen
<1>2. RepeatInv(s) => RejectsRepeats
  BY DEF RepeatInv, RejectsRepeats
<1>. QED BY <1>1, <1>2, RepeatStep, PTL DEF RxSpec

-----------------------------------------------------------------------------
(* The queue of mbufs *)

\* Whoever relies on a marked event relies on somebody who is bound to make
\* the handler run: the event is queued, or popped and not yet run, or a
\* producer that marked it is about to queue it.
WakeInv ==
    /\ MqTypeOK
    /\ ev_queued = 1 => \/ evq > 0 \/ cpc = "popped"
                        \/ \E p \in Producers : ppc[p] = "marked"
    /\ mq # <<>> => \/ evq > 0 \/ cpc # "waiting"
                    \/ \E p \in Producers : ppc[p] # "idle"

LEMMA MoveFacts ==
    ASSUME MqTypeOK, NEW p \in Producers, NEW from,
           NEW to \in {"idle", "inserted", "checked", "marked"},
           Move(p, from, to)
    PROVE  /\ ppc' \in [Producers -> {"idle", "inserted", "checked", "marked"}]
           /\ ppc[p] = from /\ ppc'[p] = to
           /\ \A q \in Producers : q # p => ppc'[q] = ppc[q]
  BY DEF MqTypeOK, Move

LEMMA WakeStep == WakeInv /\ [MqNext]_mqVars => WakeInv'
  <1> SUFFICES ASSUME WakeInv, [MqNext]_mqVars PROVE WakeInv'  OBVIOUS
  <1> USE DEF WakeInv, MqTypeOK
  <1>1. CASE UNCHANGED mqVars  BY <1>1 DEF mqVars
  <1>2. ASSUME NEW p \in Producers, NEW m \in Mbufs, Insert(p, m) PROVE WakeInv'
    <2>1. /\ ppc' \in [Producers -> {"idle", "inserted", "checked", "marked"}]
          /\ ppc[p] = "idle" /\ ppc'[p] = "inserted"
          /\ \A q \in Producers : q # p => ppc'[q] = ppc[q]
      BY <1>2, MoveFacts DEF Insert
    <2>2. mq' \in Seq(Mbufs) /\ put' \subseteq Mbufs
      BY <1>2 DEF Insert
    <2> QED  BY <1>2, <2>1, <2>2 DEF Insert
  <1>3. ASSUME NEW p \in Producers, CheckQueued(p) PROVE WakeInv'
    <2> DEFINE to == IF ev_queued = 1 THEN "idle" ELSE "checked"
    <2>1. /\ ppc' \in [Producers -> {"idle", "inserted", "checked", "marked"}]
          /\ ppc[p] = "inserted" /\ ppc'[p] = to
          /\ \A q \in Producers : q # p => ppc'[q] = ppc[q]
      BY <1>3, MoveFacts DEF CheckQueued
    <2>2. UNCHANGED <<mq, ev_queued, evq, cpc, put, handled>>
      BY <1>3 DEF CheckQueued
    <2>3. \A q \in Producers : ppc[q] = "marked" => ppc'[q] = "marked"
      BY <2>1
    <2>4. CASE ev_queued = 1  BY <2>1, <2>2, <2>3, <2>4
    <2>5. CASE ev_queued # 1
      <3>1. ppc'[p] = "checked"  BY <2>1, <2>5
      <3> QED  BY <2>1, <2>2, <2>5, <3>1
    <2> QED  BY <2>4, <2>5
  <1>4. ASSUME NEW p \in Producers, MarkQueued(p) PROVE WakeInv'
    <2>1. /\ ppc' \in [Producers -> {"idle", "inserted", "checked", "marked"}]
          /\ ppc'[p] = "marked"
      BY <1>4, MoveFacts DEF MarkQueued
    <2> QED  BY <1>4, <2>1 DEF MarkQueued
  <1>5. ASSUME NEW p \in Producers, Post(p) PROVE WakeInv'
    <2>1. ppc' \in [Producers -> {"idle", "inserted", "checked", "marked"}]
      BY <1>5, MoveFacts DEF Post
    <2>2. evq' \in Nat /\ evq' > 0  BY <1>5 DEF Post
    <2> QED  BY <1>5, <2>1, <2>2 DEF Post
  <1>6. CASE EventqGet  BY <1>6 DEF EventqGet
  <1>7. CASE ClearQueued  BY <1>7 DEF ClearQueued
  <1>8. CASE MqueueGet
    <2>1. mq' \in Seq(Mbufs) /\ handled' \subseteq Mbufs
      BY <1>8 DEF MqueueGet
    <2> QED  BY <1>8, <2>1 DEF MqueueGet
  <1>9. CASE MqueueEmpty  BY <1>9 DEF MqueueEmpty
  <1> QED
    BY <1>1, <1>2, <1>3, <1>4, <1>5, <1>6, <1>7, <1>8, <1>9
    DEF MqNext, Producer, Consumer

LEMMA WakeInit == MqInit => WakeInv
  BY DEF MqInit, WakeInv, MqTypeOK

\* However many threads put mbufs at the same time, the check of ev_queued
\* outside of the mutex never leaves an mbuf behind in the queue with no
\* event to fetch it.
THEOREM WakeupsKept == MqSpec => []NoLostWakeup
  <1>1. WakeInv => NoLostWakeup
    BY DEF WakeInv, NoLostWakeup
  <1> QED  BY <1>1, WakeInit, WakeStep, PTL DEF MqSpec

\* The flag, the queues and the steps of the producers keep their types: in
\* particular the event list never holds a negative number of events.
THEOREM MqTypeCorrect == MqSpec => []MqTypeOK
  <1>1. WakeInv => MqTypeOK
    BY DEF WakeInv
  <1> QED  BY <1>1, WakeInit, WakeStep, PTL DEF MqSpec

=============================================================================

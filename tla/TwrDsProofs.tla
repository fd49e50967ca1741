----------------------------- MODULE TwrDsProofs -----------------------------
(***************************************************************************)
(* Proofs about TwrDs for any number of nodes, requests and frames in the  *)
(* ring, and about TwrSs and TwrDs as the instances of MCTwr.              *)
(*                                                                         *)
(* Every action is first described by what it does to the node it belongs  *)
(* to (the lemmas named ...Does); the invariants are then shown from these *)
(* descriptions.                                                           *)
(***************************************************************************)
EXTENDS TwrSsProofs, MCTwr

-----------------------------------------------------------------------------
(* Frames *)

LEMMA StampsType ==
    /\ \A n \in Nodes : NoEx(n) \in Exchanges /\ NoTime(n) \in Stamps
    /\ \A c \in DsCodes \cup {"none"}, e \in Exchanges : <<c, e>> \in Stamps
  BY RequestsAssumption DEF NoEx, NoTime, Exchanges, Stamps

LEMMA DsBlankType ==
    \A n \in Nodes : DsBlank(n) \in DsFrameType /\ DsBlank(n).code = "none"
  BY StampsType DEF DsBlank, DsFrameType

LEMMA DsFrameFields ==
    ASSUME NEW f \in DsFrameType
    PROVE  /\ f.code \in DsCodes \cup {"none"} /\ f.src \in Nodes
           /\ f.dst \in Nodes /\ f.ex \in Exchanges
           /\ f.request \in Stamps /\ f.response \in Stamps
           /\ f.reception \in Stamps /\ f.transmission \in Stamps
  BY DEF DsFrameType

\* A frame is its eight fields.
LEMMA SameFrame ==
    ASSUME NEW f \in DsFrameType, NEW g \in DsFrameType, f.code = g.code,
           f.src = g.src, f.dst = g.dst, f.ex = g.ex, f.request = g.request,
           f.response = g.response, f.reception = g.reception,
           f.transmission = g.transmission
    PROVE  f = g
  BY DEF DsFrameType

LEMMA FrameDomain ==
    ASSUME NEW f \in DsFrameType
    PROVE  DOMAIN f = {"code", "src", "dst", "ex", "request", "response",
                       "reception", "transmission"}
  BY DEF DsFrameType

\* A received frame brings the times that a frame of its code has room for.
LEMMA OverType ==
    ASSUME NEW f \in DsFrameType, NEW g \in DsFrameType
    PROVE  Over(g, f) \in DsFrameType
  BY FrameDomain DEF Over, DsFrameType

LEMMA OverFields ==
    ASSUME NEW f \in DsFrameType, NEW g \in DsFrameType
    PROVE  /\ f.code \in DsCodes =>
                /\ Over(g, f).code = f.code /\ Over(g, f).src = f.src
                /\ Over(g, f).dst = f.dst /\ Over(g, f).ex = f.ex
           /\ f.code \in {"T1", "T2", "FINAL"} =>
                /\ Over(g, f).reception = f.reception
                /\ Over(g, f).transmission = f.transmission
           /\ f.code \in {"T2", "FINAL"} =>
                /\ Over(g, f).request = f.request
                /\ Over(g, f).response = f.response
  BY FrameDomain DEF Over, Carried, Header, Times, DsCodes

\* FINAL is copied as a whole.
LEMMA OverFinal ==
    ASSUME NEW f \in DsFrameType, NEW g \in DsFrameType, f.code = "FINAL"
    PROVE  Over(g, f) = f
  BY OverType, OverFields, SameFrame DEF DsCodes

-----------------------------------------------------------------------------
(* The instance and the transceiver *)

LEMMA DsRngParts ==
    ASSUME NEW r \in DsRngType
    PROVE  /\ r.sem \in Nat /\ r.idx \in Slots /\ Next1(r.idx) \in Slots
           /\ r.code \in DsCodes \cup {"none"}
           /\ r.complete_after_tx \in BOOLEAN
           /\ r.frames \in [Slots -> DsFrameType]
           /\ \A i \in Slots : r.frames[i] \in DsFrameType
  BY Next1Type DEF DsRngType

LEMMA DsRngSem ==
    ASSUME NEW r \in DsRngType, NEW k \in Nat
    PROVE  LET q == [r EXCEPT !.sem = k] IN
           /\ q \in DsRngType /\ q.sem = k /\ q.idx = r.idx /\ q.code = r.code
           /\ q.complete_after_tx = r.complete_after_tx /\ q.frames = r.frames
  BY DEF DsRngType

LEMMA DsRngFlag ==
    ASSUME NEW r \in DsRngType, NEW b \in BOOLEAN
    PROVE  LET q == [r EXCEPT !.complete_after_tx = b] IN
           /\ q \in DsRngType /\ q.sem = r.sem /\ q.idx = r.idx
           /\ q.code = r.code /\ q.complete_after_tx = b
           /\ q.frames = r.frames
  BY DEF DsRngType

LEMMA DsRngCode ==
    ASSUME NEW r \in DsRngType, NEW c \in DsCodes \cup {"none"}
    PROVE  LET q == [r EXCEPT !.code = c] IN
           /\ q \in DsRngType /\ q.sem = r.sem /\ q.idx = r.idx /\ q.code = c
           /\ q.complete_after_tx = r.complete_after_tx /\ q.frames = r.frames
  BY DEF DsRngType

LEMMA DsRngFrame ==
    ASSUME NEW r \in DsRngType, NEW i \in Slots, NEW f \in DsFrameType
    PROVE  LET q == [r EXCEPT !.frames[i] = f] IN
           /\ q \in DsRngType /\ q.sem = r.sem /\ q.idx = r.idx
           /\ q.code = r.code /\ q.complete_after_tx = r.complete_after_tx
           /\ q.frames = [r.frames EXCEPT ![i] = f]
  <1>1. [r.frames EXCEPT ![i] = f] \in [Slots -> DsFrameType]
    BY DEF DsRngType
  <1> QED
    BY <1>1 DEF DsRngType

LEMMA DsPhyParts ==
    ASSUME NEW p \in DsPhyType
    PROVE  /\ p.radio \in {"off", "tx", "rx", "got"} /\ p.buf \in DsFrameType
           /\ p.txtime \in Exchanges /\ p.txcode \in DsCodes \cup {"none"}
           /\ p.window \in BOOLEAN /\ p.ranging \in BOOLEAN
           /\ <<p.txcode, p.txtime>> \in Stamps
           /\ <<p.buf.code, p.buf.ex>> \in Stamps
  BY StampsType, DsFrameFields DEF DsPhyType

LEMMA DsTyped ==
    ASSUME DsTypeOK, NEW n \in Nodes
    PROVE  /\ rng[n] \in DsRngType /\ phy[n] \in DsPhyType
           /\ task[n] \in TaskType /\ task[n].slot \in Slots
           /\ Frame(n) \in DsFrameType /\ InRing(n) \in DsFrameType
           /\ rng[n].sem + 1 \in Nat /\ Raised(n) \in Nat
           /\ LastTx(n) \in Stamps /\ Now(n) \in Stamps
           /\ \A c \in DsCodes : Later(n, c) \in Stamps
           /\ reported[n] \in DsFrameType
  <1>1. rng[n] \in DsRngType /\ phy[n] \in DsPhyType /\ task[n] \in TaskType
        /\ task[n].slot \in Slots /\ reported[n] \in DsFrameType
    BY DEF DsTypeOK, TaskType
  <1>2. Frame(n) \in DsFrameType
    BY <1>1, DsPhyParts DEF Frame
  <1>3. InRing(n) \in DsFrameType
    BY <1>1, <1>2, DsRngParts, OverType DEF InRing
  <1> QED
    BY <1>1, <1>2, <1>3, DsRngParts, DsPhyParts, DsFrameFields, StampsType
       DEF Raised, LastTx, Now, Later, Frame

LEMMA DsPhyFacts ==
    ASSUME DsTypeOK, NEW n \in Nodes
    PROVE  /\ Silent(n) \in DsPhyType /\ Silent(n).radio = "off"
           /\ Silent(n).buf = phy[n].buf /\ Silent(n).ranging
           /\ Silent(n).txtime = phy[n].txtime
           /\ Silent(n).txcode = phy[n].txcode
           /\ Silent(n).window = phy[n].window
           /\ \A f \in DsFrameType :
                /\ Sending(n, f) \in DsPhyType /\ Sending(n, f).radio = "tx"
                /\ Sending(n, f).buf = f /\ Sending(n, f).ranging
                /\ Sending(n, f).txtime = phy[n].txtime
                /\ Sending(n, f).txcode = phy[n].txcode
                /\ Sending(n, f).window = phy[n].window
  <1>1. phy[n] \in DsPhyType
    BY DsTyped
  <1> QED
    BY <1>1 DEF Silent, Sending, DsPhyType

LEMMA DsRadio ==
    ASSUME NEW p \in DsPhyType, NEW s \in {"off", "tx", "rx", "got"}
    PROVE  LET q == [p EXCEPT !.radio = s] IN
           /\ q \in DsPhyType /\ q.radio = s /\ q.buf = p.buf
           /\ q.txtime = p.txtime /\ q.txcode = p.txcode
           /\ q.window = p.window /\ q.ranging = p.ranging
  BY DEF DsPhyType

LEMMA DsStarted ==
    ASSUME NEW p \in DsPhyType, NEW f \in DsFrameType
    PROVE  LET q == [p EXCEPT !.radio = "tx", !.buf = f] IN
           /\ q \in DsPhyType /\ q.radio = "tx" /\ q.buf = f
           /\ q.txtime = p.txtime /\ q.txcode = p.txcode
           /\ q.window = p.window /\ q.ranging = p.ranging
  BY DEF DsPhyType

LEMMA DsTakenFacts ==
    ASSUME DsTypeOK, NEW n \in Nodes, NEW f \in DsFrameType
    PROVE  /\ Taken(n, f) \in DsRngType /\ Taken(n, f).sem = rng[n].sem
           /\ Taken(n, f).idx = Next1(rng[n].idx)
           /\ Taken(n, f).code = Frame(n).code
           /\ Taken(n, f).complete_after_tx = rng[n].complete_after_tx
           /\ Taken(n, f).frames =
                [rng[n].frames EXCEPT ![Next1(rng[n].idx)] = f]
  <1> DEFINE i == Next1(rng[n].idx)
             c == Frame(n).code
             q == [rng[n].frames EXCEPT ![i] = f]
  <1>1. /\ rng[n] \in DsRngType /\ c \in DsCodes \cup {"none"} /\ i \in Slots
    BY DsTyped, DsRngParts, DsFrameFields
  <1>2. q \in [Slots -> DsFrameType]
    BY <1>1, DsRngParts
  <1>3. Taken(n, f) = [rng[n] EXCEPT !.code = c, !.idx = i, !.frames = q]
    BY <1>1 DEF Taken, DsRngType
  <1> HIDE DEF i, c, q
  <1>4. LET t == [rng[n] EXCEPT !.code = c, !.idx = i, !.frames = q] IN
        /\ t \in DsRngType /\ t.sem = rng[n].sem /\ t.idx = i /\ t.code = c
        /\ t.complete_after_tx = rng[n].complete_after_tx /\ t.frames = q
    BY <1>1, <1>2 DEF DsRngType
  <1> QED
    BY <1>3, <1>4 DEF i, c, q

-----------------------------------------------------------------------------
(* What the actions do *)

\* Every other node is left alone.
Only(n) ==
    \A m \in Nodes : m # n =>
        /\ rng'[m] = rng[m] /\ phy'[m] = phy[m] /\ task'[m] = task[m]
        /\ reported'[m] = reported[m] /\ nreq'[m] = nreq[m]

\* A step of the interrupt task.
LEMMA DsUpdate ==
    ASSUME DsTypeOK, NEW n \in Nodes,
           rng' \in [Nodes -> DsRngType], phy' \in [Nodes -> DsPhyType],
           reported' \in [Nodes -> DsFrameType],
           \A m \in Nodes : m # n => /\ rng'[m] = rng[m] /\ phy'[m] = phy[m]
                                     /\ reported'[m] = reported[m],
           UNCHANGED <<task, nreq>>,
           bad' \in BOOLEAN, answered' \subseteq Exchanges
    PROVE  DsTypeOK' /\ Only(n)
  BY DEF DsTypeOK, Only

LEMMA DsGoto ==
    ASSUME DsTypeOK, NEW n \in Nodes, NEW l \in PCs, Goto(n, l)
    PROVE  /\ task' \in [Nodes -> TaskType]
           /\ task'[n].pc = l /\ task'[n].slot = task[n].slot
           /\ \A m \in Nodes : m # n => task'[m] = task[m]
  BY DEF DsTypeOK, Goto, TaskType

\* A step of the task that neither makes a request nor starts one.
LEMMA DsTaskUpdate ==
    ASSUME DsTypeOK, NEW n \in Nodes, NEW l \in PCs, Goto(n, l),
           rng' \in [Nodes -> DsRngType], phy' \in [Nodes -> DsPhyType],
           \A m \in Nodes : m # n => rng'[m] = rng[m] /\ phy'[m] = phy[m],
           UNCHANGED <<nreq, reported, bad, answered>>
    PROVE  /\ DsTypeOK' /\ Only(n)
           /\ task'[n].pc = l /\ task'[n].slot = task[n].slot
  <1>1. /\ task' \in [Nodes -> TaskType]
        /\ task'[n].pc = l /\ task'[n].slot = task[n].slot
        /\ \A m \in Nodes : m # n => task'[m] = task[m]
    BY DsGoto
  <1> QED
    BY <1>1 DEF DsTypeOK, Only

\* The instance keeps its frames, its flag and the code received last.
RingSame(n) ==
    /\ rng'[n].frames = rng[n].frames /\ rng'[n].idx = rng[n].idx
    /\ rng'[n].code = rng[n].code
    /\ rng'[n].complete_after_tx = rng[n].complete_after_tx

\* The transceiver keeps what it last sent, and what it last received.
TxSame(n) ==
    /\ phy'[n].txtime = phy[n].txtime /\ phy'[n].txcode = phy[n].txcode
    /\ phy'[n].window = phy[n].window
AirSame(n) == TxSame(n) /\ phy'[n].buf = phy[n].buf

LEMMA RequestDoes ==
    ASSUME DsTypeOK, NEW n \in Nodes, Request(n)
    PROVE  /\ DsTypeOK' /\ Only(n) /\ RingSame(n) /\ AirSame(n)
           /\ UNCHANGED <<rng, phy, reported, bad, answered>>
           /\ task[n].pc = "idle" /\ task'[n].pc = "rq_pend"
           /\ task'[n].slot = Next1(rng[n].idx) /\ nreq'[n] = nreq[n] + 1
  <1> DEFINE t == [pc |-> "rq_pend", slot |-> Next1(rng[n].idx)]
  <1>1. t \in TaskType
    BY DsTyped, DsRngParts DEF TaskType, PCs
  <1>2. nreq' \in [Nodes -> 0..MaxRequests] /\ nreq'[n] = nreq[n] + 1
        /\ \A m \in Nodes : m # n => nreq'[m] = nreq[m]
    BY RequestsAssumption DEF Request, DsTypeOK
  <1>3. /\ UNCHANGED <<rng, phy, reported, bad, answered>>
        /\ task' = [task EXCEPT ![n] = t] /\ task[n].pc = "idle"
    BY DEF Request
  <1>4. /\ task' \in [Nodes -> TaskType] /\ task'[n] = t
        /\ \A m \in Nodes : m # n => task'[m] = task[m]
    BY <1>1, <1>3 DEF DsTypeOK
  <1>5. t.pc = "rq_pend" /\ t.slot = Next1(rng[n].idx)
    OBVIOUS
  <1> HIDE DEF t
  <1> QED
    BY <1>2, <1>3, <1>4, <1>5 DEF DsTypeOK, Only, RingSame, AirSame, TxSame

LEMMA ListenDoes ==
    ASSUME DsTypeOK, NEW n \in Nodes, Listen(n)
    PROVE  /\ DsTypeOK' /\ Only(n) /\ RingSame(n) /\ AirSame(n)
           /\ UNCHANGED <<rng, phy, reported, bad, answered, nreq>>
           /\ task[n].pc = "idle" /\ task'[n].pc = "ls_pend"
  <1>1. /\ UNCHANGED <<rng, phy, nreq, reported, bad, answered>> /\ Goto(n, "ls_pend")
        /\ task[n].pc = "idle"
    BY DEF Listen, histVars
  <1>2. DsTypeOK' /\ Only(n) /\ task'[n].pc = "ls_pend"
    BY <1>1, DsTaskUpdate DEF PCs, DsTypeOK
  <1> QED
    BY <1>1, <1>2 DEF RingSame, AirSame, TxSame

\* The semaphore is taken.
LEMMA PendDoes ==
    ASSUME DsTypeOK, NEW n \in Nodes,
           RqPend(n) \/ RqWait(n) \/ LsPend(n) \/ LsWait(n)
    PROVE  /\ DsTypeOK' /\ Only(n) /\ RingSame(n) /\ AirSame(n)
           /\ UNCHANGED <<phy, reported, bad, answered, nreq>>
           /\ rng[n].sem > 0 /\ rng'[n].sem = rng[n].sem - 1
           /\ task[n].pc \notin Holding /\ task'[n].pc \in Holding
           /\ task'[n].slot = task[n].slot
           /\ task'[n].pc = "rq_start" => task[n].pc = "rq_pend"
  <1>1. /\ UNCHANGED <<phy, nreq, reported, bad, answered>> /\ rng[n].sem > 0
        /\ rng' = [rng EXCEPT ![n].sem = @ - 1]
    BY DEF RqPend, RqWait, LsPend, LsWait, Pend, histVars
  <1>2. PICK l \in PCs : /\ Goto(n, l) /\ l \in Holding
                         /\ task[n].pc \notin Holding
                         /\ l = "rq_start" => task[n].pc = "rq_pend"
    BY DEF RqPend, RqWait, LsPend, LsWait, PCs, Holding
  <1>3. rng[n] \in DsRngType /\ rng[n].sem - 1 \in Nat
    BY <1>1, DsTyped, DsRngParts
  <1>4. PICK r \in DsRngType :
          /\ rng' = [rng EXCEPT ![n] = r]
          /\ r.sem = rng[n].sem - 1 /\ r.idx = rng[n].idx
          /\ r.code = rng[n].code /\ r.frames = rng[n].frames
          /\ r.complete_after_tx = rng[n].complete_after_tx
    BY <1>1, <1>3, DsRngSem
  <1>5. /\ rng' \in [Nodes -> DsRngType] /\ phy' \in [Nodes -> DsPhyType]
        /\ rng'[n] = r
        /\ \A m \in Nodes : m # n => rng'[m] = rng[m] /\ phy'[m] = phy[m]
    BY <1>1, <1>4 DEF DsTypeOK
  <1>6. /\ DsTypeOK' /\ Only(n)
        /\ task'[n].pc = l /\ task'[n].slot = task[n].slot
    BY <1>1, <1>2, <1>5, DsTaskUpdate
  <1> QED
    BY <1>1, <1>2, <1>4, <1>5, <1>6 DEF RingSame, AirSame, TxSame

LEMMA CountDoes ==
    ASSUME DsTypeOK, NEW n \in Nodes, RqCount(n)
    PROVE  /\ DsTypeOK' /\ Only(n) /\ RingSame(n) /\ AirSame(n)
           /\ UNCHANGED <<rng, phy, reported, bad, answered, nreq>>
           /\ task[n].pc = "rq_rel"
           /\ task'[n].pc = IF rng[n].sem = 0 THEN "rq_seen" ELSE "idle"
  <1> DEFINE l == IF rng[n].sem = 0 THEN "rq_seen" ELSE "idle"
  <1>1. /\ UNCHANGED <<rng, phy, nreq, reported, bad, answered>> /\ Goto(n, l) /\ l \in PCs
        /\ task[n].pc = "rq_rel"
    BY DEF RqCount, PCs, Holding, histVars
  <1> HIDE DEF l
  <1>2. DsTypeOK' /\ Only(n) /\ task'[n].pc = l
    BY <1>1, DsTaskUpdate DEF DsTypeOK
  <1> QED
    BY <1>1, <1>2 DEF RingSame, AirSame, TxSame, l

LEMMA ReleaseDoes ==
    ASSUME DsTypeOK, NEW n \in Nodes, RqRelease(n) \/ LsRelease(n)
    PROVE  /\ DsTypeOK' /\ Only(n) /\ RingSame(n) /\ AirSame(n)
           /\ UNCHANGED <<phy, reported, bad, answered, nreq>>
           /\ rng'[n].sem = rng[n].sem + 1
           /\ task[n].pc \in {"rq_seen", "ls_rel"} /\ task'[n].pc = "idle"
  <1>1. /\ UNCHANGED <<phy, nreq, reported, bad, answered>>
        /\ rng' = [rng EXCEPT ![n].sem = @ + 1]
        /\ Goto(n, "idle") /\ "idle" \in PCs
        /\ task[n].pc \in {"rq_seen", "ls_rel"}
    BY DEF RqRelease, LsRelease, PCs, histVars
  <1>2. rng[n] \in DsRngType /\ rng[n].sem + 1 \in Nat
    BY DsTyped
  <1>3. PICK r \in DsRngType :
          /\ rng' = [rng EXCEPT ![n] = r]
          /\ r.sem = rng[n].sem + 1 /\ r.idx = rng[n].idx
          /\ r.code = rng[n].code /\ r.frames = rng[n].frames
          /\ r.complete_after_tx = rng[n].complete_after_tx
    BY <1>1, <1>2, DsRngSem
  <1>5. /\ rng' \in [Nodes -> DsRngType] /\ phy' \in [Nodes -> DsPhyType]
        /\ rng'[n] = r
        /\ \A m \in Nodes : m # n => rng'[m] = rng[m] /\ phy'[m] = phy[m]
    BY <1>1, <1>3 DEF DsTypeOK
  <1>4. DsTypeOK' /\ Only(n) /\ task'[n].pc = "idle"
    BY <1>1, <1>5, DsTaskUpdate
  <1> QED
    BY <1>1, <1>3, <1>4, <1>5 DEF RingSame, AirSame, TxSame

LEMMA LsStartDoes ==
    ASSUME DsTypeOK, NEW n \in Nodes, NEW b \in BOOLEAN, LsStart(n, b)
    PROVE  /\ DsTypeOK' /\ Only(n) /\ RingSame(n) /\ AirSame(n)
           /\ UNCHANGED <<reported, bad, answered, nreq>>
           /\ b \/ "nonblocking" \in Disturbances
           /\ task[n].pc = "ls_start"
           /\ task'[n].pc = IF b THEN "ls_wait" ELSE "idle"
           /\ \/ phy'[n].radio = "rx" /\ rng'[n].sem = rng[n].sem
              \/ phy' = phy /\ rng'[n].sem = rng[n].sem + 1
  <1> DEFINE l == IF b THEN "ls_wait" ELSE "idle"
  <1>1. /\ UNCHANGED <<nreq, reported, bad, answered>> /\ Goto(n, l)
        /\ l \in PCs /\ task[n].pc = "ls_start"
        /\ b \/ "nonblocking" \in Disturbances
        /\ \/ phy' = [phy EXCEPT ![n].radio = "rx"] /\ UNCHANGED rng
           \/ rng' = [rng EXCEPT ![n].sem = @ + 1] /\ UNCHANGED phy
    BY DEF LsStart, histVars, PCs
  <1> HIDE DEF l
  <1>2. rng[n] \in DsRngType /\ phy[n] \in DsPhyType /\ rng[n].sem + 1 \in Nat
    BY DsTyped
  <1>3. CASE phy' = [phy EXCEPT ![n].radio = "rx"] /\ UNCHANGED rng
    <2>1. PICK p \in DsPhyType :
            /\ phy' = [phy EXCEPT ![n] = p] /\ p.radio = "rx"
            /\ p.buf = phy[n].buf /\ p.txtime = phy[n].txtime
            /\ p.txcode = phy[n].txcode /\ p.window = phy[n].window
      <3> DEFINE p == [phy[n] EXCEPT !.radio = "rx"]
      <3>1. /\ p \in DsPhyType /\ p.radio = "rx" /\ p.buf = phy[n].buf
            /\ p.txtime = phy[n].txtime /\ p.txcode = phy[n].txcode
            /\ p.window = phy[n].window
        BY <1>2, DsRadio
      <3>2. phy' = [phy EXCEPT ![n] = p]
        BY <1>3
      <3> QED
        BY <3>1, <3>2
    <2>2. /\ phy' \in [Nodes -> DsPhyType] /\ phy'[n] = p
          /\ \A m \in Nodes : m # n => phy'[m] = phy[m]
      BY <2>1 DEF DsTypeOK
    <2>3. /\ DsTypeOK' /\ Only(n) /\ task'[n].pc = l
      BY <1>1, <1>3, <2>2, DsTaskUpdate DEF DsTypeOK
    <2> QED
      BY <1>1, <1>3, <2>1, <2>2, <2>3 DEF RingSame, AirSame, TxSame, l
  <1>4. CASE rng' = [rng EXCEPT ![n].sem = @ + 1] /\ UNCHANGED phy
    <2>1. PICK r \in DsRngType :
            /\ rng' = [rng EXCEPT ![n] = r]
            /\ r.sem = rng[n].sem + 1 /\ r.idx = rng[n].idx
            /\ r.code = rng[n].code /\ r.frames = rng[n].frames
            /\ r.complete_after_tx = rng[n].complete_after_tx
      BY <1>2, <1>4, DsRngSem
    <2>2. /\ rng' \in [Nodes -> DsRngType] /\ rng'[n] = r
          /\ \A m \in Nodes : m # n => rng'[m] = rng[m]
      BY <2>1 DEF DsTypeOK
    <2>3. /\ DsTypeOK' /\ Only(n) /\ task'[n].pc = l
      BY <1>1, <1>4, <2>2, DsTaskUpdate DEF DsTypeOK
    <2> QED
      BY <1>1, <1>4, <2>1, <2>2, <2>3 DEF RingSame, AirSame, TxSame, l
  <1> QED
    BY <1>1, <1>3, <1>4

\* The request, started or not, is in the ring.
PutRequest(n, f) == [rng[n].frames EXCEPT ![task[n].slot] = f]

LEMMA RqStartDoes ==
    ASSUME DsTypeOK, NEW n \in Nodes, NEW d \in Nodes \ {n},
           DsRqStart(n, d) \/ DsRqStartError(n, d)
    PROVE  /\ DsTypeOK' /\ Only(n)
           /\ UNCHANGED <<nreq, reported, bad, answered>>
           /\ task[n].pc = "rq_start" /\ task'[n].pc = "rq_wait"
           /\ rng'[n].idx = rng[n].idx /\ rng'[n].code = rng[n].code
           /\ rng'[n].complete_after_tx = rng[n].complete_after_tx
           /\ \E f \in DsFrameType :
                /\ f.code = "DS" /\ f.src = n /\ f.dst = d
                /\ f.ex = <<n, nreq[n]>>
                /\ rng'[n].frames = PutRequest(n, f)
                /\ \/ /\ rng'[n].sem = rng[n].sem
                      /\ phy'[n].radio = "tx" /\ phy'[n].buf = f
                      /\ phy'[n].txtime = phy[n].txtime
                      /\ phy'[n].txcode = phy[n].txcode
                      /\ phy'[n].window = phy[n].window
                   \/ rng'[n].sem = rng[n].sem + 1 /\ phy'[n] = phy[n]
  <1>1. /\ rng[n] \in DsRngType /\ phy[n] \in DsPhyType /\ rng[n].sem + 1 \in Nat
        /\ task[n].slot \in Slots
    BY DsTyped
  <1>2. PICK f \in DsFrameType :
          /\ f = DsRequestFrame(n, d) /\ f.code = "DS" /\ f.src = n
          /\ f.dst = d /\ f.ex = <<n, nreq[n]>>
    <2>1. rng[n].frames[task[n].slot] \in DsFrameType
      BY <1>1, DsRngParts
    <2>2. <<n, nreq[n]>> \in Exchanges
      BY DEF DsTypeOK, Exchanges
    <2> DEFINE f == DsRequestFrame(n, d)
    <2>3. /\ f \in DsFrameType /\ f.code = "DS" /\ f.src = n /\ f.dst = d
          /\ f.ex = <<n, nreq[n]>>
      BY <2>1, <2>2 DEF DsRequestFrame, DsFrameType, DsCodes
    <2> QED
      BY <2>3
  <1>3. /\ Goto(n, "rq_wait") /\ "rq_wait" \in PCs /\ task[n].pc = "rq_start"
        /\ UNCHANGED <<nreq, reported, bad, answered>>
    BY DEF DsRqStart, DsRqStartError, histVars, PCs
  <1>4. PICK q \in DsRngType :
          /\ q = [rng[n] EXCEPT !.frames[task[n].slot] = f]
          /\ q.sem = rng[n].sem /\ q.idx = rng[n].idx /\ q.code = rng[n].code
          /\ q.complete_after_tx = rng[n].complete_after_tx
          /\ q.frames = PutRequest(n, f)
    <2> DEFINE q == [rng[n] EXCEPT !.frames[task[n].slot] = f]
    <2>1. /\ q \in DsRngType
          /\ q.sem = rng[n].sem /\ q.idx = rng[n].idx /\ q.code = rng[n].code
          /\ q.complete_after_tx = rng[n].complete_after_tx
          /\ q.frames = [rng[n].frames EXCEPT ![task[n].slot] = f]
      BY <1>1, DsRngFrame
    <2> QED
      BY <2>1 DEF PutRequest
  <1>5. CASE DsRqStart(n, d)
    <2>1. /\ rng' = [rng EXCEPT ![n] = q]
          /\ phy' = [phy EXCEPT ![n].radio = "tx", ![n].buf = f]
      BY <1>2, <1>4, <1>5 DEF DsRqStart
    <2>2. PICK p \in DsPhyType :
            /\ phy' = [phy EXCEPT ![n] = p] /\ p.radio = "tx" /\ p.buf = f
            /\ p.txtime = phy[n].txtime /\ p.txcode = phy[n].txcode
            /\ p.window = phy[n].window
      <3> DEFINE p == [phy[n] EXCEPT !.radio = "tx", !.buf = f]
      <3>1. /\ p \in DsPhyType /\ p.radio = "tx" /\ p.buf = f
            /\ p.txtime = phy[n].txtime /\ p.txcode = phy[n].txcode
            /\ p.window = phy[n].window
        BY <1>1, DsStarted
      <3>2. phy' = [phy EXCEPT ![n] = p]
        BY <2>1
      <3> QED
        BY <3>1, <3>2
    <2>3. /\ rng' \in [Nodes -> DsRngType] /\ phy' \in [Nodes -> DsPhyType]
          /\ rng'[n] = q /\ phy'[n] = p
          /\ \A m \in Nodes : m # n => rng'[m] = rng[m] /\ phy'[m] = phy[m]
      BY <2>1, <2>2 DEF DsTypeOK
    <2>4. DsTypeOK' /\ Only(n) /\ task'[n].pc = "rq_wait"
      BY <1>3, <2>3, DsTaskUpdate
    <2> QED
      BY <1>2, <1>3, <1>4, <2>2, <2>3, <2>4
  <1>6. CASE DsRqStartError(n, d)
    <2>1. /\ rng' = [rng EXCEPT ![n].frames[task[n].slot] = f,
                               ![n].sem = @ + 1]
          /\ phy' = phy
      BY <1>2, <1>6 DEF DsRqStartError
    <2>2. rng' = [rng EXCEPT ![n] = [q EXCEPT !.sem = rng[n].sem + 1]]
      BY <1>1, <1>4, <2>1 DEF DsTypeOK, DsRngType
    <2>3. PICK r \in DsRngType :
            /\ rng' = [rng EXCEPT ![n] = r]
            /\ r.sem = rng[n].sem + 1 /\ r.idx = q.idx /\ r.code = q.code
            /\ r.frames = q.frames
            /\ r.complete_after_tx = q.complete_after_tx
      BY <1>1, <2>2, DsRngSem
    <2>4. /\ rng' \in [Nodes -> DsRngType] /\ phy' \in [Nodes -> DsPhyType]
          /\ rng'[n] = r /\ phy'[n] = phy[n]
          /\ \A m \in Nodes : m # n => rng'[m] = rng[m] /\ phy'[m] = phy[m]
      BY <2>1, <2>3 DEF DsTypeOK
    <2>5. DsTypeOK' /\ Only(n) /\ task'[n].pc = "rq_wait"
      BY <1>3, <2>4, DsTaskUpdate
    <2> QED
      BY <1>2, <1>3, <1>4, <2>3, <2>4, <2>5
  <1> QED
    BY <1>5, <1>6

\* A transmission ends: the frame reaches the nodes of R.
LEMMA TxEndDoes ==
    ASSUME DsTypeOK, NEW n \in Nodes, NEW R \in SUBSET Nodes, DsTxEnd(n, R)
    PROVE  /\ DsTypeOK' /\ UNCHANGED <<task, nreq, answered>>
           /\ n \notin R /\ phy[n].radio = "tx"
           /\ \A m \in Nodes : /\ rng'[m].frames = rng[m].frames
                               /\ rng'[m].idx = rng[m].idx
                               /\ rng'[m].code = rng[m].code
           /\ \A m \in Nodes : m # n => /\ rng'[m] = rng[m]
                                       /\ reported'[m] = reported[m]
           /\ phy'[n].radio = IF phy[n].buf.code = "FINAL" THEN "off" ELSE "rx"
           /\ phy'[n].buf = phy[n].buf /\ phy'[n].window
           /\ phy'[n].txtime = phy[n].buf.ex
           /\ phy'[n].txcode = phy[n].buf.code
           /\ \A m \in R : /\ DsHears(m, phy[n].buf) /\ phy'[m].radio = "got"
                           /\ phy'[m].buf = phy[n].buf /\ ~phy'[m].window
                           /\ phy'[m].txtime = phy[m].txtime
                           /\ phy'[m].txcode = phy[m].txcode
           /\ \A m \in Nodes : m # n /\ m \notin R => phy'[m] = phy[m]
           /\ \/ /\ DsCompletesAfterTx(n) /\ rng'[n].sem = rng[n].sem + 1
                 /\ ~rng'[n].complete_after_tx
                 /\ reported'[n] = rng[n].frames[rng[n].idx]
                 /\ bad' = (bad \/ ~(/\ rng[n].frames[rng[n].idx] = phy[n].buf
                                     /\ rng[n].frames[rng[n].idx].code = "FINAL"))
              \/ ~DsCompletesAfterTx(n) /\ UNCHANGED <<rng, reported, bad>>
  <1>1. /\ \A m \in Nodes : phy[m] \in DsPhyType
        /\ phy[n].buf \in DsFrameType /\ phy[n].buf.ex \in Exchanges
        /\ phy[n].buf.code \in DsCodes \cup {"none"}
    BY DsTyped, DsPhyParts, DsFrameFields
  <1>2. PICK p \in DsPhyType :
          /\ p = [phy[n] EXCEPT
                    !.radio = IF phy[n].buf.code = "FINAL" THEN "off" ELSE "rx",
                    !.txtime = phy[n].buf.ex, !.txcode = phy[n].buf.code,
                    !.window = TRUE]
          /\ p.radio = IF phy[n].buf.code = "FINAL" THEN "off" ELSE "rx"
          /\ p.buf = phy[n].buf /\ p.window /\ p.txtime = phy[n].buf.ex
          /\ p.txcode = phy[n].buf.code
    <2> DEFINE p == [phy[n] EXCEPT
                      !.radio = IF phy[n].buf.code = "FINAL" THEN "off" ELSE "rx",
                      !.txtime = phy[n].buf.ex, !.txcode = phy[n].buf.code,
                      !.window = TRUE]
    <2>1. /\ p \in DsPhyType
          /\ p.radio = IF phy[n].buf.code = "FINAL" THEN "off" ELSE "rx"
          /\ p.buf = phy[n].buf /\ p.window /\ p.txtime = phy[n].buf.ex
          /\ p.txcode = phy[n].buf.code
      BY <1>1 DEF DsPhyType
    <2> QED
      BY <2>1
  <1>3. ASSUME NEW m \in Nodes
        PROVE  LET q == [phy[m] EXCEPT !.radio = "got", !.buf = phy[n].buf,
                                       !.window = FALSE] IN
               /\ q \in DsPhyType /\ q.radio = "got" /\ q.buf = phy[n].buf
               /\ ~q.window /\ q.txtime = phy[m].txtime
               /\ q.txcode = phy[m].txcode
    BY <1>1 DEF DsPhyType
  <1>4. phy' = [m \in Nodes |->
                  IF m = n THEN p
                  ELSE IF m \in R
                    THEN [phy[m] EXCEPT !.radio = "got", !.buf = phy[n].buf,
                                        !.window = FALSE]
                    ELSE phy[m]]
    BY <1>2 DEF DsTxEnd
  <1>5. /\ n \notin R /\ phy[n].radio = "tx"
        /\ \A m \in R : DsHears(m, phy[n].buf)
        /\ UNCHANGED <<task, nreq, answered>>
    BY DEF DsTxEnd
  <1>6. phy' \in [Nodes -> DsPhyType]
    BY <1>1, <1>3, <1>4
  <1>7. /\ phy'[n] = p
        /\ \A m \in R : phy'[m] = [phy[m] EXCEPT !.radio = "got",
                               !.buf = phy[n].buf, !.window = FALSE]
        /\ \A m \in Nodes : m # n /\ m \notin R => phy'[m] = phy[m]
    BY <1>4, <1>5
  <1>8. \A m \in R : /\ phy'[m].radio = "got"
                     /\ phy'[m].buf = phy[n].buf /\ ~phy'[m].window
                     /\ phy'[m].txtime = phy[m].txtime
                     /\ phy'[m].txcode = phy[m].txcode
    <2> TAKE m \in R
    <2> DEFINE q == [phy[m] EXCEPT !.radio = "got", !.buf = phy[n].buf,
                                   !.window = FALSE]
    <2>1. /\ q.radio = "got" /\ q.buf = phy[n].buf /\ ~q.window
          /\ q.txtime = phy[m].txtime /\ q.txcode = phy[m].txcode
      BY <1>3
    <2>2. phy'[m] = q
      BY <1>7
    <2> QED
      BY <2>1, <2>2
  <1>9. CASE DsCompletesAfterTx(n)
    <2>1. /\ rng' = [rng EXCEPT ![n].sem = @ + 1,
                                ![n].complete_after_tx = FALSE]
          /\ DsComplete(n, rng[n].frames[rng[n].idx], phy[n].buf)
      BY <1>9 DEF DsTxEnd
    <2>2. /\ rng[n] \in DsRngType /\ rng[n].sem + 1 \in Nat
          /\ rng[n].frames[rng[n].idx] \in DsFrameType
      BY DsTyped, DsRngParts
    <2>3. PICK r \in DsRngType :
            /\ rng' = [rng EXCEPT ![n] = r] /\ r.sem = rng[n].sem + 1
            /\ r.idx = rng[n].idx /\ r.code = rng[n].code
            /\ r.frames = rng[n].frames /\ ~r.complete_after_tx
      <3> DEFINE r == [rng[n] EXCEPT !.sem = rng[n].sem + 1,
                                     !.complete_after_tx = FALSE]
      <3>1. /\ r \in DsRngType /\ r.sem = rng[n].sem + 1
            /\ r.idx = rng[n].idx /\ r.code = rng[n].code
            /\ r.frames = rng[n].frames /\ ~r.complete_after_tx
        BY <2>2 DEF DsRngType
      <3>2. rng' = [rng EXCEPT ![n] = r]
        BY <2>1
      <3> QED
        BY <3>1, <3>2
    <2>4. /\ rng' \in [Nodes -> DsRngType] /\ rng'[n] = r
          /\ \A m \in Nodes : m # n => rng'[m] = rng[m]
      BY <2>3 DEF DsTypeOK
    <2>5. /\ reported' \in [Nodes -> DsFrameType]
          /\ reported'[n] = rng[n].frames[rng[n].idx]
          /\ \A m \in Nodes : m # n => reported'[m] = reported[m]
          /\ bad' \in BOOLEAN
          /\ bad' = (bad \/ ~(/\ rng[n].frames[rng[n].idx] = phy[n].buf
                              /\ rng[n].frames[rng[n].idx].code = "FINAL"))
      BY <2>1, <2>2 DEF DsTypeOK, DsComplete
    <2>6. DsTypeOK'
      BY <1>5, <1>6, <2>4, <2>5 DEF DsTypeOK
    <2> QED
      BY <1>2, <1>5, <1>7, <1>8, <1>9, <2>3, <2>4, <2>5, <2>6
  <1>10. CASE ~DsCompletesAfterTx(n)
    <2>1. UNCHANGED <<rng, reported, bad>>
      BY <1>10 DEF DsTxEnd
    <2>2. DsTypeOK'
      BY <1>5, <1>6, <2>1 DEF DsTypeOK
    <2> QED
      BY <1>2, <1>5, <1>7, <1>8, <1>10, <2>1, <2>2
  <1> QED
    BY <1>9, <1>10

\* Time-outs, resets and the frames nobody asked for.
LEMMA OtherDoes ==
    ASSUME DsTypeOK, NEW n \in Nodes,
           RxUnsolicited(n) \/ RxAck(n) \/ RxForeign(n) \/ RxTimeout(n)
             \/ Reset(n) \/ SuperframeReset(n)
    PROVE  /\ DsTypeOK' /\ Only(n) /\ RingSame(n) /\ AirSame(n)
           /\ UNCHANGED <<task, nreq, reported, bad, answered>>
           /\ \/ rng'[n].sem = rng[n].sem
                /\ (phy[n].radio = "got" => rng[n].sem = 1)
              \/ rng'[n].sem = Raised(n)
           /\ SuperframeReset(n) \/ phy'[n].radio = "off"
  <1>1. /\ rng[n] \in DsRngType /\ phy[n] \in DsPhyType /\ Raised(n) \in Nat
    BY DsTyped
  <1>2. UNCHANGED <<task, nreq, reported, bad, answered>>
    BY DEF RxUnsolicited, RxAck, RxForeign, RxTimeout, Reset, SuperframeReset,
           histVars
  <1>3. PICK r \in DsRngType :
          /\ rng'[n] = r /\ \A m \in Nodes : m # n => rng'[m] = rng[m]
          /\ rng' \in [Nodes -> DsRngType]
          /\ r.idx = rng[n].idx /\ r.code = rng[n].code
          /\ r.frames = rng[n].frames
          /\ r.complete_after_tx = rng[n].complete_after_tx
          /\ \/ r.sem = rng[n].sem /\ (phy[n].radio = "got" => rng[n].sem = 1)
             \/ r.sem = Raised(n)
    <2>1. CASE RxUnsolicited(n) \/ RxAck(n)
      BY <1>1, <2>1 DEF RxUnsolicited, RxAck, Solicited, DsTypeOK
    <2>2. CASE RxForeign(n) \/ RxTimeout(n) \/ Reset(n) \/ SuperframeReset(n)
      <3> DEFINE r == [rng[n] EXCEPT !.sem = Raised(n)]
      <3>1. /\ r \in DsRngType /\ r.idx = rng[n].idx /\ r.code = rng[n].code
            /\ r.frames = rng[n].frames /\ r.sem = Raised(n)
            /\ r.complete_after_tx = rng[n].complete_after_tx
        BY <1>1, DsRngSem
      <3>2. rng' = [rng EXCEPT ![n] = r]
        BY <2>2 DEF RxForeign, RxTimeout, Reset, SuperframeReset
      <3> HIDE DEF r
      <3>3. /\ rng'[n] = r /\ \A m \in Nodes : m # n => rng'[m] = rng[m]
            /\ rng' \in [Nodes -> DsRngType]
        BY <3>1, <3>2 DEF DsTypeOK
      <3> QED
        BY <3>1, <3>3
    <2> QED
      BY <2>1, <2>2
  <1>4. /\ phy' \in [Nodes -> DsPhyType] /\ AirSame(n)
        /\ \A m \in Nodes : m # n => phy'[m] = phy[m]
        /\ SuperframeReset(n) \/ phy'[n].radio = "off"
    <2>1. CASE RxUnsolicited(n)
      BY <1>1, <2>1, DsPhyFacts DEF RxUnsolicited, DsTypeOK, AirSame, TxSame
    <2>2. CASE RxAck(n) \/ RxForeign(n)
      <3>1. phy' = [phy EXCEPT ![n].radio = "off", ![n].ranging = FALSE]
        BY <2>2 DEF RxAck, RxForeign
      <3> QED
        BY <1>1, <3>1 DEF DsTypeOK, DsPhyType, AirSame, TxSame
    <2>3. CASE RxTimeout(n) \/ Reset(n)
      <3>1. phy' = [phy EXCEPT ![n].radio = "off"]
        BY <2>3 DEF RxTimeout, Reset
      <3> QED
        BY <1>1, <3>1 DEF DsTypeOK, DsPhyType, AirSame, TxSame
    <2>4. CASE SuperframeReset(n)
      BY <2>4 DEF SuperframeReset, DsTypeOK, AirSame, TxSame
    <2> QED
      BY <2>1, <2>2, <2>3, <2>4
  <1>5. DsTypeOK' /\ Only(n)
    BY <1>2, <1>3, <1>4, DsUpdate DEF DsTypeOK
  <1> QED
    BY <1>2, <1>3, <1>4, <1>5 DEF RingSame

-----------------------------------------------------------------------------
(* What the callbacks do with a received frame *)

Becomes(n, r, p, g) ==
    /\ rng' = [rng EXCEPT ![n] = r] /\ phy' = [phy EXCEPT ![n] = p]
    /\ reported' = [reported EXCEPT ![n] = g]

LEMMA DsRxUpdate ==
    ASSUME DsTypeOK, NEW n \in Nodes, NEW r \in DsRngType,
           NEW p \in DsPhyType, NEW g \in DsFrameType, Becomes(n, r, p, g),
           UNCHANGED <<task, nreq>>, bad' \in BOOLEAN,
           answered' \subseteq Exchanges
    PROVE  /\ DsTypeOK' /\ Only(n) /\ rng'[n] = r /\ phy'[n] = p
           /\ reported'[n] = g
  BY DEF DsTypeOK, Only, Becomes

\* The answer is started, or the start fails and the semaphore is given back.
Sent(n, f) ==
    /\ rng'[n].sem = rng[n].sem /\ TxSame(n) /\ phy'[n].radio = "tx"
    /\ phy'[n].buf = f /\ phy'[n].ranging
GaveUp(n) ==
    rng'[n].sem = rng[n].sem + 1 /\ AirSame(n) /\ phy'[n].radio = "off"

\* The ring with a frame in the next entry.
Put(n, f) == [rng[n].frames EXCEPT ![Next1(rng[n].idx)] = f]
PutAfter(n, f, g) == [Put(n, f) EXCEPT ![Next1(Next1(rng[n].idx))] = g]
PutBefore(n, f, g) == [Put(n, f) EXCEPT ![rng[n].idx] = g]

\* The frame was taken: idx is the next one, the ring is fs.
Took(n, fs) ==
    /\ rng'[n].idx = Next1(rng[n].idx) /\ rng'[n].code = Frame(n).code
    /\ rng'[n].frames = fs

\* The transceiver is turned off, or sends f.
LEMMA OffDoes ==
    ASSUME DsTypeOK, NEW n \in Nodes, NEW r \in DsRngType,
           NEW g \in DsFrameType, Becomes(n, r, Silent(n), g),
           UNCHANGED <<task, nreq>>, bad' \in BOOLEAN,
           answered' \subseteq Exchanges
    PROVE  /\ DsTypeOK' /\ Only(n) /\ rng'[n] = r /\ reported'[n] = g
           /\ phy'[n].radio = "off" /\ AirSame(n)
  <1>1. Silent(n) \in DsPhyType
    BY DsPhyFacts
  <1>2. /\ DsTypeOK' /\ Only(n) /\ rng'[n] = r /\ phy'[n] = Silent(n)
        /\ reported'[n] = g
    BY <1>1, DsRxUpdate
  <1> QED
    BY <1>2, DsPhyFacts DEF AirSame, TxSame

LEMMA SendDoes ==
    ASSUME DsTypeOK, NEW n \in Nodes, NEW r \in DsRngType,
           NEW f \in DsFrameType, NEW g \in DsFrameType, r.sem = rng[n].sem,
           Becomes(n, r, Sending(n, f), g), UNCHANGED <<task, nreq>>,
           bad' \in BOOLEAN, answered' \subseteq Exchanges
    PROVE  /\ DsTypeOK' /\ Only(n) /\ rng'[n] = r /\ reported'[n] = g
           /\ Sent(n, f)
  <1>1. Sending(n, f) \in DsPhyType
    BY DsPhyFacts
  <1>2. /\ DsTypeOK' /\ Only(n) /\ rng'[n] = r /\ phy'[n] = Sending(n, f)
        /\ reported'[n] = g
    BY <1>1, DsRxUpdate
  <1> QED
    BY <1>2, DsPhyFacts DEF Sent, TxSame

LEMMA AnswersDoes ==
    ASSUME DsTypeOK, NEW n \in Nodes, NEW t \in DsRngType,
           NEW f \in DsFrameType, t.sem = rng[n].sem, Answers(n, t, f),
           reported' = [reported EXCEPT ![n] = DsBlank(n)],
           UNCHANGED <<task, nreq, bad>>, answered' \subseteq Exchanges
    PROVE  /\ DsTypeOK' /\ Only(n) /\ reported'[n].code = "none"
           /\ rng'[n].idx = t.idx /\ rng'[n].code = t.code
           /\ rng'[n].frames = t.frames
           /\ rng'[n].complete_after_tx = t.complete_after_tx
           /\ Sent(n, f) \/ GaveUp(n)
  <1>1. /\ DsBlank(n) \in DsFrameType /\ DsBlank(n).code = "none"
        /\ bad' \in BOOLEAN /\ UNCHANGED <<task, nreq>>
    BY DsBlankType DEF DsTypeOK
  <1>2. CASE /\ rng' = [rng EXCEPT ![n] = t]
             /\ phy' = [phy EXCEPT ![n] = Sending(n, f)]
    <2>1. Becomes(n, t, Sending(n, f), DsBlank(n))
      BY <1>2 DEF Becomes
    <2>2. /\ DsTypeOK' /\ Only(n) /\ rng'[n] = t /\ reported'[n] = DsBlank(n)
          /\ Sent(n, f)
      BY <1>1, <2>1, SendDoes
    <2> QED
      BY <1>1, <2>2
  <1>3. CASE /\ rng' = [rng EXCEPT ![n] = [t EXCEPT !.sem = @ + 1]]
             /\ phy' = [phy EXCEPT ![n] = Silent(n)]
    <2> DEFINE q == [t EXCEPT !.sem = t.sem + 1]
    <2>1. /\ q \in DsRngType /\ q.sem = t.sem + 1 /\ q.idx = t.idx
          /\ q.code = t.code /\ q.frames = t.frames
          /\ q.complete_after_tx = t.complete_after_tx
      BY DsTyped, DsRngSem
    <2>2. Becomes(n, q, Silent(n), DsBlank(n))
      BY <1>3 DEF Becomes
    <2> HIDE DEF q
    <2>3. /\ DsTypeOK' /\ Only(n) /\ rng'[n] = q /\ reported'[n] = DsBlank(n)
          /\ phy'[n].radio = "off" /\ AirSame(n)
      BY <1>1, <2>1, <2>2, OffDoes
    <2> QED
      BY <1>1, <2>1, <2>3 DEF GaveUp
  <1> QED
    BY <1>2, <1>3 DEF Answers

LEMMA OtherAddressDoes ==
    ASSUME DsTypeOK, NEW n \in Nodes, DsOtherAddress(n)
    PROVE  /\ DsTypeOK' /\ Only(n) /\ AirSame(n)
           /\ UNCHANGED <<task, nreq, reported, bad, answered>>
           /\ Received(n) /\ Frame(n).dst # n /\ phy'[n].radio = "off"
           /\ rng'[n].sem = Raised(n) /\ rng'[n].idx = rng[n].idx
           /\ rng'[n].complete_after_tx = rng[n].complete_after_tx
           /\ rng'[n].frames =
                [rng[n].frames EXCEPT ![Next1(rng[n].idx)] = InRing(n)]
  <1> DEFINE i == Next1(rng[n].idx)
             c == Frame(n).code
             k == Raised(n)
             f == InRing(n)
  <1>1. /\ rng[n] \in DsRngType /\ i \in Slots /\ k \in Nat
        /\ c \in DsCodes \cup {"none"} /\ f \in DsFrameType
    BY DsTyped, DsRngParts, DsFrameFields
  <1>2. /\ rng' = [rng EXCEPT ![n].code = c, ![n].sem = k, ![n].frames[i] = f]
        /\ phy' = [phy EXCEPT ![n] = Silent(n)]
        /\ Received(n) /\ Frame(n).dst # n
        /\ UNCHANGED <<task, nreq, reported, bad, answered>>
    BY DEF DsOtherAddress, histVars
  <1> HIDE DEF i, c, k, f
  <1>3. PICK r \in DsRngType :
          /\ rng' = [rng EXCEPT ![n] = r] /\ r.sem = k /\ r.idx = rng[n].idx
          /\ r.complete_after_tx = rng[n].complete_after_tx
          /\ r.frames = [rng[n].frames EXCEPT ![i] = f]
    <2> DEFINE g == [rng[n].frames EXCEPT ![i] = f]
               r == [rng[n] EXCEPT !.code = c, !.sem = k, !.frames = g]
    <2>1. g \in [Slots -> DsFrameType]
      BY <1>1, DsRngParts
    <2>2. rng' = [rng EXCEPT ![n] = r]
      BY <1>2
    <2> HIDE DEF g
    <2>3. /\ r \in DsRngType /\ r.sem = k /\ r.idx = rng[n].idx /\ r.frames = g
          /\ r.complete_after_tx = rng[n].complete_after_tx
      BY <1>1, <2>1 DEF DsRngType
    <2> QED
      BY <2>2, <2>3 DEF g
  <1>4. /\ rng' \in [Nodes -> DsRngType] /\ rng'[n] = r
        /\ \A m \in Nodes : m # n => rng'[m] = rng[m]
    BY <1>3 DEF DsTypeOK
  <1>5. /\ phy' \in [Nodes -> DsPhyType] /\ phy'[n] = Silent(n)
        /\ \A m \in Nodes : m # n => phy'[m] = phy[m]
    BY <1>2, DsPhyFacts DEF DsTypeOK
  <1>6. AirSame(n) /\ phy'[n].radio = "off"
    BY <1>5, DsPhyFacts DEF AirSame, TxSame
  <1>7. DsTypeOK' /\ Only(n)
    BY <1>2, <1>4, <1>5, DsUpdate DEF DsTypeOK
  <1> QED
    BY <1>2, <1>3, <1>4, <1>6, <1>7 DEF i, k, f

\* DS: T1 carries when the request came.
LEMMA DsRequestDoes ==
    ASSUME DsTypeOK, NEW n \in Nodes, DsRequest(n)
    PROVE  /\ DsTypeOK' /\ Only(n) /\ ForMe(n, "DS")
           /\ UNCHANGED <<task, nreq, bad, answered>>
           /\ rng'[n].complete_after_tx = rng[n].complete_after_tx
           /\ reported'[n].code = "none"
           /\ \E t1 \in DsFrameType :
                /\ t1.code = "T1" /\ t1.src = n /\ t1.dst = Frame(n).src
                /\ t1.ex = Frame(n).ex
                /\ t1.reception = <<"DS", Frame(n).ex>>
                /\ t1.transmission = <<"T1", Frame(n).ex>>
                /\ Took(n, Put(n, t1))
                /\ Sent(n, t1) \/ GaveUp(n)
  <1>1. /\ InRing(n) \in DsFrameType /\ Now(n) \in Stamps
        /\ Later(n, "T1") \in Stamps /\ Frame(n).src \in Nodes
    BY DsTyped, DsFrameFields DEF DsCodes
  <1>2. ForMe(n, "DS") /\ Frame(n).code = "DS"
    BY DEF DsRequest, ForMe
  <1>3. InRing(n).ex = Frame(n).ex
    BY <1>2, DsTyped, DsRngParts, OverFields DEF InRing, DsCodes
  <1>4. PICK t1 \in DsFrameType :
          /\ t1 = [InRing(n) EXCEPT
                     !.code = "T1", !.src = n, !.dst = Frame(n).src,
                     !.reception = Now(n), !.transmission = Later(n, "T1")]
          /\ t1.code = "T1" /\ t1.src = n /\ t1.dst = Frame(n).src
          /\ t1.ex = Frame(n).ex /\ t1.reception = Now(n)
          /\ t1.transmission = Later(n, "T1")
    <2> DEFINE t1 == [InRing(n) EXCEPT
                        !.code = "T1", !.src = n, !.dst = Frame(n).src,
                        !.reception = Now(n), !.transmission = Later(n, "T1")]
    <2>1. /\ t1 \in DsFrameType
          /\ t1.code = "T1" /\ t1.src = n /\ t1.dst = Frame(n).src
          /\ t1.ex = InRing(n).ex /\ t1.reception = Now(n)
          /\ t1.transmission = Later(n, "T1")
      BY <1>1 DEF DsFrameType, DsCodes
    <2> QED
      BY <1>3, <2>1
  <1>5. /\ Answers(n, Taken(n, t1), t1)
        /\ reported' = [reported EXCEPT ![n] = DsBlank(n)]
        /\ UNCHANGED <<task, nreq, bad, answered>>
    BY <1>4 DEF DsRequest
  <1>6. PICK t \in DsRngType :
          /\ t = Taken(n, t1) /\ t.sem = rng[n].sem
          /\ t.idx = Next1(rng[n].idx) /\ t.code = Frame(n).code
          /\ t.complete_after_tx = rng[n].complete_after_tx
          /\ t.frames = Put(n, t1)
    BY DsTakenFacts DEF Put
  <1>7. Answers(n, t, t1)
    BY <1>5, <1>6
  <1>8. /\ DsTypeOK' /\ Only(n) /\ reported'[n].code = "none"
        /\ rng'[n].idx = t.idx /\ rng'[n].code = t.code
        /\ rng'[n].frames = t.frames
        /\ rng'[n].complete_after_tx = t.complete_after_tx
        /\ Sent(n, t1) \/ GaveUp(n)
    <2>1. answered' \subseteq Exchanges
      BY <1>5 DEF DsTypeOK
    <2> QED
      BY <1>5, <1>6, <1>7, <2>1, AnswersDoes
  <1>9. Took(n, Put(n, t1))
    BY <1>6, <1>8 DEF Took
  <1>10. Now(n) = <<"DS", Frame(n).ex>> /\ Later(n, "T1") = <<"T1", Frame(n).ex>>
    BY <1>2 DEF Now, Later
  <1> QED
    BY <1>2, <1>4, <1>5, <1>6, <1>8, <1>9, <1>10

\* T1: T2 carries the times of the first round, which its entry gets too.
LEMMA DsResponseDoes ==
    ASSUME DsTypeOK, NEW n \in Nodes, DsResponse(n)
    PROVE  /\ DsTypeOK' /\ Only(n) /\ ForMe(n, "T1")
           /\ UNCHANGED <<task, nreq, bad>>
           /\ answered' = answered \cup {Frame(n).ex}
           /\ rng'[n].complete_after_tx = rng[n].complete_after_tx
           /\ reported'[n].code = "none"
           /\ \E t1, t2 \in DsFrameType :
                /\ t1.code = "T1" /\ t1.request = LastTx(n)
                /\ t1.response = <<"T1", Frame(n).ex>>
                /\ t1.reception = Frame(n).reception
                /\ t1.transmission = Frame(n).transmission
                /\ t2.code = "T2" /\ t2.src = n /\ t2.dst = Frame(n).src
                /\ t2.ex = Frame(n).ex /\ t2.request = LastTx(n)
                /\ t2.response = <<"T1", Frame(n).ex>>
                /\ t2.reception = <<"T1", Frame(n).ex>>
                /\ t2.transmission = <<"T2", Frame(n).ex>>
                /\ Took(n, PutAfter(n, t1, t2))
                /\ Sent(n, t2) \/ GaveUp(n)
  <1> DEFINE i == Next1(rng[n].idx)
             j == Next1(i)
  <1>1. /\ InRing(n) \in DsFrameType /\ Now(n) \in Stamps /\ LastTx(n) \in Stamps
        /\ Later(n, "T2") \in Stamps /\ Frame(n).src \in Nodes
        /\ Frame(n).ex \in Exchanges /\ i \in Slots /\ j \in Slots
        /\ rng[n].frames[j] \in DsFrameType
    BY DsTyped, DsFrameFields, DsRngParts, Next1Type DEF DsCodes
  <1>2. ForMe(n, "T1") /\ Frame(n).code = "T1"
    BY DEF DsResponse, ForMe
  <1>3. /\ InRing(n).code = "T1" /\ InRing(n).reception = Frame(n).reception
        /\ InRing(n).transmission = Frame(n).transmission
    BY <1>2, DsTyped, DsRngParts, OverFields DEF InRing, DsCodes
  <1>4. PICK t1 \in DsFrameType :
          /\ t1 = [InRing(n) EXCEPT !.request = LastTx(n), !.response = Now(n)]
          /\ t1.code = "T1" /\ t1.request = LastTx(n) /\ t1.response = Now(n)
          /\ t1.reception = Frame(n).reception
          /\ t1.transmission = Frame(n).transmission
    <2> DEFINE t1 == [InRing(n) EXCEPT !.request = LastTx(n), !.response = Now(n)]
    <2>1. /\ t1 \in DsFrameType /\ t1.code = InRing(n).code
          /\ t1.request = LastTx(n) /\ t1.response = Now(n)
          /\ t1.reception = InRing(n).reception
          /\ t1.transmission = InRing(n).transmission
      BY <1>1 DEF DsFrameType
    <2> QED
      BY <1>3, <2>1
  <1>5. PICK t2 \in DsFrameType :
          /\ t2 = [rng[n].frames[j] EXCEPT
                     !.code = "T2", !.src = n, !.dst = Frame(n).src,
                     !.ex = Frame(n).ex, !.request = LastTx(n),
                     !.response = Now(n), !.reception = Now(n),
                     !.transmission = Later(n, "T2")]
          /\ t2.code = "T2" /\ t2.src = n /\ t2.dst = Frame(n).src
          /\ t2.ex = Frame(n).ex /\ t2.request = LastTx(n)
          /\ t2.response = Now(n) /\ t2.reception = Now(n)
          /\ t2.transmission = Later(n, "T2")
    <2> DEFINE t2 == [rng[n].frames[j] EXCEPT
                       !.code = "T2", !.src = n, !.dst = Frame(n).src,
                       !.ex = Frame(n).ex, !.request = LastTx(n),
                       !.response = Now(n), !.reception = Now(n),
                       !.transmission = Later(n, "T2")]
    <2>1. /\ t2 \in DsFrameType
          /\ t2.code = "T2" /\ t2.src = n /\ t2.dst = Frame(n).src
          /\ t2.ex = Frame(n).ex /\ t2.request = LastTx(n)
          /\ t2.response = Now(n) /\ t2.reception = Now(n)
          /\ t2.transmission = Later(n, "T2")
      BY <1>1 DEF DsFrameType, DsCodes
    <2> QED
      BY <2>1
  <1>6. /\ Answers(n, [Taken(n, t1) EXCEPT !.frames[j] = t2], t2)
        /\ reported' = [reported EXCEPT ![n] = DsBlank(n)]
        /\ answered' = answered \cup {Frame(n).ex}
        /\ UNCHANGED <<task, nreq, bad>>
    BY <1>4, <1>5 DEF DsResponse
  <1>7. PICK t \in DsRngType :
          /\ t = [Taken(n, t1) EXCEPT !.frames[j] = t2] /\ t.sem = rng[n].sem
          /\ t.idx = i /\ t.code = Frame(n).code
          /\ t.complete_after_tx = rng[n].complete_after_tx
          /\ t.frames = PutAfter(n, t1, t2)
    <2>1. PICK u \in DsRngType :
            /\ u = Taken(n, t1) /\ u.sem = rng[n].sem /\ u.idx = i
            /\ u.code = Frame(n).code
            /\ u.complete_after_tx = rng[n].complete_after_tx
            /\ u.frames = Put(n, t1)
      BY DsTakenFacts DEF Put
    <2> DEFINE t == [u EXCEPT !.frames[j] = t2]
    <2>2. /\ t \in DsRngType /\ t.sem = u.sem /\ t.idx = u.idx
          /\ t.code = u.code /\ t.complete_after_tx = u.complete_after_tx
          /\ t.frames = [u.frames EXCEPT ![j] = t2]
      BY <1>1, DsRngFrame
    <2>3. t.frames = PutAfter(n, t1, t2)
      BY <2>1, <2>2 DEF PutAfter
    <2>4. t = [Taken(n, t1) EXCEPT !.frames[j] = t2]
      BY <2>1
    <2> QED
      BY <2>1, <2>2, <2>3, <2>4
  <1>8. Answers(n, t, t2)
    BY <1>6, <1>7
  <1>9. /\ DsTypeOK' /\ Only(n) /\ reported'[n].code = "none"
        /\ rng'[n].idx = t.idx /\ rng'[n].code = t.code
        /\ rng'[n].frames = t.frames
        /\ rng'[n].complete_after_tx = t.complete_after_tx
        /\ Sent(n, t2) \/ GaveUp(n)
    <2>1. answered' \subseteq Exchanges
      BY <1>1, <1>6 DEF DsTypeOK
    <2> QED
      BY <1>6, <1>7, <1>8, <2>1, AnswersDoes
  <1>10. Took(n, PutAfter(n, t1, t2))
    BY <1>7, <1>9 DEF Took
  <1>11. Now(n) = <<"T1", Frame(n).ex>> /\ Later(n, "T2") = <<"T2", Frame(n).ex>>
    BY <1>2 DEF Now, Later
  <1> HIDE DEF i, j
  <1>12. /\ t1.code = "T1" /\ t1.request = LastTx(n)
         /\ t1.response = <<"T1", Frame(n).ex>>
         /\ t1.reception = Frame(n).reception
         /\ t1.transmission = Frame(n).transmission
    BY <1>4, <1>11
  <1>13. /\ t2.code = "T2" /\ t2.src = n /\ t2.dst = Frame(n).src
         /\ t2.ex = Frame(n).ex /\ t2.request = LastTx(n)
         /\ t2.response = <<"T1", Frame(n).ex>>
         /\ t2.reception = <<"T1", Frame(n).ex>>
         /\ t2.transmission = <<"T2", Frame(n).ex>>
    BY <1>5, <1>11
  <1>14. rng'[n].complete_after_tx = rng[n].complete_after_tx
    BY <1>7, <1>9
  <1> QED
    BY <1>2, <1>6, <1>9, <1>10, <1>12, <1>13, <1>14

\* T2: FINAL has the times of the second round, and the entry before it gets
\* the times of the first one that T2 brings.
LEMMA DsSecondDoes ==
    ASSUME DsTypeOK, NEW n \in Nodes, DsSecond(n) \/ DsSecondError(n)
    PROVE  /\ DsTypeOK' /\ Only(n) /\ ForMe(n, "T2")
           /\ UNCHANGED <<task, nreq, bad, answered>>
           /\ \E final, first \in DsFrameType :
                /\ final.code = "FINAL" /\ final.src = n
                /\ final.dst = Frame(n).src /\ final.ex = Frame(n).ex
                /\ final.request = LastTx(n)
                /\ final.response = <<"T2", Frame(n).ex>>
                /\ final.reception = Frame(n).reception
                /\ final.transmission = Frame(n).transmission
                /\ first.request = Frame(n).request
                /\ first.response = Frame(n).response
                /\ first.reception = rng[n].frames[rng[n].idx].reception
                /\ first.transmission = rng[n].frames[rng[n].idx].transmission
                /\ Took(n, PutBefore(n, final, first))
                /\ \/ /\ Sent(n, final) /\ rng'[n].complete_after_tx
                      /\ reported'[n].code = "none"
                   \/ /\ GaveUp(n) /\ reported'[n] = final
                      /\ rng'[n].complete_after_tx = rng[n].complete_after_tx
  <1> DEFINE i == rng[n].idx
             old == rng[n].frames[i]
  <1>1. /\ InRing(n) \in DsFrameType /\ Now(n) \in Stamps /\ LastTx(n) \in Stamps
        /\ Frame(n).src \in Nodes /\ i \in Slots /\ Next1(i) # i
        /\ old \in DsFrameType /\ rng[n] \in DsRngType
    BY DsTyped, DsFrameFields, DsRngParts, Next1Differs
  <1>2. ForMe(n, "T2") /\ Frame(n).code = "T2"
    BY DEF DsSecond, DsSecondError, ForMe
  <1>3. /\ InRing(n).ex = Frame(n).ex /\ InRing(n).reception = Frame(n).reception
        /\ InRing(n).transmission = Frame(n).transmission
        /\ InRing(n).request = Frame(n).request
        /\ InRing(n).response = Frame(n).response
    BY <1>2, DsTyped, DsRngParts, OverFields DEF InRing, DsCodes
  <1>4. PICK final \in DsFrameType :
          /\ final = DsFinalFrame(n) /\ final.code = "FINAL" /\ final.src = n
          /\ final.dst = Frame(n).src /\ final.ex = Frame(n).ex
          /\ final.request = LastTx(n) /\ final.response = Now(n)
          /\ final.reception = Frame(n).reception
          /\ final.transmission = Frame(n).transmission
    <2> DEFINE final == DsFinalFrame(n)
    <2>1. /\ final \in DsFrameType /\ final.code = "FINAL" /\ final.src = n
          /\ final.dst = Frame(n).src /\ final.ex = InRing(n).ex
          /\ final.request = LastTx(n) /\ final.response = Now(n)
          /\ final.reception = InRing(n).reception
          /\ final.transmission = InRing(n).transmission
      BY <1>1 DEF DsFinalFrame, DsFrameType, DsCodes
    <2> QED
      BY <1>3, <2>1
  <1>5. PICK first \in DsFrameType :
          /\ first = [old EXCEPT !.request = InRing(n).request,
                                 !.response = InRing(n).response]
          /\ first.request = Frame(n).request
          /\ first.response = Frame(n).response
          /\ first.reception = old.reception
          /\ first.transmission = old.transmission
    <2> DEFINE first == [old EXCEPT !.request = InRing(n).request,
                                    !.response = InRing(n).response]
    <2>1. InRing(n).request \in Stamps /\ InRing(n).response \in Stamps
      BY <1>1, DsFrameFields
    <2>2. /\ first \in DsFrameType /\ first.request = InRing(n).request
          /\ first.response = InRing(n).response
          /\ first.reception = old.reception
          /\ first.transmission = old.transmission
      BY <1>1, <2>1 DEF DsFrameType
    <2> QED
      BY <1>3, <2>2
  <1>6. PICK t \in DsRngType :
          /\ t = DsTaken(n) /\ t.sem = rng[n].sem
          /\ t.idx = Next1(rng[n].idx) /\ t.code = Frame(n).code
          /\ t.complete_after_tx = rng[n].complete_after_tx
          /\ t.frames = PutBefore(n, final, first)
    <2>1. PICK u \in DsRngType :
            /\ u = Taken(n, final) /\ u.sem = rng[n].sem /\ u.idx = Next1(i)
            /\ u.code = Frame(n).code
            /\ u.complete_after_tx = rng[n].complete_after_tx
            /\ u.frames = Put(n, final)
      BY DsTakenFacts DEF Put
    <2>2. u.frames[i] = old
      BY <1>1, <2>1, DsRngParts DEF Put
    <2> DEFINE t == [u EXCEPT !.frames[i] = first]
    <2>3. /\ t \in DsRngType /\ t.sem = u.sem /\ t.idx = u.idx
          /\ t.code = u.code /\ t.complete_after_tx = u.complete_after_tx
          /\ t.frames = [u.frames EXCEPT ![i] = first]
      BY <1>1, DsRngFrame
    <2>4. t.frames = PutBefore(n, final, first)
      BY <2>1, <2>3 DEF PutBefore
    <2>5. t = DsTaken(n)
      <3>1. DsTaken(n) = [u EXCEPT !.frames[i] =
                            [u.frames[i] EXCEPT !.request = InRing(n).request,
                                                !.response = InRing(n).response]]
        BY <1>1, <1>4, <2>1 DEF DsTaken, DsRngType
      <3> QED
        BY <1>5, <2>2, <3>1
    <2> QED
      BY <2>1, <2>3, <2>4, <2>5
  <1>7. Now(n) = <<"T2", Frame(n).ex>>
    BY <1>2 DEF Now
  <1> HIDE DEF i, old
  <1>10. /\ final.code = "FINAL" /\ final.src = n
         /\ final.dst = Frame(n).src /\ final.ex = Frame(n).ex
         /\ final.request = LastTx(n)
         /\ final.response = <<"T2", Frame(n).ex>>
         /\ final.reception = Frame(n).reception
         /\ final.transmission = Frame(n).transmission
         /\ first.request = Frame(n).request
         /\ first.response = Frame(n).response
         /\ first.reception = rng[n].frames[rng[n].idx].reception
         /\ first.transmission = rng[n].frames[rng[n].idx].transmission
    BY <1>4, <1>5, <1>7 DEF i, old
  <1>8. CASE DsSecond(n)
    <2> DEFINE r == [t EXCEPT !.complete_after_tx = TRUE]
    <2>1. /\ Becomes(n, r, Sending(n, final), DsBlank(n))
          /\ UNCHANGED <<task, nreq, bad, answered>>
      BY <1>4, <1>6, <1>8 DEF DsSecond, Becomes
    <2>2. /\ r \in DsRngType /\ r.sem = t.sem /\ r.idx = t.idx
          /\ r.code = t.code /\ r.complete_after_tx = TRUE
          /\ r.frames = t.frames
      BY DsRngFlag
    <2> HIDE DEF r
    <2>3. bad' \in BOOLEAN /\ answered' \subseteq Exchanges
      BY <2>1 DEF DsTypeOK
    <2>4. /\ DsTypeOK' /\ Only(n) /\ rng'[n] = r /\ reported'[n] = DsBlank(n)
          /\ Sent(n, final)
      BY <1>6, <2>1, <2>2, <2>3, DsBlankType, SendDoes
    <2>5. /\ Took(n, PutBefore(n, final, first)) /\ rng'[n].complete_after_tx
          /\ reported'[n].code = "none"
      BY <1>6, <2>2, <2>4, DsBlankType DEF Took
    <2> QED
      BY <1>2, <1>10, <2>1, <2>4, <2>5
  <1>9. CASE DsSecondError(n)
    <2> DEFINE r == [t EXCEPT !.sem = t.sem + 1]
    <2>1. /\ Becomes(n, r, Silent(n), final)
          /\ UNCHANGED <<task, nreq, answered>>
          /\ bad' = (bad \/ ~(final = final /\ final.code = "FINAL"))
      BY <1>4, <1>6, <1>9 DEF DsSecondError, DsComplete, Becomes
    <2>2. bad' = bad /\ bad' \in BOOLEAN /\ answered' \subseteq Exchanges
      BY <1>4, <2>1 DEF DsTypeOK
    <2>3. /\ r \in DsRngType /\ r.sem = t.sem + 1 /\ r.idx = t.idx
          /\ r.code = t.code /\ r.frames = t.frames
          /\ r.complete_after_tx = t.complete_after_tx
      BY <1>6, DsTyped, DsRngSem
    <2> HIDE DEF r
    <2>4. /\ DsTypeOK' /\ Only(n) /\ rng'[n] = r /\ reported'[n] = final
          /\ phy'[n].radio = "off" /\ AirSame(n)
      BY <2>1, <2>2, <2>3, OffDoes
    <2>5. /\ GaveUp(n) /\ Took(n, PutBefore(n, final, first))
          /\ rng'[n].complete_after_tx = rng[n].complete_after_tx
      BY <1>6, <2>3, <2>4 DEF GaveUp, Took
    <2> QED
      BY <1>2, <1>10, <2>1, <2>2, <2>4, <2>5
  <1> QED
    BY <1>8, <1>9

\* FINAL: what is reported is the frame received.
LEMMA DsFinalDoes ==
    ASSUME DsTypeOK, NEW n \in Nodes, DsFinal(n)
    PROVE  /\ DsTypeOK' /\ Only(n) /\ ForMe(n, "FINAL") /\ GaveUp(n)
           /\ UNCHANGED <<task, nreq, bad, answered>>
           /\ rng'[n].complete_after_tx = rng[n].complete_after_tx
           /\ reported'[n] = Frame(n) /\ Took(n, Put(n, Frame(n)))
  <1>1. ForMe(n, "FINAL") /\ Frame(n).code = "FINAL"
    BY DEF DsFinal, ForMe
  <1>2. InRing(n) = Frame(n) /\ Frame(n) \in DsFrameType
    BY <1>1, DsTyped, DsRngParts, OverFinal DEF InRing
  <1>3. PICK t \in DsRngType :
          /\ t = Taken(n, Frame(n)) /\ t.sem = rng[n].sem
          /\ t.idx = Next1(rng[n].idx) /\ t.code = Frame(n).code
          /\ t.complete_after_tx = rng[n].complete_after_tx
          /\ t.frames = Put(n, Frame(n))
    BY <1>2, DsTakenFacts DEF Put
  <1> DEFINE r == [t EXCEPT !.sem = t.sem + 1]
  <1>4. /\ Becomes(n, r, Silent(n), Frame(n))
        /\ UNCHANGED <<task, nreq, bad, answered>>
    BY <1>1, <1>2, <1>3 DEF DsFinal, DsComplete, Becomes, DsTypeOK
  <1>5. /\ r \in DsRngType /\ r.sem = t.sem + 1 /\ r.idx = t.idx
        /\ r.code = t.code /\ r.frames = t.frames
        /\ r.complete_after_tx = t.complete_after_tx
    BY <1>3, DsTyped, DsRngSem
  <1> HIDE DEF r
  <1>6. bad' \in BOOLEAN /\ answered' \subseteq Exchanges
    BY <1>4 DEF DsTypeOK
  <1>7. /\ DsTypeOK' /\ Only(n) /\ rng'[n] = r /\ reported'[n] = Frame(n)
        /\ phy'[n].radio = "off" /\ AirSame(n)
    BY <1>2, <1>4, <1>5, <1>6, OffDoes
  <1> QED
    BY <1>1, <1>3, <1>4, <1>5, <1>7 DEF GaveUp, Took

\* A short FINAL: of the frame received, the header.
LEMMA DsShortFinalDoes ==
    ASSUME DsTypeOK, NEW n \in Nodes, DsShortFinal(n)
    PROVE  /\ DsTypeOK' /\ Only(n) /\ ForMe(n, "FINAL") /\ AirSame(n)
           /\ UNCHANGED <<task, nreq, answered>>
           /\ \E f \in DsFrameType :
                /\ f.code = "FINAL" /\ f.src = Frame(n).src
                /\ f.dst = Frame(n).dst /\ f.ex = Frame(n).ex
                /\ reported'[n] = f /\ Took(n, Put(n, f))
  <1> DEFINE i == Next1(rng[n].idx)
             f == [rng[n].frames[i] EXCEPT
                     !.code = "FINAL", !.src = Frame(n).src,
                     !.dst = Frame(n).dst, !.ex = Frame(n).ex]
  <1>1. /\ rng[n].frames[i] \in DsFrameType /\ Frame(n).src \in Nodes
        /\ Frame(n).dst \in Nodes /\ Frame(n).ex \in Exchanges
    BY DsTyped, DsRngParts, DsFrameFields
  <1>2. /\ f \in DsFrameType /\ f.code = "FINAL" /\ f.src = Frame(n).src
        /\ f.dst = Frame(n).dst /\ f.ex = Frame(n).ex
    BY <1>1 DEF DsFrameType, DsCodes
  <1>3. /\ ForMe(n, "FINAL") /\ UNCHANGED <<task, nreq, answered>>
        /\ rng' = [rng EXCEPT ![n] = [Taken(n, f) EXCEPT !.sem = @ + 1]]
        /\ phy' = [phy EXCEPT ![n] = Silent(n)]
        /\ DsComplete(n, f, Frame(n))
    BY DEF DsShortFinal
  <1> HIDE DEF f, i
  <1>4. PICK t \in DsRngType :
          /\ t = Taken(n, f) /\ t.sem = rng[n].sem
          /\ t.idx = Next1(rng[n].idx) /\ t.code = Frame(n).code
          /\ t.frames = Put(n, f)
    BY <1>2, DsTakenFacts DEF Put
  <1> DEFINE r == [t EXCEPT !.sem = t.sem + 1]
  <1>5. Becomes(n, r, Silent(n), f) /\ bad' \in BOOLEAN
        /\ answered' \subseteq Exchanges
    BY <1>3, <1>4 DEF DsComplete, Becomes, DsTypeOK
  <1>6. /\ r \in DsRngType /\ r.sem = t.sem + 1 /\ r.idx = t.idx
        /\ r.code = t.code /\ r.frames = t.frames
    BY <1>4, DsTyped, DsRngSem
  <1> HIDE DEF r
  <1>7. /\ DsTypeOK' /\ Only(n) /\ rng'[n] = r /\ reported'[n] = f
        /\ AirSame(n)
    BY <1>2, <1>3, <1>5, <1>6, OffDoes
  <1>8. Took(n, Put(n, f))
    BY <1>4, <1>6, <1>7 DEF Took
  <1> QED
    BY <1>2, <1>3, <1>7, <1>8

\* twr_ds breaks off: the frame is in the ring.
LEMMA DsBrokenDoes ==
    ASSUME DsTypeOK, NEW n \in Nodes, DsBroken(n)
    PROVE  /\ DsTypeOK' /\ Only(n) /\ AirSame(n)
           /\ UNCHANGED <<task, nreq, bad, answered>>
           /\ reported'[n].code = "none"
           /\ \E f \in DsFrameType :
                f.code \in {"DS", "T1", "T2"} /\ Took(n, Put(n, f))
  <1> DEFINE f == InRing(n)
  <1>1. /\ Frame(n).code \in {"DS", "T1", "T2"}
        /\ UNCHANGED <<task, nreq, bad, answered>>
        /\ Becomes(n, Taken(n, f), Silent(n), DsBlank(n))
    BY DEF DsBroken, ForMe, Becomes
  <1>2. f \in DsFrameType /\ f.code \in {"DS", "T1", "T2"}
    BY <1>1, DsTyped, DsRngParts, OverFields DEF InRing, DsCodes
  <1> HIDE DEF f
  <1>3. PICK t \in DsRngType :
          /\ t = Taken(n, f) /\ t.idx = Next1(rng[n].idx)
          /\ t.code = Frame(n).code /\ t.frames = Put(n, f)
    BY <1>2, DsTakenFacts DEF Put
  <1>4. bad' \in BOOLEAN /\ answered' \subseteq Exchanges
        /\ DsBlank(n) \in DsFrameType /\ DsBlank(n).code = "none"
    BY <1>1, DsBlankType DEF DsTypeOK
  <1>5. /\ DsTypeOK' /\ Only(n) /\ rng'[n] = t /\ reported'[n] = DsBlank(n)
        /\ AirSame(n)
    BY <1>1, <1>3, <1>4, OffDoes
  <1>6. Took(n, Put(n, f))
    BY <1>3, <1>5 DEF Took
  <1> QED
    BY <1>1, <1>2, <1>4, <1>5, <1>6

\* A frame that does not fit: the ring is left alone and may be reported.
LEMMA DsMisfitDoes ==
    ASSUME DsTypeOK, NEW n \in Nodes, NEW c \in DsCodes \cup {rng[n].code},
           DsMisfit(n, c)
    PROVE  /\ DsTypeOK' /\ Only(n) /\ AirSame(n)
           /\ UNCHANGED <<task, nreq, answered>>
           /\ rng'[n].frames = rng[n].frames /\ rng'[n].idx = rng[n].idx
           /\ \/ reported'[n] = reported[n]
              \/ reported'[n] = rng[n].frames[rng[n].idx]
  <1>1. /\ rng[n] \in DsRngType /\ rng[n].sem + 1 \in Nat
        /\ c \in DsCodes \cup {"none"}
        /\ rng[n].frames[rng[n].idx] \in DsFrameType
        /\ reported[n] \in DsFrameType
    BY DsTyped, DsRngParts
  <1>2. /\ phy' = [phy EXCEPT ![n] = Silent(n)]
        /\ UNCHANGED <<task, nreq, answered>>
        /\ answered' \subseteq Exchanges
    BY DEF DsMisfit, DsTypeOK
  <1>3. PICK r \in DsRngType :
          /\ rng' = [rng EXCEPT ![n] = r] /\ r.idx = rng[n].idx
          /\ r.frames = rng[n].frames
    <2>1. CASE UNCHANGED rng
      BY <1>1, <2>1 DEF DsTypeOK
    <2>2. CASE rng' = [rng EXCEPT ![n].code = c]
      BY <1>1, <2>2, DsRngCode
    <2>3. CASE rng' = [rng EXCEPT ![n].code = c, ![n].sem = @ + 1]
      <3> DEFINE r == [rng[n] EXCEPT !.code = c, !.sem = rng[n].sem + 1]
      <3>1. /\ r \in DsRngType /\ r.idx = rng[n].idx
            /\ r.frames = rng[n].frames
        BY <1>1 DEF DsRngType
      <3>2. rng' = [rng EXCEPT ![n] = r]
        BY <2>3
      <3> QED
        BY <3>1, <3>2
    <2> QED
      BY <2>1, <2>2, <2>3 DEF DsMisfit
  <1>4. PICK g \in DsFrameType :
          /\ reported' = [reported EXCEPT ![n] = g] /\ bad' \in BOOLEAN
          /\ g = reported[n] \/ g = rng[n].frames[rng[n].idx]
    <2>1. CASE UNCHANGED <<reported, bad>>
      BY <1>1, <2>1 DEF DsTypeOK
    <2>2. CASE /\ reported' = [reported EXCEPT ![n] = rng[n].frames[rng[n].idx]]
               /\ bad' = TRUE
      BY <1>1, <2>2
    <2> QED
      BY <2>1, <2>2 DEF DsMisfit
  <1>5. Becomes(n, r, Silent(n), g)
    BY <1>2, <1>3, <1>4 DEF Becomes
  <1>6. /\ DsTypeOK' /\ Only(n) /\ rng'[n] = r /\ reported'[n] = g
        /\ AirSame(n)
    BY <1>2, <1>4, <1>5, OffDoes
  <1> QED
    BY <1>2, <1>3, <1>4, <1>6

-----------------------------------------------------------------------------
(* Type correctness *)

LEMMA DsTypeInit == DsInit => DsTypeOK
  <1> SUFFICES ASSUME DsInit PROVE DsTypeOK
    OBVIOUS
  <1>1. NFrames - 1 \in Slots /\ 0 \in Slots
    BY NFramesAssumption DEF Slots
  <1>2. ASSUME NEW n \in Nodes
        PROVE  /\ DsBlank(n) \in DsFrameType /\ NoEx(n) \in Exchanges
               /\ [i \in Slots |-> DsBlank(n)] \in [Slots -> DsFrameType]
    BY DsBlankType, StampsType
  <1>3. rng \in [Nodes -> DsRngType]
    BY <1>1, <1>2 DEF DsInit, DsRngType
  <1>4. phy \in [Nodes -> DsPhyType]
    BY <1>2 DEF DsInit, DsPhyType
  <1>5. task \in [Nodes -> TaskType]
    BY <1>1 DEF DsInit, TaskType, PCs
  <1>6. nreq \in [Nodes -> 0..MaxRequests]
    BY RequestsAssumption DEF DsInit
  <1>7. reported \in [Nodes -> DsFrameType]
    BY <1>2 DEF DsInit
  <1>8. bad \in BOOLEAN /\ answered \subseteq Exchanges
    BY DEF DsInit
  <1> QED
    BY <1>3, <1>4, <1>5, <1>6, <1>7, <1>8 DEF DsTypeOK

LEMMA DsTypeStep == DsTypeOK /\ [DsNext]_vars => DsTypeOK'
  <1> SUFFICES ASSUME DsTypeOK, [DsNext]_vars PROVE DsTypeOK'
    OBVIOUS
  <1>1. CASE UNCHANGED vars
    BY <1>1 DEF vars, DsTypeOK
  <1>2. CASE DsNext
    <2>1. PICK n \in Nodes : DsStep(n) \/ DsDisturbed(n)
      BY <1>2 DEF DsNext
    <2>2. CASE Request(n) \/ Listen(n) \/ DsTask(n)
      BY <2>2, RequestDoes, ListenDoes, PendDoes, CountDoes, ReleaseDoes,
         LsStartDoes, RqStartDoes DEF DsTask
    <2>3. CASE DsIrq(n) \/ RxTimeout(n) \/ Reset(n)
      BY <2>3, TxEndDoes, OtherDoes, OtherAddressDoes, DsRequestDoes,
         DsResponseDoes, DsSecondDoes, DsFinalDoes DEF DsIrq
    <2>4. CASE DsDisturbed(n)
      BY <2>4, DsShortFinalDoes, DsBrokenDoes, DsMisfitDoes, OtherDoes
         DEF DsDisturbed
    <2> QED
      BY <2>1, <2>2, <2>3, <2>4 DEF DsStep
  <1> QED
    BY <1>1, <1>2

\* The structures of uwb_rng and of twr_ds keep their types: idx stays in the
\* ring and the semaphore is not taken below zero, whatever disturbs a node.
THEOREM DsTypeCorrect == DsSpec => []DsTypeOK
  BY DsTypeInit, DsTypeStep, PTL DEF DsSpec

-----------------------------------------------------------------------------
(* The two ends agree *)

Last(n) == rng[n].frames[rng[n].idx]

LEMMA RingEntries ==
    ASSUME DsTypeOK, NEW n \in Nodes, NEW f \in DsFrameType,
           NEW g \in DsFrameType
    PROVE  /\ Put(n, f)[Next1(rng[n].idx)] = f
           /\ Put(n, f)[rng[n].idx] = Last(n)
           /\ PutAfter(n, f, g)[Next1(rng[n].idx)] = f
           /\ PutBefore(n, f, g)[Next1(rng[n].idx)] = f
           /\ PutBefore(n, f, g)[rng[n].idx] = g
  <1>1. /\ rng[n].frames \in [Slots -> DsFrameType] /\ rng[n].idx \in Slots
        /\ Next1(rng[n].idx) \in Slots /\ Next1(rng[n].idx) # rng[n].idx
        /\ Next1(Next1(rng[n].idx)) # Next1(rng[n].idx)
    BY DsTyped, DsRngParts, Next1Differs
  <1> QED
    BY <1>1 DEF Put, PutAfter, PutBefore, Last

\* The entry at the new idx.
LEMMA TookLast ==
    ASSUME DsTypeOK, NEW n \in Nodes, NEW f \in DsFrameType,
           NEW g \in DsFrameType,
           Took(n, Put(n, f)) \/ Took(n, PutAfter(n, f, g))
             \/ Took(n, PutBefore(n, f, g))
    PROVE  Last(n)' = f
  BY RingEntries DEF Took, Last

\* T2 and FINAL are sent once the initiator has used T1.
DsGenuine(f) == f.code \in {"T2", "FINAL"} => f.ex \in answered
DsOwn(n, f) ==
    f.code = "FINAL" => f.ex \in answered /\ n \in {f.src, f.dst}
DsAgreeNode(n) ==
    DsGenuine(phy[n].buf) /\ DsOwn(n, Last(n)) /\ DsOwn(n, reported[n])
DsAgreeInv == \A n \in Nodes : DsAgreeNode(n)

LEMMA DsAgreeAlone ==
    ASSUME NEW n \in Nodes, Only(n), answered \subseteq answered',
           NEW m \in Nodes, m # n, DsAgreeNode(m)
    PROVE  DsAgreeNode(m)'
  BY DEF Only, DsAgreeNode, DsGenuine, DsOwn, Last

\* The ring and the transceiver keep what matters.
LEMMA DsAgreeSame ==
    ASSUME NEW n \in Nodes, DsAgreeNode(n), phy'[n].buf = phy[n].buf,
           Last(n)' = Last(n), UNCHANGED answered,
           \/ reported'[n] = reported[n] \/ reported'[n] = Last(n)
           \/ reported'[n].code = "none"
    PROVE  DsAgreeNode(n)'
  BY DEF DsAgreeNode, DsGenuine, DsOwn

LEMMA DsAgreeTask ==
    ASSUME DsTypeOK, DsAgreeInv, NEW n \in Nodes,
           Request(n) \/ Listen(n) \/ DsTask(n)
    PROVE  DsAgreeInv'
  <1> USE DEF DsAgreeInv
  <1>1. CASE \E d \in Nodes \ {n} : DsRqStart(n, d) \/ DsRqStartError(n, d)
    <2>1. PICK d \in Nodes \ {n} : DsRqStart(n, d) \/ DsRqStartError(n, d)
      BY <1>1
    <2>2. /\ Only(n) /\ UNCHANGED <<reported, answered>>
          /\ rng'[n].idx = rng[n].idx
      BY <2>1, RqStartDoes
    <2>3. PICK f \in DsFrameType :
            /\ f.code = "DS"
            /\ rng'[n].frames = PutRequest(n, f)
            /\ phy'[n].buf = f \/ phy'[n] = phy[n]
      BY <2>1, RqStartDoes
    <2>4. Last(n)' = f \/ Last(n)' = Last(n)
      BY <2>2, <2>3, DsTyped, DsRngParts DEF Last, PutRequest
    <2>5. DsAgreeNode(n)'
      BY <2>2, <2>3, <2>4 DEF DsAgreeNode, DsGenuine, DsOwn
    <2> QED
      BY <2>2, <2>5, DsAgreeAlone
  <1>2. CASE \/ Request(n) \/ Listen(n) \/ RqPend(n) \/ RqWait(n)
             \/ RqCount(n) \/ RqRelease(n) \/ LsPend(n) \/ LsWait(n)
             \/ LsRelease(n) \/ (\E b \in BOOLEAN : LsStart(n, b))
    <2>1. Only(n) /\ RingSame(n) /\ AirSame(n) /\ UNCHANGED <<reported, answered>>
      BY <1>2, RequestDoes, ListenDoes, PendDoes, CountDoes, ReleaseDoes,
         LsStartDoes
    <2>2. DsAgreeNode(n)'
      BY <2>1, DsAgreeSame DEF RingSame, AirSame, Last
    <2> QED
      BY <2>1, <2>2, DsAgreeAlone
  <1> QED
    BY <1>1, <1>2 DEF DsTask

LEMMA DsAgreeTxEnd ==
    ASSUME DsTypeOK, DsAgreeInv, NEW n \in Nodes, NEW R \in SUBSET Nodes,
           DsTxEnd(n, R)
    PROVE  DsAgreeInv'
  <1>1. /\ UNCHANGED answered
        /\ \A m \in Nodes :
             /\ phy'[m].buf = phy[m].buf \/ phy'[m].buf = phy[n].buf
             /\ Last(m)' = Last(m)
             /\ reported'[m] = reported[m] \/ reported'[m] = Last(m)
    BY TxEndDoes DEF Last
  <1> QED
    BY <1>1 DEF DsAgreeInv, DsAgreeNode, DsGenuine, DsOwn

LEMMA DsAgreeRx ==
    ASSUME DsTypeOK, DsAgreeInv, NEW n \in Nodes,
           \/ DsRequest(n) \/ DsResponse(n) \/ DsSecond(n)
           \/ DsSecondError(n) \/ DsFinal(n) \/ DsShortFinal(n) \/ DsBroken(n)
    PROVE  DsAgreeInv'
  <1> SUFFICES Only(n) /\ answered \subseteq answered' /\ DsAgreeNode(n)'
    BY DsAgreeAlone DEF DsAgreeInv
  <1>0. DsGenuine(phy[n].buf) /\ DsOwn(n, reported[n])
    BY DEF DsAgreeInv, DsAgreeNode
  <1>1. CASE DsRequest(n)
    <2>1. PICK t1 \in DsFrameType :
            /\ t1.code = "T1" /\ Took(n, Put(n, t1))
            /\ phy'[n].buf = t1 \/ phy'[n].buf = phy[n].buf
            /\ Only(n) /\ UNCHANGED answered /\ reported'[n].code = "none"
      BY <1>1, DsRequestDoes DEF Sent, GaveUp, AirSame
    <2> QED
      BY <1>0, <2>1, TookLast DEF DsAgreeNode, DsGenuine, DsOwn
  <1>2. CASE DsResponse(n)
    <2>1. PICK t1, t2 \in DsFrameType :
            /\ t1.code = "T1" /\ Took(n, PutAfter(n, t1, t2))
            /\ t2.ex = Frame(n).ex
            /\ phy'[n].buf = t2 \/ phy'[n].buf = phy[n].buf
            /\ Only(n) /\ answered' = answered \cup {Frame(n).ex}
            /\ reported'[n].code = "none"
      BY <1>2, DsResponseDoes DEF Sent, GaveUp, AirSame
    <2> QED
      BY <1>0, <2>1, TookLast DEF DsAgreeNode, DsGenuine, DsOwn, Frame
  <1>3. CASE DsSecond(n) \/ DsSecondError(n)
    <2>1. PICK final, first \in DsFrameType :
            /\ final.code = "FINAL" /\ Took(n, PutBefore(n, final, first))
            /\ final.src = n /\ final.ex = Frame(n).ex /\ ForMe(n, "T2")
            /\ phy'[n].buf = final \/ phy'[n].buf = phy[n].buf
            /\ Only(n) /\ UNCHANGED answered
            /\ reported'[n].code = "none" \/ reported'[n] = final
      BY <1>3, DsSecondDoes DEF Sent, GaveUp, AirSame
    <2>2. final.ex \in answered
      BY <1>0, <2>1 DEF ForMe, Frame, DsGenuine
    <2> QED
      BY <1>0, <2>1, <2>2, TookLast DEF DsAgreeNode, DsGenuine, DsOwn
  <1>4. CASE DsFinal(n) \/ DsShortFinal(n)
    <2>1. PICK f \in DsFrameType :
            /\ Took(n, Put(n, f)) /\ f.dst = n /\ f.ex = Frame(n).ex
            /\ ForMe(n, "FINAL") /\ phy'[n].buf = phy[n].buf
            /\ Only(n) /\ UNCHANGED answered /\ reported'[n] = f
      BY <1>4, DsFinalDoes, DsShortFinalDoes, DsTyped
         DEF GaveUp, AirSame, ForMe
    <2>2. f.ex \in answered
      BY <1>0, <2>1 DEF ForMe, Frame, DsGenuine
    <2> QED
      BY <1>0, <2>1, <2>2, TookLast DEF DsAgreeNode, DsGenuine, DsOwn
  <1>5. CASE DsBroken(n)
    <2>1. PICK f \in DsFrameType :
            /\ f.code \in {"DS", "T1", "T2"} /\ Took(n, Put(n, f))
            /\ phy'[n].buf = phy[n].buf
            /\ Only(n) /\ UNCHANGED answered /\ reported'[n].code = "none"
      BY <1>5, DsBrokenDoes DEF AirSame
    <2> QED
      BY <1>0, <2>1, TookLast DEF DsAgreeNode, DsGenuine, DsOwn
  <1> QED
    BY <1>1, <1>2, <1>3, <1>4, <1>5

LEMMA DsAgreeOther ==
    ASSUME DsTypeOK, DsAgreeInv, NEW n \in Nodes,
           \/ RxUnsolicited(n) \/ RxAck(n) \/ RxForeign(n) \/ RxTimeout(n)
           \/ Reset(n) \/ SuperframeReset(n) \/ DsOtherAddress(n)
           \/ (\E c \in DsCodes \cup {rng[n].code} : DsMisfit(n, c))
    PROVE  DsAgreeInv'
  <1>1. /\ Only(n) /\ UNCHANGED answered /\ phy'[n].buf = phy[n].buf
        /\ reported'[n] = reported[n] \/ reported'[n] = Last(n)
        /\ rng'[n].idx = rng[n].idx
        /\ \/ rng'[n].frames = rng[n].frames
           \/ rng'[n].frames =
                [rng[n].frames EXCEPT ![Next1(rng[n].idx)] = InRing(n)]
    BY OtherDoes, OtherAddressDoes, DsMisfitDoes DEF RingSame, AirSame, Last
  <1>2. Last(n)' = Last(n)
    BY <1>1, DsTyped, DsRngParts, Next1Differs DEF Last
  <1>3. DsAgreeNode(n)'
    BY <1>1, <1>2, DsAgreeSame DEF DsAgreeInv
  <1> QED
    BY <1>1, <1>3, DsAgreeAlone DEF DsAgreeInv

LEMMA DsAgreeInit == DsInit => DsAgreeInv
  <1> SUFFICES ASSUME DsInit, NEW n \in Nodes PROVE DsAgreeNode(n)
    BY DEF DsAgreeInv
  <1>1. NFrames - 1 \in Slots
    BY NFramesAssumption DEF Slots
  <1>2. /\ phy[n].buf = DsBlank(n) /\ Last(n) = DsBlank(n)
        /\ reported[n] = DsBlank(n)
    BY <1>1 DEF DsInit, Last
  <1> QED
    BY <1>2, DsBlankType DEF DsAgreeNode, DsGenuine, DsOwn

LEMMA DsAgreeStep == DsTypeOK /\ DsAgreeInv /\ [DsNext]_vars => DsAgreeInv'
  <1> SUFFICES ASSUME DsTypeOK, DsAgreeInv, [DsNext]_vars PROVE DsAgreeInv'
    OBVIOUS
  <1>1. CASE UNCHANGED vars
    BY <1>1 DEF vars, DsAgreeInv, DsAgreeNode, DsGenuine, DsOwn, Last
  <1>2. CASE DsNext
    BY <1>2, DsAgreeTask, DsAgreeTxEnd, DsAgreeRx, DsAgreeOther
       DEF DsNext, DsStep, DsIrq, DsDisturbed
  <1> QED
    BY <1>1, <1>2

LEMMA DsAgreeEnds == DsAgreeInv => EndsAgree
  BY DEF DsAgreeInv, DsAgreeNode, DsOwn, EndsAgree

\* A double-sided range is reported at an end of its exchange and only if the
\* initiator used T1, whatever disturbs a node: a wrong length, a foreign
\* frame, a reset, or a short FINAL whose times are not those of the exchange.
THEOREM DsEndsAgree == DsSpec => []EndsAgree
  BY DsTypeInit, DsTypeStep, DsAgreeInit, DsAgreeStep, DsAgreeEnds, PTL
     DEF DsSpec

-----------------------------------------------------------------------------
(* One token: without resets, superframes and malformed frames             *)

\* TokenOK at n, and what an exchange that is complete after the next
\* transmission finds then: FINAL is on the air and at idx.
DsNodeInv(n) ==
    /\ \/ rng[n].sem = 1 /\ phy[n].radio = "off" /\ task[n].pc \notin Holding
       \/ rng[n].sem = 0 /\ phy[n].radio = "off" /\ task[n].pc \in Holding
       \/ rng[n].sem = 0 /\ phy[n].radio # "off" /\ task[n].pc \notin Holding
    /\ rng[n].complete_after_tx
         => phy[n].radio = "tx" /\ phy[n].buf.code = "FINAL"
    /\ phy[n].radio = "tx" /\ phy[n].buf.code = "FINAL"
         => /\ rng[n].complete_after_tx /\ rng[n].code \in DsCodes
            /\ phy[n].ranging /\ Last(n) = phy[n].buf
DsCalmInv == (\A n \in Nodes : DsNodeInv(n)) /\ ~bad

LEMMA DsNodeAlone ==
    ASSUME NEW n \in Nodes, Only(n), NEW m \in Nodes, m # n, DsNodeInv(m)
    PROVE  DsNodeInv(m)'
  BY DEF Only, DsNodeInv, Last

LEMMA DsCalmInit == DsInit => DsCalmInv
  <1> SUFFICES ASSUME DsInit, NEW n \in Nodes PROVE DsNodeInv(n)
    BY DEF DsCalmInv, DsInit
  <1>1. /\ rng[n].sem = 1 /\ ~rng[n].complete_after_tx
        /\ phy[n].radio = "off" /\ task[n].pc = "idle"
    BY DEF DsInit
  <1> QED
    BY <1>1 DEF DsNodeInv, Holding

LEMMA DsCalmTask ==
    ASSUME DsTypeOK, DsCalmInv, NEW n \in Nodes,
           Request(n) \/ Listen(n) \/ DsTask(n)
    PROVE  DsCalmInv'
  <1> USE DEF Holding
  <1>0. DsNodeInv(n) /\ rng[n].sem \in Nat
    BY DsTyped, DsRngParts DEF DsCalmInv
  <1> SUFFICES Only(n) /\ bad' = bad /\ DsNodeInv(n)'
    BY DsNodeAlone DEF DsCalmInv
  <1>1. CASE Request(n) \/ Listen(n)
    BY <1>0, <1>1, RequestDoes, ListenDoes DEF DsNodeInv, Last
  <1>2. CASE RqPend(n) \/ RqWait(n) \/ LsPend(n) \/ LsWait(n)
    <2>1. /\ Only(n) /\ RingSame(n) /\ phy' = phy /\ bad' = bad
          /\ rng[n].sem > 0 /\ rng'[n].sem = rng[n].sem - 1
          /\ task[n].pc \notin Holding /\ task'[n].pc \in Holding
      BY <1>2, PendDoes
    <2> QED
      BY <1>0, <2>1 DEF DsNodeInv, RingSame
  <1>3. CASE RqCount(n)
    BY <1>0, <1>3, CountDoes DEF DsNodeInv, Last
  <1>4. CASE RqRelease(n) \/ LsRelease(n)
    <2>1. /\ Only(n) /\ RingSame(n) /\ phy' = phy /\ bad' = bad
          /\ rng'[n].sem = rng[n].sem + 1
          /\ task[n].pc \in Holding /\ task'[n].pc \notin Holding
      BY <1>4, ReleaseDoes
    <2> QED
      BY <1>0, <2>1 DEF DsNodeInv, RingSame
  <1>5. CASE \E b \in BOOLEAN : LsStart(n, b)
    <2>1. /\ Only(n) /\ RingSame(n) /\ bad' = bad
          /\ task[n].pc \in Holding /\ task'[n].pc \notin Holding
          /\ \/ phy'[n].radio = "rx" /\ rng'[n].sem = rng[n].sem
             \/ phy' = phy /\ rng'[n].sem = rng[n].sem + 1
      BY <1>5, LsStartDoes
    <2> QED
      BY <1>0, <2>1 DEF DsNodeInv, RingSame
  <1>6. CASE \E d \in Nodes \ {n} : DsRqStart(n, d) \/ DsRqStartError(n, d)
    <2>1. PICK d \in Nodes \ {n} : DsRqStart(n, d) \/ DsRqStartError(n, d)
      BY <1>6
    <2>2. /\ Only(n) /\ bad' = bad
          /\ rng'[n].complete_after_tx = rng[n].complete_after_tx
          /\ task[n].pc \in Holding /\ task'[n].pc \notin Holding
          /\ \/ /\ rng'[n].sem = rng[n].sem /\ phy'[n].radio = "tx"
                /\ phy'[n].buf.code = "DS"
             \/ rng'[n].sem = rng[n].sem + 1 /\ phy'[n] = phy[n]
      BY <2>1, RqStartDoes
    <2> QED
      BY <1>0, <2>2 DEF DsNodeInv
  <1> QED
    BY <1>1, <1>2, <1>3, <1>4, <1>5, <1>6 DEF DsTask

\* FINAL is out: it is what is reported.
LEMMA DsCalmTxEnd ==
    ASSUME DsTypeOK, DsCalmInv, NEW n \in Nodes, NEW R \in SUBSET Nodes,
           DsTxEnd(n, R)
    PROVE  DsCalmInv'
  <1>1. /\ \A m \in Nodes : DsNodeInv(m)
        /\ ~bad /\ phy[n].radio = "tx" /\ task' = task
    BY TxEndDoes DEF DsCalmInv
  <1>2. ~bad' /\ DsNodeInv(n)'
    <2>1. CASE phy[n].buf.code = "FINAL"
      <3>1. DsCompletesAfterTx(n)
        BY <1>1, <2>1 DEF DsNodeInv, DsCompletesAfterTx
      <3>2. /\ rng'[n].sem = rng[n].sem + 1 /\ ~rng'[n].complete_after_tx
            /\ phy'[n].radio = "off"
            /\ bad' = (bad \/ ~(Last(n) = phy[n].buf /\ Last(n).code = "FINAL"))
        BY <2>1, <3>1, TxEndDoes DEF Last
      <3>3. rng[n].sem = 0 /\ task[n].pc \notin Holding /\ Last(n) = phy[n].buf
        BY <1>1, <2>1 DEF DsNodeInv
      <3>4. ~bad'
        BY <1>1, <2>1, <3>2, <3>3
      <3>5. DsNodeInv(n)'
        BY <1>1, <3>2, <3>3 DEF DsNodeInv
      <3> QED
        BY <3>4, <3>5
    <2>2. CASE phy[n].buf.code # "FINAL"
      <3>1. ~DsCompletesAfterTx(n)
        BY <1>1, <2>2 DEF DsNodeInv, DsCompletesAfterTx
      <3>2. rng' = rng /\ bad' = bad /\ phy'[n].radio = "rx"
        BY <2>2, <3>1, TxEndDoes
      <3> QED
        BY <1>1, <2>2, <3>2 DEF DsNodeInv
    <2> QED
      BY <2>1, <2>2
  <1>3. ASSUME NEW m \in Nodes, m # n PROVE DsNodeInv(m)'
    <2>1. rng'[m] = rng[m] /\ DsNodeInv(m)
      BY <1>1, <1>3, TxEndDoes
    <2>2. CASE m \in R
      <3>1. phy[m].radio = "rx" /\ phy'[m].radio = "got"
        BY <2>2, TxEndDoes DEF DsHears
      <3> QED
        BY <1>1, <2>1, <3>1 DEF DsNodeInv
    <2>3. CASE m \notin R
      <3>1. phy'[m] = phy[m]
        BY <1>3, <2>3, TxEndDoes
      <3> QED
        BY <1>1, <2>1, <3>1 DEF DsNodeInv, Last
    <2> QED
      BY <2>2, <2>3
  <1> QED
    BY <1>2, <1>3 DEF DsCalmInv

\* A node that leaves an exchange, or answers.
LEMMA DsCalmAnswer ==
    ASSUME DsTypeOK, NEW n \in Nodes, DsNodeInv(n), phy[n].radio \in {"rx", "got"},
           task' = task,
           \/ /\ phy'[n].radio = "off" /\ rng'[n].sem = 1
              /\ rng'[n].complete_after_tx = rng[n].complete_after_tx
           \/ /\ phy'[n].radio = "tx" /\ rng'[n].sem = rng[n].sem
              /\ phy'[n].buf.code # "FINAL"
              /\ rng'[n].complete_after_tx = rng[n].complete_after_tx
           \/ /\ phy'[n].radio = "tx" /\ rng'[n].sem = rng[n].sem
              /\ phy'[n].buf.code = "FINAL" /\ rng'[n].complete_after_tx
              /\ rng'[n].code \in DsCodes /\ phy'[n].ranging
              /\ Last(n)' = phy'[n].buf
    PROVE  DsNodeInv(n)'
  BY DEF DsNodeInv

LEMMA DsCalmRx ==
    ASSUME DsTypeOK, DsCalmInv, NEW n \in Nodes,
           \/ DsOtherAddress(n) \/ DsRequest(n) \/ DsResponse(n)
           \/ DsSecond(n) \/ DsSecondError(n) \/ DsFinal(n)
    PROVE  DsCalmInv'
  <1> SUFFICES Only(n) /\ bad' = bad /\ DsNodeInv(n)'
    BY DsNodeAlone DEF DsCalmInv
  <1>0. DsNodeInv(n)
    BY DEF DsCalmInv
  <1>1. CASE DsOtherAddress(n)
    <2>1. /\ Only(n) /\ bad' = bad /\ task' = task /\ phy[n].radio = "got"
          /\ phy'[n].radio = "off" /\ rng'[n].sem = Raised(n)
          /\ rng'[n].complete_after_tx = rng[n].complete_after_tx
      BY <1>1, OtherAddressDoes DEF Received
    <2>2. Raised(n) = 1
      BY <1>0, <2>1 DEF DsNodeInv, Raised
    <2> QED
      BY <1>0, <2>1, <2>2, DsCalmAnswer
  <1>2. CASE DsRequest(n) \/ DsResponse(n)
    <2>1. /\ Only(n) /\ bad' = bad /\ task' = task /\ phy[n].radio = "got"
          /\ rng'[n].complete_after_tx = rng[n].complete_after_tx
      BY <1>2, DsRequestDoes, DsResponseDoes DEF ForMe, Received
    <2>2. \/ /\ phy'[n].radio = "off" /\ rng'[n].sem = rng[n].sem + 1
          \/ /\ phy'[n].radio = "tx" /\ rng'[n].sem = rng[n].sem
             /\ phy'[n].buf.code # "FINAL"
      <3>1. CASE DsRequest(n)
        <4>1. PICK f \in DsFrameType : f.code = "T1" /\ (Sent(n, f) \/ GaveUp(n))
          BY <3>1, DsRequestDoes
        <4> QED
          BY <4>1 DEF Sent, GaveUp
      <3>2. CASE DsResponse(n)
        <4>1. PICK f \in DsFrameType : f.code = "T2" /\ (Sent(n, f) \/ GaveUp(n))
          BY <3>2, DsResponseDoes
        <4> QED
          BY <4>1 DEF Sent, GaveUp
      <3> QED
        BY <1>2, <3>1, <3>2
    <2>3. rng[n].sem = 0
      BY <1>0, <2>1 DEF DsNodeInv
    <2> QED
      BY <1>0, <2>1, <2>2, <2>3, DsCalmAnswer
  <1>3. CASE DsSecond(n) \/ DsSecondError(n)
    <2>1. PICK final, first \in DsFrameType :
            /\ Only(n) /\ bad' = bad /\ task' = task /\ ForMe(n, "T2")
            /\ final.code = "FINAL" /\ Took(n, PutBefore(n, final, first))
            /\ \/ Sent(n, final) /\ rng'[n].complete_after_tx
               \/ /\ GaveUp(n)
                  /\ rng'[n].complete_after_tx = rng[n].complete_after_tx
      BY <1>3, DsSecondDoes
    <2>2. /\ Last(n)' = final /\ rng'[n].code \in DsCodes
          /\ phy[n].radio = "got" /\ rng[n].sem = 0
      BY <1>0, <2>1, TookLast DEF Took, ForMe, Received, DsCodes, DsNodeInv
    <2> QED
      BY <1>0, <2>1, <2>2, DsCalmAnswer DEF Sent, GaveUp
  <1>4. CASE DsFinal(n)
    <2>1. /\ Only(n) /\ bad' = bad /\ task' = task /\ ForMe(n, "FINAL")
          /\ GaveUp(n)
          /\ rng'[n].complete_after_tx = rng[n].complete_after_tx
      BY <1>4, DsFinalDoes
    <2>2. phy[n].radio = "got" /\ rng[n].sem = 0
      BY <1>0, <2>1 DEF ForMe, Received, DsNodeInv
    <2> QED
      BY <1>0, <2>1, <2>2, DsCalmAnswer DEF GaveUp
  <1> QED
    BY <1>1, <1>2, <1>3, <1>4

\* The other steps that Calm leaves: a foreign frame and a time-out find a
\* receiver that is on, and nothing is unsolicited.
LEMMA DsCalmSteps ==
    ASSUME Calm, NEW n \in Nodes
    PROVE  /\ ~DsShortFinal(n) /\ ~DsBroken(n) /\ ~RxAck(n) /\ ~Reset(n)
           /\ ~SuperframeReset(n)
           /\ \A c \in DsCodes \cup {rng[n].code} : ~DsMisfit(n, c)
  BY DEF Calm, DsShortFinal, DsBroken, RxAck, Reset, SuperframeReset, DsMisfit

LEMMA DsCalmOther ==
    ASSUME DsTypeOK, DsCalmInv, NEW n \in Nodes,
           RxUnsolicited(n) \/ RxForeign(n) \/ RxTimeout(n)
    PROVE  /\ DsCalmInv' /\ Only(n) /\ RingSame(n) /\ AirSame(n)
           /\ UNCHANGED <<task, nreq, reported, bad, answered>>
           /\ phy[n].radio = "rx" /\ phy'[n].radio = "off"
  <1>0. DsNodeInv(n)
    BY DEF DsCalmInv
  <1>1. ~RxUnsolicited(n)
    BY <1>0 DEF RxUnsolicited, Received, Solicited, DsNodeInv
  <1>2. phy[n].radio = "rx" /\ phy'[n].radio = "off" /\ rng'[n].sem = Raised(n)
    <2>1. /\ phy[n].radio = "rx" /\ phy'[n].radio = "off"
          /\ rng' = [rng EXCEPT ![n].sem = Raised(n)]
      BY <1>1, DsTyped DEF RxForeign, RxTimeout, DsTypeOK, DsPhyType
    <2> QED
      BY <2>1 DEF DsTypeOK, DsRngType
  <1>3. /\ Only(n) /\ RingSame(n) /\ AirSame(n)
        /\ UNCHANGED <<task, nreq, reported, bad, answered>>
    BY OtherDoes
  <1>4. Raised(n) = 1
    BY <1>0, <1>2 DEF DsNodeInv, Raised
  <1>5. DsNodeInv(n)'
    BY <1>0, <1>2, <1>3, <1>4, DsCalmAnswer DEF RingSame
  <1> QED
    BY <1>2, <1>3, <1>5, DsNodeAlone DEF DsCalmInv

LEMMA DsCalmStep ==
    ASSUME Calm PROVE DsTypeOK /\ DsCalmInv /\ [DsNext]_vars => DsCalmInv'
  <1> SUFFICES ASSUME DsTypeOK, DsCalmInv, [DsNext]_vars PROVE DsCalmInv'
    OBVIOUS
  <1>1. CASE UNCHANGED vars
    BY <1>1 DEF vars, DsCalmInv, DsNodeInv, Last
  <1>2. CASE DsNext
    <2>1. PICK n \in Nodes : DsStep(n) \/ DsDisturbed(n)
      BY <1>2 DEF DsNext
    <2> QED
      BY <2>1, DsCalmSteps, DsCalmTask, DsCalmTxEnd, DsCalmRx, DsCalmOther
         DEF DsStep, DsIrq, DsDisturbed
  <1> QED
    BY <1>1, <1>2

LEMMA DsCalmSafety == ASSUME Calm PROVE DsSpec => []DsCalmInv
  BY DsTypeInit, DsTypeStep, DsCalmInit, DsCalmStep, PTL DEF DsSpec

\* uwb_rng's semaphore is the token of a double-sided exchange: free, held by
\* the task with the transceiver off, or with the transceiver.
THEOREM DsOneToken == ASSUME Calm PROVE DsSpec => []TokenOK
  <1>1. DsCalmInv => TokenOK
    BY DEF DsCalmInv, DsNodeInv, TokenOK
  <1> QED
    BY <1>1, DsCalmSafety, PTL

\* What rng_issue_complete reports is the FINAL just sent or received.
THEOREM DsRangeCurrent == ASSUME Calm PROVE DsSpec => []RangeCurrent
  <1>1. DsCalmInv => RangeCurrent
    BY DEF DsCalmInv, RangeCurrent
  <1> QED
    BY <1>1, DsCalmSafety, PTL

-----------------------------------------------------------------------------
(* The result in the ring: with blocking calls only                        *)

\* The transceiver is on only while the task waits for it, so that nothing is
\* received between the choice of the frame for a request and its start.
DsKeptNode(n) ==
    /\ phy[n].radio # "off" => task[n].pc \in {"rq_wait", "ls_wait"}
    /\ task[n].pc \in {"rq_pend", "rq_start"}
         => task[n].slot = Next1(rng[n].idx)
    /\ reported[n].code = "FINAL" => Last(n) = reported[n]
DsKeptInv == \A n \in Nodes : DsKeptNode(n)

LEMMA DsKeptAlone ==
    ASSUME NEW n \in Nodes, Only(n), NEW m \in Nodes, m # n, DsKeptNode(m)
    PROVE  DsKeptNode(m)'
  BY DEF Only, DsKeptNode, Last

LEMMA DsKeptInit == DsInit => DsKeptInv
  <1> SUFFICES ASSUME DsInit, NEW n \in Nodes PROVE DsKeptNode(n)
    BY DEF DsKeptInv
  <1>1. /\ reported[n] = DsBlank(n) /\ phy[n].radio = "off"
        /\ task[n].pc = "idle"
    BY DEF DsInit
  <1> QED
    BY <1>1, DsBlankType DEF DsKeptNode

\* A request is written over the entry after the last one.
LEMMA DsRequestPlace ==
    ASSUME DsTypeOK, DsKeptInv, NEW n \in Nodes, NEW d \in Nodes \ {n},
           DsRqStart(n, d) \/ DsRqStartError(n, d)
    PROVE  task[n].slot = Next1(rng[n].idx) /\ Last(n)' = Last(n)
  <1>1. task[n].slot = Next1(rng[n].idx) /\ rng'[n].idx = rng[n].idx
    BY RqStartDoes DEF DsKeptInv, DsKeptNode
  <1>2. PICK f \in DsFrameType : rng'[n].frames = PutRequest(n, f)
    BY RqStartDoes
  <1> QED
    BY <1>1, <1>2, DsTyped, DsRngParts, Next1Differs DEF Last, PutRequest

LEMMA DsKeptTask ==
    ASSUME Quiet, DsTypeOK, DsCalmInv, DsKeptInv, NEW n \in Nodes,
           Request(n) \/ Listen(n) \/ DsTask(n)
    PROVE  DsKeptInv' /\ Last(n)' = Last(n)
  <1>0. /\ DsKeptNode(n) /\ DsNodeInv(n)
        /\ rng[n].sem \in Nat
    BY DsTyped, DsRngParts DEF DsCalmInv, DsKeptInv
  <1> SUFFICES Only(n) /\ DsKeptNode(n)' /\ Last(n)' = Last(n)
    BY DsKeptAlone DEF DsKeptInv
  <1>1. CASE Request(n) \/ Listen(n)
    <2>1. /\ Only(n) /\ rng' = rng /\ phy' = phy /\ reported' = reported
          /\ task[n].pc = "idle"
          /\ \/ task'[n].pc = "ls_pend"
             \/ task'[n].pc = "rq_pend" /\ task'[n].slot = Next1(rng[n].idx)
      BY <1>1, RequestDoes, ListenDoes
    <2> QED
      BY <1>0, <2>1 DEF DsKeptNode, Last
  <1>2. CASE RqPend(n) \/ RqWait(n) \/ LsPend(n) \/ LsWait(n)
    <2>1. /\ Only(n) /\ RingSame(n) /\ phy' = phy /\ reported' = reported
          /\ rng[n].sem > 0 /\ task'[n].pc \in Holding
          /\ task'[n].slot = task[n].slot
          /\ task'[n].pc = "rq_start" => task[n].pc = "rq_pend"
      BY <1>2, PendDoes
    <2>2. phy[n].radio = "off"
      BY <1>0, <2>1 DEF DsNodeInv
    <2> QED
      BY <1>0, <2>1, <2>2 DEF DsKeptNode, RingSame, Last, Holding
  <1>3. CASE RqCount(n) \/ RqRelease(n) \/ LsRelease(n)
    <2>1. /\ Only(n) /\ RingSame(n) /\ phy' = phy /\ reported' = reported
          /\ task[n].pc \in {"rq_rel", "rq_seen", "ls_rel"}
          /\ task'[n].pc \in {"rq_seen", "idle"}
      BY <1>3, CountDoes, ReleaseDoes
    <2> QED
      BY <1>0, <2>1 DEF DsKeptNode, RingSame, Last
  <1>4. CASE \E b \in BOOLEAN : LsStart(n, b)
    <2>1. /\ Only(n) /\ RingSame(n) /\ reported' = reported
          /\ task'[n].pc = "ls_wait"
      BY <1>4, LsStartDoes DEF Quiet
    <2> QED
      BY <1>0, <2>1 DEF DsKeptNode, RingSame, Last
  <1>5. CASE \E d \in Nodes \ {n} : DsRqStart(n, d) \/ DsRqStartError(n, d)
    <2>1. PICK d \in Nodes \ {n} : DsRqStart(n, d) \/ DsRqStartError(n, d)
      BY <1>5
    <2>2. /\ Only(n) /\ reported' = reported /\ task'[n].pc = "rq_wait"
          /\ Last(n)' = Last(n)
      BY <2>1, RqStartDoes, DsRequestPlace
    <2> QED
      BY <1>0, <2>2 DEF DsKeptNode
  <1> QED
    BY <1>1, <1>2, <1>3, <1>4, <1>5 DEF DsTask

LEMMA DsKeptTxEnd ==
    ASSUME DsTypeOK, DsKeptInv, NEW n \in Nodes, NEW R \in SUBSET Nodes,
           DsTxEnd(n, R)
    PROVE  DsKeptInv'
  <1> SUFFICES ASSUME NEW m \in Nodes PROVE DsKeptNode(m)'
    BY DEF DsKeptInv
  <1>1. DsKeptNode(m) /\ phy[n].radio = "tx" /\ task' = task
    BY TxEndDoes DEF DsKeptInv
  <1>2. rng'[m].idx = rng[m].idx /\ Last(m)' = Last(m)
    BY TxEndDoes DEF Last
  <1>3. reported'[m] = reported[m] \/ reported'[m] = Last(m)
    BY TxEndDoes DEF Last
  <1>4. phy'[m].radio # "off" => phy[m].radio # "off"
    <2>1. m \in R => phy[m].radio = "rx"
      BY TxEndDoes DEF DsHears
    <2>2. m # n /\ m \notin R => phy'[m] = phy[m]
      BY TxEndDoes
    <2> QED
      BY <1>1, <2>1, <2>2
  <1> QED
    BY <1>1, <1>2, <1>3, <1>4 DEF DsKeptNode

LEMMA DsKeptRx ==
    ASSUME DsTypeOK, DsKeptInv, NEW n \in Nodes,
           \/ DsOtherAddress(n) \/ DsRequest(n) \/ DsResponse(n)
           \/ DsSecond(n) \/ DsSecondError(n) \/ DsFinal(n)
    PROVE  DsKeptInv'
  <1>0. DsKeptNode(n)
    BY DEF DsKeptInv
  <1>1. Only(n) /\ task' = task /\ phy[n].radio = "got"
    BY OtherAddressDoes, DsRequestDoes, DsResponseDoes, DsSecondDoes,
       DsFinalDoes DEF ForMe, Received
  <1>2. reported'[n].code = "FINAL" => Last(n)' = reported'[n]
    <2>1. CASE DsOtherAddress(n)
      <3>1. /\ reported' = reported /\ rng'[n].idx = rng[n].idx
            /\ rng'[n].frames =
                 [rng[n].frames EXCEPT ![Next1(rng[n].idx)] = InRing(n)]
        BY <2>1, OtherAddressDoes
      <3>2. Last(n)' = Last(n)
        BY <3>1, DsTyped, DsRngParts, Next1Differs DEF Last
      <3> QED
        BY <1>0, <3>1, <3>2 DEF DsKeptNode
    <2>2. CASE DsRequest(n) \/ DsResponse(n)
      BY <2>2, DsRequestDoes, DsResponseDoes
    <2>3. CASE DsSecond(n) \/ DsSecondError(n)
      BY <2>3, DsSecondDoes, TookLast
    <2>4. CASE DsFinal(n)
      BY <2>4, DsFinalDoes, DsTyped, TookLast
    <2> QED
      BY <2>1, <2>2, <2>3, <2>4
  <1>3. DsKeptNode(n)'
    BY <1>0, <1>1, <1>2 DEF DsKeptNode
  <1> QED
    BY <1>1, <1>3, DsKeptAlone DEF DsKeptInv

LEMMA DsKeptOther ==
    ASSUME DsTypeOK, DsCalmInv, DsKeptInv, NEW n \in Nodes,
           RxUnsolicited(n) \/ RxForeign(n) \/ RxTimeout(n)
    PROVE  DsKeptInv'
  <1>1. /\ Only(n) /\ RingSame(n) /\ UNCHANGED <<task, reported>>
        /\ phy'[n].radio = "off"
    BY DsCalmOther
  <1>2. DsKeptNode(n)'
    BY <1>1 DEF DsKeptInv, DsKeptNode, RingSame, Last
  <1> QED
    BY <1>1, <1>2, DsKeptAlone DEF DsKeptInv

LEMMA DsKeptStep ==
    ASSUME Quiet
    PROVE  DsTypeOK /\ DsCalmInv /\ DsKeptInv /\ [DsNext]_vars => DsKeptInv'
  <1> SUFFICES ASSUME DsTypeOK, DsCalmInv, DsKeptInv, [DsNext]_vars
               PROVE  DsKeptInv'
    OBVIOUS
  <1>1. CASE UNCHANGED vars
    BY <1>1 DEF vars, DsKeptInv, DsKeptNode, Last
  <1>2. CASE DsNext
    <2>0. Calm
      BY DEF Quiet
    <2>1. PICK n \in Nodes : DsStep(n) \/ DsDisturbed(n)
      BY <1>2 DEF DsNext
    <2> QED
      BY <2>0, <2>1, DsCalmSteps, DsKeptTask, DsKeptTxEnd, DsKeptRx,
         DsKeptOther DEF DsStep, DsIrq, DsDisturbed
  <1> QED
    BY <1>1, <1>2

LEMMA DsKeptSafety ==
    ASSUME Quiet PROVE DsSpec => [](DsTypeOK /\ DsCalmInv /\ DsKeptInv)
  <1>1. Calm
    BY DEF Quiet
  <1>2. DsInit => DsTypeOK /\ DsCalmInv /\ DsKeptInv
    BY DsTypeInit, DsCalmInit, DsKeptInit
  <1>3. /\ DsTypeOK /\ DsCalmInv /\ DsKeptInv /\ [DsNext]_vars
        => (DsTypeOK /\ DsCalmInv /\ DsKeptInv)'
    BY <1>1, DsTypeStep, DsCalmStep, DsKeptStep
  <1> QED
    BY <1>2, <1>3, PTL DEF DsSpec

\* A double-sided result stays at idx of the ring until the next frame comes.
THEOREM DsResultKept == ASSUME Quiet PROVE DsSpec => []ResultKept
  <1>1. DsKeptInv => ResultKept
    BY DEF DsKeptInv, DsKeptNode, Last, ResultKept
  <1> QED
    BY <1>1, DsKeptSafety, PTL

-----------------------------------------------------------------------------
(* Who is in which exchange                                                *)
(*                                                                         *)
(* At most one frame of an exchange is on its way: it is being sent, or    *)
(* it has reached the node it is for.  The two ends of that exchange then  *)
(* know what they sent last, and that is where the times come from.        *)

\* What a frame answers.
AnswerTo(c) == IF c = "T1" THEN "DS" ELSE IF c = "T2" THEN "T1" ELSE "T2"

\* The times that a frame of an exchange carries are of that exchange.
Arrived(f, e) == f.reception = <<"DS", e>> /\ f.transmission = <<"T1", e>>
Content(f) ==
    /\ f.code = "T1" => Arrived(f, f.ex)
    /\ f.code = "T2" =>
         /\ f.request = <<"DS", f.ex>> /\ f.response = <<"T1", f.ex>>
         /\ f.reception = <<"T1", f.ex>> /\ f.transmission = <<"T2", f.ex>>
    /\ f.code = "FINAL" => Round(f, f.ex, "T1", "T2")

\* An exchange is not used before its request is started.
Requesting == {"rq_pend", "rq_start"}
Dated(e) ==
    /\ e[2] <= nreq[e[1]]
    /\ task[e[1]].pc \in Requesting => e[2] < nreq[e[1]]

Live(n) == phy[n].radio = "tx" \/ (phy[n].radio = "got" /\ phy[n].buf.dst = n)
SentLast(m, e, c) == phy[m].txtime = e => phy[m].txcode = c
AirNode(n) ==
    LET f == phy[n].buf IN
    /\ Content(f) /\ Dated(f.ex)
    /\ Live(n) => f.src # f.dst
    /\ phy[n].radio = "tx" => f.src = n
    /\ phy[n].radio = "tx" /\ f.code # "DS"
         => SentLast(f.dst, f.ex, AnswerTo(f.code))
    /\ phy[n].radio = "got" /\ f.dst = n =>
         /\ SentLast(f.src, f.ex, f.code)
         /\ f.code # "DS" => /\ phy[n].txtime = f.ex
                             /\ phy[n].txcode = AnswerTo(f.code)
Unique ==
    \A n, m \in Nodes :
        Live(n) /\ Live(m) /\ n # m => phy[n].buf.ex # phy[m].buf.ex
AirInv == Unique /\ \A n \in Nodes : AirNode(n)

\* Requests are only made.
Moves(n) ==
    /\ \A m \in Nodes : m # n => nreq'[m] = nreq[m] /\ task'[m] = task[m]
    /\ \/ /\ nreq'[n] = nreq[n]
          /\ task'[n].pc \in Requesting => task[n].pc \in Requesting
       \/ nreq'[n] = nreq[n] + 1

LEMMA DatedKept ==
    ASSUME DsTypeOK, NEW n \in Nodes, Moves(n), NEW e \in Exchanges, Dated(e)
    PROVE  Dated(e)'
  <1>1. /\ e[1] \in Nodes /\ e[2] \in Nat /\ nreq[e[1]] \in Nat
        /\ nreq[n] \in Nat
    BY RequestsAssumption DEF Exchanges, DsTypeOK
  <1>2. CASE e[1] = n
    BY <1>1, <1>2 DEF Moves, Dated
  <1>3. CASE e[1] # n
    BY <1>1, <1>3 DEF Moves, Dated
  <1> QED
    BY <1>2, <1>3

LEMMA BufParts ==
    ASSUME DsTypeOK, NEW m \in Nodes
    PROVE  /\ phy[m].buf \in DsFrameType /\ phy[m].buf.ex \in Exchanges
           /\ phy[m].buf.src \in Nodes /\ phy[m].buf.dst \in Nodes
           /\ phy[m].buf.code \in DsCodes \cup {"none"}
           /\ phy[m].radio \in {"off", "tx", "rx", "got"}
  BY DsTyped, DsPhyParts, DsFrameFields DEF Frame

LEMMA AirInit == DsInit => AirInv
  <1> SUFFICES ASSUME DsInit, NEW n \in Nodes PROVE ~Live(n) /\ AirNode(n)
    BY DEF AirInv, Unique
  <1>1. /\ phy[n].radio = "off" /\ phy[n].buf = DsBlank(n)
        /\ nreq[n] = 0 /\ task[n].pc = "idle"
    BY DEF DsInit
  <1>2. phy[n].buf.code = "none" /\ phy[n].buf.ex = <<n, 0>>
    BY <1>1 DEF DsBlank, NoEx
  <1> QED
    BY <1>1, <1>2 DEF Live, AirNode, Content, Dated, Requesting

\* A step in which the air does not change, but that a node may turn off its
\* transceiver or turn on its receiver.
LEMMA AirQuiet ==
    ASSUME DsTypeOK, AirInv, NEW n \in Nodes, Moves(n), AirSame(n),
           \A m \in Nodes : m # n => phy'[m] = phy[m],
           phy'[n].radio \in {"off", "rx", phy[n].radio}
    PROVE  AirInv'
  <1>1. ASSUME NEW m \in Nodes
        PROVE  /\ phy'[m].buf = phy[m].buf /\ phy'[m].txtime = phy[m].txtime
               /\ phy'[m].txcode = phy[m].txcode
               /\ phy'[m].radio \in {"off", "rx", phy[m].radio}
    BY DEF AirSame, TxSame
  <1>2. ASSUME NEW m \in Nodes PROVE Live(m)' => Live(m)
    BY <1>1 DEF Live
  <1>3. Unique'
    BY <1>1, <1>2 DEF AirInv, Unique
  <1>4. ASSUME NEW m \in Nodes PROVE AirNode(m)'
    <2> DEFINE f == phy[m].buf
    <2>1. AirNode(m) /\ f.ex \in Exchanges /\ f.src \in Nodes /\ f.dst \in Nodes
      BY BufParts DEF AirInv
    <2>2. Dated(f.ex)'
      BY <1>1, <2>1, DatedKept DEF AirNode
    <2>3. /\ SentLast(f.dst, f.ex, AnswerTo(f.code))
               => SentLast(f.dst, f.ex, AnswerTo(f.code))'
          /\ SentLast(f.src, f.ex, f.code) => SentLast(f.src, f.ex, f.code)'
      BY <1>1, <2>1 DEF SentLast
    <2>4. phy'[m].radio = phy[m].radio \/ phy'[m].radio \in {"off", "rx"}
      BY <1>1
    <2> QED
      BY <1>1, <2>1, <2>2, <2>3, <2>4 DEF AirNode, Live
  <1> QED
    BY <1>3, <1>4 DEF AirInv

\* The node a frame has reached sends the answer: the exchange goes on.
LEMMA AirSend ==
    ASSUME DsTypeOK, AirInv, NEW n \in Nodes, NEW f \in DsFrameType,
           Only(n), UNCHANGED <<task, nreq>>, Received(n), Frame(n).dst = n,
           f.src = n, f.dst = Frame(n).src, f.ex = Frame(n).ex,
           f.code \in {"T1", "T2", "FINAL"}, AnswerTo(f.code) = Frame(n).code,
           Content(f), Sent(n, f)
    PROVE  AirInv'
  <1>0. /\ AirNode(n) /\ Live(n) /\ f.dst \in Nodes /\ f.dst # n
        /\ f.ex \in Exchanges
    BY BufParts DEF AirInv, AirNode, Live, Received, Frame
  <1>1. ASSUME NEW m \in Nodes
        PROVE  /\ phy'[m].txtime = phy[m].txtime
               /\ phy'[m].txcode = phy[m].txcode
               /\ phy'[m].buf.ex = phy[m].buf.ex
    BY DEF Only, Sent, TxSame, Frame
  <1>2. ASSUME NEW m \in Nodes, m # n
        PROVE  phy'[m] = phy[m]
    BY <1>2 DEF Only
  <1>3. ASSUME NEW m \in Nodes PROVE Live(m)' => Live(m)
    BY <1>0, <1>2 DEF Live
  <1>4. Unique'
    BY <1>1, <1>3 DEF AirInv, Unique
  <1>5. AirNode(n)'
    <2>1. phy'[n].buf = f /\ phy'[n].radio = "tx"
      BY DEF Sent
    <2>2. Dated(f.ex)'
      BY <1>0 DEF AirNode, Dated, Frame
    <2>3. SentLast(f.dst, f.ex, AnswerTo(f.code))'
      BY <1>0, <1>1 DEF AirNode, SentLast, Received, Frame
    <2> QED
      BY <1>0, <2>1, <2>2, <2>3 DEF AirNode, Live, Content
  <1>6. ASSUME NEW m \in Nodes, m # n PROVE AirNode(m)'
    <2>1. PICK g \in DsFrameType :
            /\ g = phy[m].buf /\ AirNode(m) /\ g.ex \in Exchanges
            /\ g.src \in Nodes /\ g.dst \in Nodes /\ phy'[m] = phy[m]
      BY <1>2, <1>6, BufParts DEF AirInv
    <2>2. Dated(g.ex)'
      BY <2>1 DEF AirNode, Dated
    <2>3. /\ SentLast(g.dst, g.ex, AnswerTo(g.code))
               => SentLast(g.dst, g.ex, AnswerTo(g.code))'
          /\ SentLast(g.src, g.ex, g.code) => SentLast(g.src, g.ex, g.code)'
      BY <1>1, <2>1 DEF SentLast
    <2> QED
      BY <1>2, <1>6, <2>1, <2>2, <2>3 DEF AirNode, Live
  <1> QED
    BY <1>4, <1>5, <1>6 DEF AirInv

\* A request starts an exchange that no frame was ever in.
LEMMA AirStart ==
    ASSUME DsTypeOK, AirInv, NEW n \in Nodes, NEW f \in DsFrameType,
           Only(n), nreq' = nreq, task[n].pc = "rq_start",
           task'[n].pc = "rq_wait", f.code = "DS", f.src = n, f.dst # n,
           f.ex = <<n, nreq[n]>>, TxSame(n), phy'[n].radio = "tx",
           phy'[n].buf = f
    PROVE  AirInv'
  <1>1. ASSUME NEW m \in Nodes, m # n
        PROVE  /\ phy'[m] = phy[m] /\ phy[m].buf.ex # f.ex
    <2>1. /\ phy'[m] = phy[m] /\ Dated(phy[m].buf.ex) /\ nreq[n] \in Nat
      BY <1>1 DEF Only, AirInv, AirNode, DsTypeOK
    <2> QED
      BY <2>1 DEF Dated, Requesting
  <1>2. ASSUME NEW m \in Nodes, m # n PROVE Live(m)' <=> Live(m)
    BY <1>1, <1>2 DEF Live
  <1>3. Unique'
    BY <1>1, <1>2 DEF AirInv, Unique
  <1>4. AirNode(n)'
    <2>1. Dated(f.ex)'
      BY DEF Dated, Requesting, DsTypeOK
    <2> QED
      BY <2>1 DEF AirNode, Content, Live
  <1>5. ASSUME NEW m \in Nodes, m # n PROVE AirNode(m)'
    <2>1. PICK g \in DsFrameType :
            /\ g = phy[m].buf /\ AirNode(m) /\ g.ex \in Exchanges
            /\ g.src \in Nodes /\ g.dst \in Nodes /\ phy'[m] = phy[m]
      BY <1>1, <1>5, BufParts DEF AirInv
    <2>2. Moves(n)
      BY DEF Moves, Only, Requesting
    <2>3. Dated(g.ex)'
      BY <2>1, <2>2, DatedKept DEF AirNode
    <2>4. \A k \in Nodes : /\ phy'[k].txtime = phy[k].txtime
                           /\ phy'[k].txcode = phy[k].txcode
      BY DEF Only, TxSame
    <2>5. /\ SentLast(g.dst, g.ex, AnswerTo(g.code))
               => SentLast(g.dst, g.ex, AnswerTo(g.code))'
          /\ SentLast(g.src, g.ex, g.code) => SentLast(g.src, g.ex, g.code)'
      BY <2>1, <2>4 DEF SentLast
    <2> QED
      BY <1>1, <1>5, <2>1, <2>3, <2>5 DEF AirNode, Live
  <1> QED
    BY <1>3, <1>4, <1>5 DEF AirInv

\* A frame is out: it reaches the node it is for, if that one hears it, and
\* its sender has sent it last.
LEMMA AirTxEnd ==
    ASSUME DsTypeOK, AirInv, NEW n \in Nodes, NEW R \in SUBSET Nodes,
           DsTxEnd(n, R)
    PROVE  AirInv'
  <1>0. PICK f \in DsFrameType :
          /\ f = phy[n].buf /\ AirNode(n) /\ Live(n) /\ phy[n].radio = "tx"
          /\ n \notin R /\ UNCHANGED <<task, nreq>> /\ f.src = n
          /\ f.ex \in Exchanges /\ f.dst \in Nodes /\ f.dst # n
    BY TxEndDoes, BufParts DEF AirInv, AirNode, Live
  <1>1. /\ phy'[n].radio \in {"off", "rx"} /\ phy'[n].buf = f
        /\ phy'[n].txtime = f.ex /\ phy'[n].txcode = f.code
    BY <1>0, TxEndDoes
  <1>2. ASSUME NEW m \in R
        PROVE  /\ DsHears(m, f) /\ phy'[m].radio = "got" /\ phy'[m].buf = f
               /\ phy'[m].txtime = phy[m].txtime
               /\ phy'[m].txcode = phy[m].txcode
    BY <1>0, TxEndDoes
  <1>3. ASSUME NEW m \in Nodes, m # n, m \notin R PROVE phy'[m] = phy[m]
    BY <1>3, TxEndDoes
  <1>4. ASSUME NEW m \in Nodes, Live(m)'
        PROVE  /\ m # n
               /\ m \in R => f.dst = m /\ phy'[m].buf = f
               /\ m \notin R => Live(m) /\ phy'[m].buf = phy[m].buf
    BY <1>1, <1>2, <1>3, <1>4 DEF Live
  <1>5. ASSUME NEW m \in Nodes, m # n, Live(m) PROVE phy[m].buf.ex # f.ex
    BY <1>0, <1>5 DEF AirInv, Unique
  <1>6. Unique'
    <2> SUFFICES ASSUME NEW k \in Nodes, NEW m \in Nodes, Live(k)', Live(m)',
                        k # m
                 PROVE  phy'[k].buf.ex # phy'[m].buf.ex
      BY DEF Unique
    <2>1. CASE k \in R
      BY <1>4, <1>5, <2>1
    <2>2. CASE m \in R
      BY <1>4, <1>5, <2>2
    <2>3. CASE k \notin R /\ m \notin R
      BY <1>4, <2>3 DEF AirInv, Unique
    <2> QED
      BY <2>1, <2>2, <2>3
  <1>7. \A e : Dated(e)' <=> Dated(e)
    BY <1>0 DEF Dated
  <1>8. AirNode(n)'
    BY <1>0, <1>1, <1>7 DEF AirNode, Live
  <1>9. ASSUME NEW m \in R PROVE AirNode(m)'
    <2>0. m # n /\ phy'[n].txcode = f.code
      BY <1>0, <1>1
    <2>1. Content(f) /\ Dated(f.ex)'
      BY <1>0, <1>7 DEF AirNode
    <2>2. SentLast(f.src, f.ex, f.code)'
      BY <1>0, <1>1 DEF SentLast
    <2>3. ASSUME f.dst = m, f.code # "DS"
          PROVE  phy'[m].txtime = f.ex /\ phy'[m].txcode = AnswerTo(f.code)
      BY <1>0, <1>2, <2>3 DEF AirNode, SentLast, DsHears
    <2>4. /\ phy'[m].radio = "got" /\ phy'[m].buf = f
      BY <1>2
    <2>5. f.src # f.dst
      BY <1>0
    <2> QED
      BY <2>1, <2>2, <2>3, <2>4, <2>5 DEF AirNode, Live
  <1>10. ASSUME NEW m \in Nodes, m # n, m \notin R PROVE AirNode(m)'
    <2>1. PICK g \in DsFrameType :
            /\ g = phy[m].buf /\ AirNode(m) /\ g.src \in Nodes
            /\ g.dst \in Nodes /\ phy'[m] = phy[m]
      BY <1>3, <1>10, BufParts DEF AirInv
    <2>2. ASSUME NEW k \in Nodes, NEW c, Live(m), SentLast(k, g.ex, c)
          PROVE  SentLast(k, g.ex, c)'
      <3>1. CASE k = n
        BY <1>1, <1>5, <1>10, <2>1, <2>2, <3>1 DEF SentLast
      <3>2. CASE k # n
        BY <1>2, <1>3, <2>1, <2>2, <3>2 DEF SentLast
      <3> QED
        BY <3>1, <3>2
    <2>3. Dated(g.ex)'
      BY <1>7, <2>1 DEF AirNode
    <2> QED
      BY <2>1, <2>2, <2>3 DEF AirNode, Live
  <1> QED
    BY <1>6, <1>8, <1>9, <1>10 DEF AirInv

-----------------------------------------------------------------------------
(* Two frames of the ring make one range                                   *)

Prev1(i) == (i + NFrames - 1) % NFrames
First(n) == rng[n].frames[Prev1(rng[n].idx)]

\* In a ring of three the entries before, at and after idx are three entries.
LEMMA Neighbours ==
    ASSUME NFrames >= 3, NEW i \in Slots
    PROVE  /\ Prev1(i) \in Slots /\ Prev1(Next1(i)) = i
           /\ Next1(i) # Prev1(i)
  <1>1. i \in Nat /\ i < NFrames /\ NFrames \in Nat
    BY NFramesAssumption DEF Slots
  <1>2. Prev1(i) = IF i = 0 THEN NFrames - 1 ELSE i - 1
    <2>1. CASE i = 0
      BY <1>1, <2>1 DEF Prev1
    <2>2. CASE i # 0
      <3>1. i - 1 \in 0..(NFrames - 1)
        BY <1>1, <2>2
      <3>2. ((i - 1) + NFrames) % NFrames = i - 1
        BY <1>1, <3>1
      <3> QED
        BY <1>1, <2>2, <3>2 DEF Prev1
    <2> QED
      BY <2>1, <2>2
  <1>3. Next1(i) = IF i + 1 = NFrames THEN 0 ELSE i + 1
    <2>1. CASE i + 1 = NFrames
      BY <1>1, <2>1 DEF Next1
    <2>2. CASE i + 1 < NFrames
      BY <1>1, <2>2 DEF Next1
    <2> QED
      BY <1>1, <2>1, <2>2
  <1>4. Prev1(i) \in Slots /\ Next1(i) # Prev1(i)
    BY <1>1, <1>2, <1>3 DEF Slots
  <1>5. Prev1(Next1(i)) = i
    <2>1. CASE i + 1 = NFrames
      <3>1. Next1(i) = 0 /\ (0 + NFrames - 1) % NFrames = NFrames - 1
        BY <1>1, <1>3, <2>1
      <3> QED
        BY <1>1, <2>1, <3>1 DEF Prev1
    <2>2. CASE i + 1 < NFrames
      <3>1. Next1(i) = i + 1 /\ (i + NFrames) % NFrames = i
        BY <1>1, <1>3, <2>2
      <3> QED
        BY <1>1, <2>2, <3>1 DEF Prev1
    <2> QED
      BY <1>1, <2>1, <2>2
  <1> QED
    BY <1>4, <1>5

\* What the entries hold of the exchange a node is in: the responder the times
\* of the first round trip from the request to the answer, the initiator those
\* of its own request, until the second round trip is complete.  An answer is
\* heard in the window of the last transmission only, and since that began
\* nothing was received.
RingNode(n) ==
    LET f == phy[n].buf IN
    /\ phy[n].radio = "got" => ~phy[n].window
    /\ phy[n].window /\ phy[n].txcode = "T1" => Arrived(Last(n), phy[n].txtime)
    /\ phy[n].window /\ phy[n].txcode = "T2"
         => Round(Last(n), phy[n].txtime, "DS", "T1")
    /\ phy[n].radio = "tx" /\ f.code = "T1" => Arrived(Last(n), f.ex)
    /\ phy[n].radio = "tx" /\ f.code = "T2" => Round(Last(n), f.ex, "DS", "T1")
    /\ phy[n].radio = "tx" /\ f.code = "FINAL"
         => Round(First(n), f.ex, "DS", "T1")
    /\ phy[n].radio = "got" /\ f.dst = n /\ f.code = "T2"
         => Arrived(Last(n), f.ex)
    /\ phy[n].radio = "got" /\ f.dst = n /\ f.code = "FINAL"
         => Round(Last(n), f.ex, "DS", "T1")
PairNode(n) ==
    reported[n].code = "FINAL" =>
        /\ Round(First(n), reported[n].ex, "DS", "T1")
        /\ Round(Last(n), reported[n].ex, "T1", "T2")
PairInv == \A n \in Nodes : RingNode(n) /\ PairNode(n)

LEMMA PairAlone ==
    ASSUME NEW n \in Nodes, Only(n), NEW m \in Nodes, m # n,
           RingNode(m), PairNode(m)
    PROVE  RingNode(m)' /\ PairNode(m)'
  <1>1. /\ rng'[m] = rng[m] /\ phy'[m] = phy[m] /\ reported'[m] = reported[m]
    BY DEF Only
  <1>2. Last(m)' = Last(m) /\ First(m)' = First(m)
    BY <1>1 DEF Last, First
  <1> QED
    BY <1>1, <1>2 DEF RingNode, PairNode, Arrived, Round

\* The two entries and the result stay; the transceiver at most leaves what
\* it was doing.
LEMMA PairSame ==
    ASSUME NEW n \in Nodes, RingNode(n), PairNode(n), Last(n)' = Last(n),
           First(n)' = First(n), AirSame(n), reported'[n] = reported[n],
           phy'[n].radio \in {"off", "rx", phy[n].radio}
    PROVE  RingNode(n)' /\ PairNode(n)'
  BY DEF RingNode, PairNode, Arrived, Round, AirSame, TxSame

LEMMA PairInit == DsInit => PairInv
  <1> SUFFICES ASSUME DsInit, NEW n \in Nodes PROVE RingNode(n) /\ PairNode(n)
    BY DEF PairInv
  <1>1. /\ phy[n].radio = "off" /\ ~phy[n].window
        /\ reported[n] = DsBlank(n)
    BY DEF DsInit
  <1> QED
    BY <1>1, DsBlankType DEF RingNode, PairNode

LEMMA TookFirst ==
    ASSUME NFrames >= 3, DsTypeOK, NEW n \in Nodes, NEW f \in DsFrameType,
           NEW g \in DsFrameType
    PROVE  /\ Took(n, Put(n, f)) => First(n)' = Last(n)
           /\ Took(n, PutBefore(n, f, g)) => First(n)' = g
  BY DsTyped, DsRngParts, Neighbours, RingEntries DEF Took, First

LEMMA PairTask ==
    ASSUME Quiet, NFrames >= 3, DsTypeOK, DsCalmInv, DsKeptInv, AirInv, PairInv,
           NEW n \in Nodes, Request(n) \/ Listen(n) \/ DsTask(n)
    PROVE  AirInv' /\ PairInv'
  <1>0. RingNode(n) /\ PairNode(n) /\ DsNodeInv(n)
    BY DEF PairInv, DsCalmInv
  <1>1. CASE \/ Request(n) \/ Listen(n) \/ RqPend(n) \/ RqWait(n)
             \/ RqCount(n) \/ RqRelease(n) \/ LsPend(n) \/ LsWait(n)
             \/ LsRelease(n) \/ (\E b \in BOOLEAN : LsStart(n, b))
    <2>1. /\ Only(n) /\ RingSame(n) /\ AirSame(n) /\ reported' = reported
          /\ phy'[n].radio \in {"rx", phy[n].radio}
      BY <1>1, RequestDoes, ListenDoes, PendDoes, CountDoes, ReleaseDoes,
         LsStartDoes
    <2>2. Moves(n)
      <3>1. CASE Request(n)
        BY <2>1, <3>1, RequestDoes DEF Only, Moves
      <3>2. CASE RqPend(n) \/ RqWait(n) \/ LsPend(n) \/ LsWait(n)
        <4>1. /\ nreq' = nreq /\ task'[n].pc \in Holding
              /\ task'[n].pc = "rq_start" => task[n].pc = "rq_pend"
          BY <3>2, PendDoes
        <4> QED
          BY <2>1, <4>1 DEF Only, Moves, Requesting, Holding
      <3>3. CASE \/ Listen(n) \/ RqCount(n) \/ RqRelease(n) \/ LsRelease(n)
                 \/ (\E b \in BOOLEAN : LsStart(n, b))
        <4>1. nreq' = nreq /\ task'[n].pc \notin Requesting
          BY <3>3, ListenDoes, CountDoes, ReleaseDoes, LsStartDoes
             DEF Requesting
        <4> QED
          BY <2>1, <4>1 DEF Only, Moves
      <3> QED
        BY <1>1, <3>1, <3>2, <3>3
    <2>3. AirInv'
      BY <2>1, <2>2, AirQuiet DEF Only
    <2>4. RingNode(n)' /\ PairNode(n)'
      BY <1>0, <2>1, PairSame DEF RingSame, Last, First
    <2> QED
      BY <2>1, <2>3, <2>4, PairAlone DEF PairInv
  <1>2. CASE \E d \in Nodes \ {n} : DsRqStart(n, d) \/ DsRqStartError(n, d)
    <2>1. PICK d \in Nodes \ {n} : DsRqStart(n, d) \/ DsRqStartError(n, d)
      BY <1>2
    <2>2. /\ Only(n) /\ UNCHANGED <<nreq, reported>> /\ Last(n)' = Last(n)
          /\ task[n].pc = "rq_start" /\ task'[n].pc = "rq_wait"
          /\ rng'[n].idx = rng[n].idx
      BY <2>1, RqStartDoes, DsRequestPlace
    <2>3. PICK f \in DsFrameType :
            /\ f.code = "DS" /\ f.src = n /\ f.dst = d
            /\ f.ex = <<n, nreq[n]>>
            /\ rng'[n].frames = PutRequest(n, f)
            /\ \/ /\ phy'[n].radio = "tx" /\ phy'[n].buf = f
                  /\ phy'[n].txtime = phy[n].txtime
                  /\ phy'[n].txcode = phy[n].txcode
                  /\ phy'[n].window = phy[n].window
               \/ phy'[n] = phy[n]
      BY <2>1, RqStartDoes
    <2>4. task[n].slot = Next1(rng[n].idx)
      BY <2>1, DsRequestPlace
    <2>5. First(n)' = First(n)
      BY <2>2, <2>3, <2>4, DsTyped, DsRngParts, Neighbours DEF First, PutRequest
    <2>6. CASE phy'[n] = phy[n]
      <3>1. Moves(n) /\ AirSame(n)
        BY <2>2, <2>6 DEF Only, Moves, Requesting, AirSame, TxSame
      <3>2. AirInv'
        BY <2>2, <2>6, <3>1, AirQuiet DEF Only
      <3>3. RingNode(n)' /\ PairNode(n)'
        BY <1>0, <2>2, <2>5, <2>6, <3>1, PairSame
      <3> QED
        BY <2>2, <3>2, <3>3, PairAlone DEF PairInv
    <2>7. CASE /\ phy'[n].radio = "tx" /\ phy'[n].buf = f /\ TxSame(n)
      <3>1. AirInv'
        BY <2>2, <2>3, <2>7, AirStart
      <3>2. RingNode(n)'
        BY <1>0, <2>2, <2>3, <2>7 DEF RingNode, TxSame, Arrived, Round
      <3>3. PairNode(n)'
        BY <1>0, <2>2, <2>5 DEF PairNode, Round
      <3> QED
        BY <2>2, <3>1, <3>2, <3>3, PairAlone DEF PairInv
    <2> QED
      BY <2>3, <2>6, <2>7 DEF TxSame
  <1> QED
    BY <1>1, <1>2 DEF DsTask

LEMMA PairTxEnd ==
    ASSUME DsTypeOK, DsCalmInv, AirInv, PairInv, NEW n \in Nodes,
           NEW R \in SUBSET Nodes, DsTxEnd(n, R)
    PROVE  AirInv' /\ PairInv'
  <1>0. PICK f \in DsFrameType :
          /\ f = phy[n].buf /\ AirNode(n) /\ RingNode(n) /\ PairNode(n)
          /\ DsNodeInv(n) /\ phy[n].radio = "tx" /\ n \notin R
    BY TxEndDoes, BufParts DEF AirInv, PairInv, DsCalmInv
  <1>1. ASSUME NEW m \in Nodes
        PROVE  /\ Last(m)' = Last(m) /\ First(m)' = First(m)
               /\ m # n => reported'[m] = reported[m]
    BY TxEndDoes DEF Last, First
  <1>2. RingNode(n)'
    <2>1. /\ phy'[n].radio \in {"off", "rx"} /\ phy'[n].txtime = f.ex
          /\ phy'[n].txcode = f.code
      BY <1>0, TxEndDoes
    <2> QED
      BY <1>0, <1>1, <2>1 DEF RingNode, Arrived, Round
  <1>3. PairNode(n)'
    <2>1. CASE reported'[n] = reported[n]
      BY <1>0, <1>1, <2>1 DEF PairNode, Round
    <2>2. CASE DsCompletesAfterTx(n)
      <3>1. f.code = "FINAL" /\ Last(n) = f
        BY <1>0, <2>2 DEF DsNodeInv, DsCompletesAfterTx
      <3>2. reported'[n] = Last(n)
        BY <2>2, TxEndDoes DEF Last
      <3>3. Round(First(n), f.ex, "DS", "T1") /\ Round(f, f.ex, "T1", "T2")
        BY <1>0, <3>1 DEF RingNode, AirNode, Content
      <3> QED
        BY <1>1, <3>1, <3>2, <3>3 DEF PairNode, Round
    <2> QED
      BY <2>1, <2>2, TxEndDoes
  <1>4. ASSUME NEW m \in R PROVE RingNode(m)' /\ PairNode(m)'
    <2>0. RingNode(m) /\ PairNode(m) /\ m # n
      BY <1>0 DEF PairInv
    <2>1. /\ DsHears(m, f) /\ phy'[m].radio = "got" /\ phy'[m].buf = f
          /\ ~phy'[m].window /\ reported'[m] = reported[m]
          /\ Last(m)' = Last(m) /\ First(m)' = First(m)
      BY <1>0, <1>1, <2>0, TxEndDoes
    <2>2. ASSUME f.dst = m, f.code \in {"T2", "FINAL"}
          PROVE  /\ phy[m].window /\ phy[m].txtime = f.ex
                 /\ phy[m].txcode = AnswerTo(f.code)
      BY <1>0, <2>1, <2>2 DEF DsHears, AirNode, SentLast
    <2>3. f.dst = m /\ f.code = "T2" => Arrived(Last(m), f.ex)
      BY <2>0, <2>2 DEF RingNode, AnswerTo
    <2>4. f.dst = m /\ f.code = "FINAL" => Round(Last(m), f.ex, "DS", "T1")
      BY <2>0, <2>2 DEF RingNode, AnswerTo
    <2>5. RingNode(m)'
      BY <2>1, <2>3, <2>4 DEF RingNode, Arrived, Round
    <2>6. PairNode(m)'
      BY <2>0, <2>1 DEF PairNode, Round
    <2> QED
      BY <2>5, <2>6
  <1>5. ASSUME NEW m \in Nodes, m # n, m \notin R
        PROVE  RingNode(m)' /\ PairNode(m)'
    <2>1. /\ phy'[m] = phy[m] /\ reported'[m] = reported[m]
          /\ Last(m)' = Last(m) /\ First(m)' = First(m)
          /\ RingNode(m) /\ PairNode(m)
      BY <1>1, <1>5, TxEndDoes DEF PairInv
    <2> QED
      BY <2>1 DEF RingNode, PairNode, Arrived, Round
  <1> QED
    BY <1>2, <1>3, <1>4, <1>5, AirTxEnd DEF PairInv

\* A node that gives up, or only turns off: the air is quiet.
LEMMA AirOff ==
    ASSUME DsTypeOK, AirInv, NEW n \in Nodes, Only(n), AirSame(n),
           UNCHANGED <<task, nreq>>, phy'[n].radio = "off"
    PROVE  AirInv'
  <1>1. Moves(n)
    BY DEF Moves
  <1> QED
    BY <1>1, AirQuiet DEF Only

\* A node that got a frame for itself.
LEMMA GotFor ==
    ASSUME DsTypeOK, AirInv, PairInv, NEW n \in Nodes, NEW c \in DsCodes,
           ForMe(n, c)
    PROVE  /\ Received(n) /\ Frame(n).dst = n /\ Frame(n).code = c
           /\ Frame(n).src # n /\ Frame(n).ex \in Exchanges
           /\ phy[n].radio = "got" /\ ~phy[n].window /\ Content(Frame(n))
           /\ c # "DS" => LastTx(n) = <<AnswerTo(c), Frame(n).ex>>
           /\ c = "T2" => Arrived(Last(n), Frame(n).ex)
           /\ c = "FINAL" => Round(Last(n), Frame(n).ex, "DS", "T1")
  <1>1. /\ AirNode(n) /\ RingNode(n) /\ Frame(n).ex \in Exchanges
        /\ phy[n].radio = "got" /\ phy[n].buf.dst = n /\ phy[n].buf.code = c
    BY BufParts DEF AirInv, PairInv, ForMe, Received, Frame
  <1> QED
    BY <1>1 DEF Received, Frame, AirNode, RingNode, Live, LastTx

\* A node that sends, or gives up and turns off, with nothing reported.
LEMMA RingAnswered ==
    ASSUME NEW n \in Nodes, ~phy[n].window, NEW f \in DsFrameType,
           Sent(n, f) \/ GaveUp(n),
           f.code = "T1" => Arrived(Last(n)', f.ex),
           f.code = "T2" => Round(Last(n)', f.ex, "DS", "T1"),
           f.code = "FINAL" => Round(First(n)', f.ex, "DS", "T1")
    PROVE  RingNode(n)'
  <1>1. CASE Sent(n, f)
    BY <1>1 DEF Sent, TxSame, RingNode, Arrived, Round
  <1>2. CASE GaveUp(n)
    BY <1>2 DEF GaveUp, AirSame, TxSame, RingNode
  <1> QED
    BY <1>1, <1>2

LEMMA PairRequest ==
    ASSUME DsTypeOK, AirInv, PairInv, NEW n \in Nodes, DsRequest(n)
    PROVE  AirInv' /\ PairInv'
  <1>1. PICK t1 \in DsFrameType :
          /\ t1.code = "T1" /\ t1.src = n /\ t1.dst = Frame(n).src
          /\ t1.ex = Frame(n).ex /\ Arrived(t1, Frame(n).ex)
          /\ Took(n, Put(n, t1)) /\ (Sent(n, t1) \/ GaveUp(n))
          /\ Only(n) /\ UNCHANGED <<task, nreq>> /\ ForMe(n, "DS")
          /\ reported'[n].code = "none"
    BY DsRequestDoes DEF Arrived
  <1>2. /\ Received(n) /\ Frame(n).dst = n /\ Frame(n).code = "DS"
        /\ ~phy[n].window
    BY <1>1, GotFor DEF DsCodes
  <1>3. Content(t1) /\ AnswerTo(t1.code) = "DS"
    BY <1>1 DEF Content, AnswerTo
  <1>4. AirInv'
    <2>1. CASE Sent(n, t1)
      BY <1>1, <1>2, <1>3, <2>1, AirSend
    <2>2. CASE GaveUp(n)
      BY <1>1, <2>2, AirOff DEF GaveUp
    <2> QED
      BY <1>1, <2>1, <2>2
  <1>5. Last(n)' = t1
    BY <1>1, TookLast
  <1>6. RingNode(n)' /\ PairNode(n)'
    BY <1>1, <1>2, <1>5, RingAnswered DEF PairNode
  <1> QED
    BY <1>1, <1>4, <1>6, PairAlone DEF PairInv

LEMMA PairResponse ==
    ASSUME DsTypeOK, AirInv, PairInv, NEW n \in Nodes, DsResponse(n)
    PROVE  AirInv' /\ PairInv'
  <1>1. PICK t1, t2 \in DsFrameType :
          /\ t1.request = LastTx(n) /\ t1.response = <<"T1", Frame(n).ex>>
          /\ t1.reception = Frame(n).reception
          /\ t1.transmission = Frame(n).transmission
          /\ t2.code = "T2" /\ t2.src = n /\ t2.dst = Frame(n).src
          /\ t2.ex = Frame(n).ex /\ t2.request = LastTx(n)
          /\ t2.response = <<"T1", Frame(n).ex>>
          /\ t2.reception = <<"T1", Frame(n).ex>>
          /\ t2.transmission = <<"T2", Frame(n).ex>>
          /\ Took(n, PutAfter(n, t1, t2)) /\ (Sent(n, t2) \/ GaveUp(n))
          /\ Only(n) /\ UNCHANGED <<task, nreq>> /\ ForMe(n, "T1")
          /\ reported'[n].code = "none"
    BY DsResponseDoes
  <1>2. /\ Received(n) /\ Frame(n).dst = n /\ Frame(n).code = "T1"
        /\ ~phy[n].window /\ Arrived(Frame(n), Frame(n).ex)
        /\ LastTx(n) = <<"DS", Frame(n).ex>>
    BY <1>1, GotFor DEF DsCodes, Content, AnswerTo
  <1>3. Content(t2) /\ AnswerTo(t2.code) = "T1"
    BY <1>1, <1>2 DEF Content, AnswerTo
  <1>4. AirInv'
    <2>1. CASE Sent(n, t2)
      BY <1>1, <1>2, <1>3, <2>1, AirSend
    <2>2. CASE GaveUp(n)
      BY <1>1, <2>2, AirOff DEF GaveUp
    <2> QED
      BY <1>1, <2>1, <2>2
  <1>5. Last(n)' = t1
    BY <1>1, TookLast
  <1>6. Round(t1, t2.ex, "DS", "T1")
    BY <1>1, <1>2 DEF Arrived, Round
  <1>7. RingNode(n)' /\ PairNode(n)'
    BY <1>1, <1>2, <1>5, <1>6, RingAnswered DEF PairNode
  <1> QED
    BY <1>1, <1>4, <1>7, PairAlone DEF PairInv

LEMMA PairSecond ==
    ASSUME NFrames >= 3, DsTypeOK, AirInv, PairInv, NEW n \in Nodes,
           DsSecond(n) \/ DsSecondError(n)
    PROVE  AirInv' /\ PairInv'
  <1>1. PICK final, first \in DsFrameType :
          /\ final.code = "FINAL" /\ final.src = n
          /\ final.dst = Frame(n).src /\ final.ex = Frame(n).ex
          /\ final.request = LastTx(n)
          /\ final.response = <<"T2", Frame(n).ex>>
          /\ final.reception = Frame(n).reception
          /\ final.transmission = Frame(n).transmission
          /\ first.request = Frame(n).request
          /\ first.response = Frame(n).response
          /\ first.reception = Last(n).reception
          /\ first.transmission = Last(n).transmission
          /\ Took(n, PutBefore(n, final, first))
          /\ \/ Sent(n, final) /\ reported'[n].code = "none"
             \/ GaveUp(n) /\ reported'[n] = final
          /\ Only(n) /\ UNCHANGED <<task, nreq>> /\ ForMe(n, "T2")
    BY DsSecondDoes DEF Last
  <1>2. /\ Received(n) /\ Frame(n).dst = n /\ Frame(n).code = "T2"
        /\ ~phy[n].window /\ Content(Frame(n))
        /\ LastTx(n) = <<"T1", Frame(n).ex>>
        /\ Arrived(Last(n), Frame(n).ex)
    BY <1>1, GotFor DEF DsCodes, AnswerTo
  <1>3. /\ Round(final, final.ex, "T1", "T2")
        /\ Round(first, final.ex, "DS", "T1")
    BY <1>1, <1>2 DEF Content, Arrived, Round
  <1>4. Content(final) /\ AnswerTo(final.code) = "T2"
    BY <1>1, <1>3 DEF Content, AnswerTo
  <1>5. AirInv'
    <2>1. CASE Sent(n, final)
      BY <1>1, <1>2, <1>4, <2>1, AirSend
    <2>2. CASE GaveUp(n)
      BY <1>1, <2>2, AirOff DEF GaveUp
    <2> QED
      BY <1>1, <2>1, <2>2
  <1>6. Last(n)' = final /\ First(n)' = first
    BY <1>1, TookLast, TookFirst
  <1>7. RingNode(n)'
    BY <1>1, <1>2, <1>3, <1>6, RingAnswered
  <1>8. PairNode(n)'
    BY <1>1, <1>3, <1>6 DEF PairNode, Round
  <1> QED
    BY <1>1, <1>5, <1>7, <1>8, PairAlone DEF PairInv

LEMMA PairFinal ==
    ASSUME NFrames >= 3, DsTypeOK, AirInv, PairInv, NEW n \in Nodes, DsFinal(n)
    PROVE  AirInv' /\ PairInv'
  <1>1. PICK f \in DsFrameType :
          /\ f = Frame(n) /\ Only(n) /\ UNCHANGED <<task, nreq>> /\ GaveUp(n)
          /\ ForMe(n, "FINAL") /\ reported'[n] = f /\ Took(n, Put(n, f))
    BY DsFinalDoes, DsTyped
  <1>2. /\ ~phy[n].window /\ Round(f, f.ex, "T1", "T2")
        /\ Round(Last(n), f.ex, "DS", "T1")
    BY <1>1, GotFor DEF DsCodes, Content
  <1>3. Last(n)' = f /\ First(n)' = Last(n)
    BY <1>1, TookLast, TookFirst
  <1>4. AirInv'
    BY <1>1, AirOff DEF GaveUp
  <1>5. RingNode(n)'
    BY <1>1, <1>2 DEF GaveUp, AirSame, TxSame, RingNode
  <1>6. PairNode(n)'
    BY <1>1, <1>2, <1>3 DEF PairNode, Round
  <1> QED
    BY <1>1, <1>4, <1>5, <1>6, PairAlone DEF PairInv

\* An overheard frame is put into the entry after the last one, and a foreign
\* frame and a time-out touch no entry.
LEMMA PairOther ==
    ASSUME NFrames >= 3, DsTypeOK, DsCalmInv, AirInv, PairInv, NEW n \in Nodes,
           RxUnsolicited(n) \/ RxForeign(n) \/ RxTimeout(n) \/ DsOtherAddress(n)
    PROVE  AirInv' /\ PairInv'
  <1>1. /\ Only(n) /\ AirSame(n) /\ phy'[n].radio = "off"
        /\ UNCHANGED <<task, nreq, reported>> /\ rng'[n].idx = rng[n].idx
        /\ \/ rng'[n].frames = rng[n].frames
           \/ rng'[n].frames =
                [rng[n].frames EXCEPT ![Next1(rng[n].idx)] = InRing(n)]
    BY DsCalmOther, OtherAddressDoes DEF RingSame
  <1>2. Last(n)' = Last(n) /\ First(n)' = First(n)
    BY <1>1, DsTyped, DsRngParts, Next1Differs, Neighbours DEF Last, First
  <1>3. RingNode(n)' /\ PairNode(n)'
    BY <1>1, <1>2, PairSame DEF PairInv
  <1> QED
    BY <1>1, <1>3, AirOff, PairAlone DEF PairInv

LEMMA PairStep ==
    ASSUME Quiet, NFrames >= 3
    PROVE  /\ DsTypeOK /\ DsCalmInv /\ DsKeptInv /\ AirInv /\ PairInv
           /\ [DsNext]_vars
           => AirInv' /\ PairInv'
  <1> SUFFICES ASSUME DsTypeOK, DsCalmInv, DsKeptInv, AirInv, PairInv,
                      [DsNext]_vars
               PROVE  AirInv' /\ PairInv'
    OBVIOUS
  <1>1. CASE UNCHANGED vars
    <2>1. AirInv'
      BY <1>1 DEF vars, AirInv, Unique, Live, AirNode, Content, Arrived, Round,
                  Dated, SentLast
    <2>2. PairInv'
      <3> SUFFICES ASSUME NEW n \in Nodes PROVE RingNode(n)' /\ PairNode(n)'
        BY DEF PairInv
      <3>1. /\ Last(n)' = Last(n) /\ First(n)' = First(n) /\ AirSame(n)
            /\ reported'[n] = reported[n] /\ phy'[n].radio = phy[n].radio
        BY <1>1 DEF vars, Last, First, AirSame, TxSame
      <3> QED
        BY <3>1, PairSame DEF PairInv
    <2> QED
      BY <2>1, <2>2
  <1>2. CASE DsNext
    <2>0. Calm
      BY DEF Quiet
    <2>1. PICK n \in Nodes : DsStep(n) \/ DsDisturbed(n)
      BY <1>2 DEF DsNext
    <2> QED
      BY <2>0, <2>1, DsCalmSteps, PairTask, PairTxEnd, PairRequest,
         PairResponse, PairSecond, PairFinal, PairOther
         DEF DsStep, DsIrq, DsDisturbed
  <1> QED
    BY <1>1, <1>2

LEMMA PairInvKept == PairInv => PairKept
  BY DEF PairInv, PairNode, PairKept, Last, First, Prev1

\* As long as a double-sided result stands, the two neighbours in the ring
\* from which uwb_rng_twr_to_tof computes the range hold the eight times of
\* the exchange reported, in a ring of three frames or more.
THEOREM DsPairsKept ==
    ASSUME Quiet, NFrames >= 3 PROVE DsSpec => []PairKept
  <1>1. DsInit => AirInv /\ PairInv
    BY AirInit, PairInit
  <1>2. /\ DsTypeOK /\ DsCalmInv /\ DsKeptInv /\ AirInv /\ PairInv
        /\ [DsNext]_vars
        => AirInv' /\ PairInv'
    BY PairStep
  <1> QED
    BY <1>1, <1>2, DsKeptSafety, PairInvKept, PTL DEF DsSpec

-----------------------------------------------------------------------------
(* The instances of MCTwr: what holds of TwrSs and of TwrDs holds of the   *)
(* runs in which they are two instances that share nothing                 *)

LEMMA MCChoice ==
    /\ MCInit => (instance = "ss" /\ Init) \/ (instance = "ds" /\ DsInit)
    /\ instance = "ss" /\ [MCNext]_rangingVars
         => (instance = "ss")' /\ [Next]_vars
    /\ instance = "ds" /\ [MCNext]_rangingVars
         => (instance = "ds")' /\ [DsNext]_vars
  BY DEF MCInit, MCNext, rangingVars, vars

LEMMA MCResetChoice ==
    /\ MCResetInit => (instance = "ss" /\ Init) \/ (instance # "ss" /\ DsInit)
    /\ instance = "ss" /\ [MCResetNext]_rangingVars
         => (instance = "ss")' /\ [Next]_vars
    /\ instance # "ss" /\ [MCResetNext]_rangingVars
         => (instance # "ss")' /\ [DsNext]_vars
  <1>1. DsResetNext => DsNext
    BY DEF DsResetNext, DsNext
  <1> QED
    BY <1>1 DEF MCResetInit, MCResetNext, rangingVars, vars

\* The semaphore of uwb_rng is the token of an exchange of either protocol, and
\* what rng_issue_complete reports is the final frame just sent or received.
THEOREM MCOneToken ==
    ASSUME Calm PROVE MCSpec => [](TokenOK /\ RangeCurrent)
  <1>1. Spec => [](TokenOK /\ RangeCurrent)
    BY TwrOneToken, TwrRangeCurrent, PTL
  <1>2. DsSpec => [](TokenOK /\ RangeCurrent)
    BY DsOneToken, DsRangeCurrent, PTL
  <1> QED
    BY <1>1, <1>2, MCChoice, PTL DEF MCSpec, Spec, DsSpec

\* A result stays in its frame of the ring until the next frame is received.
THEOREM MCResultKept == ASSUME Quiet PROVE MCSpec => []ResultKept
  <1>1. Spec => []ResultKept
    BY TwrResultKept
  <1>2. DsSpec => []ResultKept
    BY DsResultKept
  <1> QED
    BY <1>1, <1>2, MCChoice, PTL DEF MCSpec, Spec, DsSpec

\* uwb_rng_twr_to_tof finds the eight times of the exchange reported in two
\* neighbours of the ring.
THEOREM MCPairKept ==
    ASSUME Quiet, NFrames >= 3 PROVE MCSpec => []DsPairKept
  <1>1. DsSpec => []PairKept
    BY DsPairsKept
  <1>2. PairKept => DsPairKept
    BY DEF DsPairKept
  <1>3. instance = "ss" => DsPairKept
    BY DEF DsPairKept
  <1> QED
    BY <1>1, <1>2, <1>3, MCChoice, PTL DEF MCSpec, DsSpec

\* The structures keep their types under resets, superframes, foreign and
\* malformed frames, in either protocol.
THEOREM MCTypes == MCResetSpec => []TypesOK
  <1>1. /\ instance = "ss" /\ TypeOK => TypesOK
        /\ instance # "ss" /\ DsTypeOK => TypesOK
    BY DEF TypesOK
  <1> QED
    BY <1>1, TwrTypeCorrect, DsTypeCorrect, MCResetChoice, PTL
       DEF MCResetSpec, Spec, DsSpec

\* A range is reported at an end of its exchange and only if the initiator
\* used the answer, whatever disturbs the exchange.
THEOREM MCEndsAgree == MCResetSpec => []EndsAgree
  BY TwrEndsAgree, DsEndsAgree, MCResetChoice, PTL
     DEF MCResetSpec, Spec, DsSpec

=============================================================================

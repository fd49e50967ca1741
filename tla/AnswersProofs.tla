---------------------------- MODULE AnswersProofs ----------------------------
(***************************************************************************)
(* Proofs about services that read what many nodes answered: N-to-1        *)
(* ranging (RangesTrue) and differences of arrival (TdoaTrue), and both in *)
(* the composition that is model-checked.                                  *)
(***************************************************************************)
EXTENDS MCAnswers, FiniteSetTheorems, TLAPS

(* A remainder of what is less than twice the modulus is found by taking the  *)
(* modulus off once or not at all.                                            *)
LEMMA ModOnce ==
    ASSUME NEW n \in Nat \ {0}, NEW x \in Nat, x < 2 * n
    PROVE  x % n = IF x < n THEN x ELSE x - n
<1>1. \A y \in Nat : y < n => y % n = y
  OBVIOUS
<1>2. \A y \in Nat : y < n => (y + n) % n = y
  OBVIOUS
<1>3. CASE x < n
  BY <1>1, <1>3
<1>4. CASE ~(x < n)
  <2>1. x - n \in Nat /\ x - n < n /\ (x - n) + n = x
    BY <1>4
  <2>. QED BY <1>2, <1>4, <2>1
<1>. QED BY <1>3, <1>4

-----------------------------------------------------------------------------
(* nrng: the positions of the answers to one request *)

Entries == 0..RingSize - 1

(* BitIndex counts the slots asked before i: slots asked have different       *)
(* positions, and there are no more of them than slots of the cell.           *)
LEMMA BitIndexes ==
    ASSUME NEW mask \in SUBSET CellSlots
    PROVE  /\ \A i \in CellSlots : BitIndex(mask, i) \in CellSlots
           /\ \A i, j \in mask : BitIndex(mask, i) = BitIndex(mask, j) => i = j
<1>. USE NrngConstants
<1>0. mask \subseteq CellSlots /\ CellSlots \subseteq Nat
  BY DEF CellSlots
<1>1. IsFiniteSet(mask)
  <2>1. IsFiniteSet(CellSlots)
    BY FS_Interval DEF CellSlots
  <2>. QED BY <2>1, FS_Subset
<1>2. ASSUME NEW i \in CellSlots PROVE BitIndex(mask, i) \in Nat /\ BitIndex(mask, i) <= i
  <2>1. IsFiniteSet(0..i - 1) /\ Cardinality(0..i - 1) = i
    BY FS_Interval DEF CellSlots
  <2>2. {j \in mask : j < i} \in SUBSET (0..i - 1)
    <3>1. \A j \in Nat : j < i => j \in 0..i - 1
      BY <1>0
    <3>. QED BY <1>0, <3>1
  <2>3. IsFiniteSet({j \in mask : j < i}) /\ Cardinality({j \in mask : j < i}) <= i
    BY <2>1, <2>2, FS_Subset
  <2>. QED BY <2>3, FS_CardinalityType DEF BitIndex
<1>3. ASSUME NEW i \in mask, NEW j \in mask, i < j
      PROVE  BitIndex(mask, i) # BitIndex(mask, j)
  <2>1. {k \in mask : k < i} \in SUBSET {k \in mask : k < j}
    <3>1. \A k \in Nat : k < i => k < j
      BY <1>0, <1>3
    <3>. QED BY <1>0, <3>1
  <2>2. {k \in mask : k < i} # {k \in mask : k < j}
    BY <1>3 DEF CellSlots
  <2>3. IsFiniteSet({k \in mask : k < j})
    BY <1>1, FS_Subset
  <2>. QED BY <2>1, <2>2, <2>3, FS_Subset DEF BitIndex
<1>4. \A i \in CellSlots : BitIndex(mask, i) \in CellSlots
  BY <1>2 DEF CellSlots
<1>5. \A i, j \in mask : BitIndex(mask, i) = BitIndex(mask, j) => i = j
  BY <1>3 DEF CellSlots
<1>. QED BY <1>4, <1>5

(* Different positions of a request have entries of their own.                *)
LEMMA Ats ==
    ASSUME nrng_idx \in Entries
    PROVE  /\ \A p \in Nat : At(p) \in Entries
           /\ \A p, q \in CellSlots : At(p) = At(q) => p = q
<1>. USE NrngConstants
<1>1. \A p \in Nat : At(p) \in Entries
  BY DEF At, Entries
<1>2. ASSUME NEW p \in CellSlots, NEW q \in CellSlots, At(p) = At(q) PROVE p = q
  <2>1. /\ nrng_idx \in Nat /\ nrng_idx < RingSize
        /\ p \in Nat /\ p < RingSize /\ q \in Nat /\ q < RingSize
    BY DEF Entries, CellSlots
  <2>2. At(p) = IF nrng_idx + p < RingSize THEN nrng_idx + p ELSE nrng_idx + p - RingSize
    <3>1. nrng_idx + p \in Nat /\ nrng_idx + p < 2 * RingSize
      BY <2>1
    <3>2. PICK x \in Nat : x = nrng_idx + p /\ x < 2 * RingSize
      BY <3>1
    <3>3. x % RingSize = IF x < RingSize THEN x ELSE x - RingSize
      BY <3>2, ModOnce
    <3>. QED BY <2>1, <3>2, <3>3 DEF At
  <2>3. At(q) = IF nrng_idx + q < RingSize THEN nrng_idx + q ELSE nrng_idx + q - RingSize
    <3>1. nrng_idx + q \in Nat /\ nrng_idx + q < 2 * RingSize
      BY <2>1
    <3>2. PICK x \in Nat : x = nrng_idx + q /\ x < 2 * RingSize
      BY <3>1
    <3>3. x % RingSize = IF x < RingSize THEN x ELSE x - RingSize
      BY <3>2, ModOnce
    <3>. QED BY <2>1, <3>2, <3>3 DEF At
  <2>4. PICK x \in Nat, y \in Nat : x = At(p) /\ y = At(q) /\ x = y
    BY <1>1, <1>2, <2>1 DEF Entries
  <2>. QED BY <2>1, <2>2, <2>3, <2>4
<1>. QED BY <1>1, <1>2

-----------------------------------------------------------------------------
(* nrng: what the entries of the ring hold *)

NrngState ==
    /\ nrng_idx \in Entries /\ seq_num \in 0..NrngSeqMod - 1
    /\ slot_mask \subseteq CellSlots /\ frames \in [Entries -> Final \cup {NotFinal}]
    /\ coming \subseteq Answer

\* the sequence number of a frame tells its age, up to a turn
AgesTrue ==
    \A p \in Entries :
        (frames[p] # NotFinal /\ frames[p].age < NrngSeqMod) =>
            frames[p].seq + frames[p].age \in {seq_num, seq_num + NrngSeqMod}

\* an answer on its way with the sequence number of now answers the request of now
ComingTrue ==
    \A a \in coming :
        a.seq = seq_num => a.slot \in slot_mask /\ a.pos = BitIndex(slot_mask, a.slot)

Fresh(i) == [slot |-> i, seq |-> seq_num, age |-> 0]

\* The slots heard have their frames where they are looked for, and no other entry
\* is of this request, unless a foreign request has moved idx
HeardTrue ==
    (Requesting /\ ~joined) =>
        /\ answered \subseteq slot_mask
        /\ \A i \in answered : FrameOf(i) = Fresh(i)
        /\ \A p \in Entries :
              (frames[p] # NotFinal /\ frames[p].age = 0) =>
                  \E i \in answered : p = At(BitIndex(slot_mask, i))

\* the histories start with a request
Unheard == ~Requesting => answered = {} /\ ~joined

NrngInv == NrngState /\ AgesTrue /\ ComingTrue /\ HeardTrue /\ Unheard

LEMMA NrngInvInit == NrngInit => NrngInv
<1>. SUFFICES ASSUME NrngInit PROVE NrngInv
  OBVIOUS
<1>. USE NrngConstants DEF NrngInit
<1>1. RingSize - 1 \in Entries /\ 0 \in 0..NrngSeqMod - 1
  BY DEF Entries
<1>2. NrngState /\ AgesTrue
  BY <1>1 DEF NrngState, AgesTrue, Entries
<1>3. ComingTrue /\ HeardTrue /\ Unheard
  BY DEF ComingTrue, HeardTrue, Unheard, Requesting
<1>. QED BY <1>2, <1>3 DEF NrngInv

(* A step that leaves the frames, the request and what is coming alone.       *)
LEMMA NrngQuiet ==
    ASSUME NrngInv, UNCHANGED <<nrng_idx, seq_num, slot_mask, frames, coming>>,
           \/ UNCHANGED <<answered, joined>> /\ (Requesting' <=> Requesting)
           \/ ~Requesting' /\ answered' = {} /\ joined' = FALSE
    PROVE  NrngInv'
<1>1. NrngState' /\ AgesTrue' /\ ComingTrue'
  BY DEF NrngInv, NrngState, AgesTrue, ComingTrue, BitIndex
<1>2. HeardTrue' /\ Unheard'
  <2>1. CASE ~Requesting' /\ answered' = {} /\ joined' = FALSE
    BY <2>1 DEF HeardTrue, Unheard
  <2>2. CASE UNCHANGED <<answered, joined>> /\ (Requesting' <=> Requesting)
    <3>1. \A p : At(p)' = At(p)
      BY DEF At
    <3>2. \A i : BitIndex(slot_mask, i)' = BitIndex(slot_mask, i)
      BY DEF BitIndex
    <3>3. \A i : FrameOf(i)' = FrameOf(i) /\ Fresh(i)' = Fresh(i)
      BY <3>1, <3>2 DEF FrameOf, Fresh, At
    <3>. HIDE DEF Requesting
    <3>4. Unheard'
      BY <2>2 DEF NrngInv, Unheard
    <3>5. HeardTrue'
      BY <2>2, <3>1, <3>2, <3>3 DEF NrngInv, HeardTrue, At, BitIndex
    <3>. QED BY <3>4, <3>5
  <2>. QED BY <2>1, <2>2
<1>. QED BY <1>1, <1>2 DEF NrngInv

(* The number counted on and the age counted on still agree.                  *)
LEMMA AgeStep ==
    ASSUME NEW m \in Nat, NEW q \in Nat, NEW g \in Nat, NEW s \in Nat, NEW t \in Nat,
           q < m, g < m, s < m, t = IF s + 1 = m THEN 0 ELSE s + 1,
           q + g = s \/ q + g = s + m
    PROVE  q + (g + 1) = t \/ q + (g + 1) = t + m
  OBVIOUS

(* A new request makes all frames one request older and keeps only what       *)
(* answers the one before.                                                    *)
LEMMA NrngRequestKeeps ==
    ASSUME NrngInv, NEW mask \in SUBSET CellSlots, NrngRequest(mask)
    PROVE  NrngInv'
<1>. USE NrngConstants
<1>0. NrngState /\ AgesTrue /\ Unheard
  BY DEF NrngInv
<1>1. /\ nrng_idx' = At(Cardinality(mask)) /\ seq_num' = (seq_num + 1) % NrngSeqMod
      /\ slot_mask' = mask /\ coming' = {a \in coming : a.seq = seq_num}
      /\ frames' = [p \in Entries |-> IF p = nrng_idx' THEN NotFinal ELSE Older(frames[p])]
      /\ caller = "idle" /\ caller' = "send" /\ UNCHANGED <<answered, joined>>
  BY DEF NrngRequest, nrngHist, Entries
<1>2. PICK s \in Nat, t \in Nat : /\ s = seq_num /\ t = seq_num' /\ s < NrngSeqMod
                                 /\ t = IF s + 1 = NrngSeqMod THEN 0 ELSE s + 1
  <2>1. seq_num \in Nat /\ seq_num < NrngSeqMod
    BY <1>0 DEF NrngState
  <2>2. (seq_num + 1) % NrngSeqMod = IF seq_num + 1 < NrngSeqMod THEN seq_num + 1
                                     ELSE seq_num + 1 - NrngSeqMod
    <3>1. PICK x \in Nat : x = seq_num + 1 /\ x < 2 * NrngSeqMod
      BY <2>1
    <3>2. x % NrngSeqMod = IF x < NrngSeqMod THEN x ELSE x - NrngSeqMod
      BY <3>1, ModOnce
    <3>. QED BY <2>1, <3>1, <3>2
  <2>. QED BY <1>1, <2>1, <2>2
<1>3. \A p \in Entries :
        \/ frames'[p] = NotFinal
        \/ /\ frames[p] \in Final /\ frames'[p] \in Final
           /\ frames'[p].seq = frames[p].seq /\ frames'[p].slot = frames[p].slot
           /\ frames'[p].age = IF frames[p].age = NrngSeqMod THEN NrngSeqMod ELSE frames[p].age + 1
  <2>. SUFFICES ASSUME NEW p \in Entries, p # nrng_idx', frames[p] # NotFinal
                PROVE  /\ frames[p] \in Final /\ Older(frames[p]) \in Final
                       /\ Older(frames[p]).seq = frames[p].seq /\ Older(frames[p]).slot = frames[p].slot
                       /\ Older(frames[p]).age = IF frames[p].age = NrngSeqMod THEN NrngSeqMod
                                                 ELSE frames[p].age + 1
    BY <1>1 DEF Older
  <2>1. frames[p] \in Final
    BY <1>0 DEF NrngState
  <2>. QED BY <2>1 DEF Older, Final
<1>4. NrngState'
  <2>1. nrng_idx' \in Entries
    <3>1. IsFiniteSet(mask)
      <4>1. IsFiniteSet(CellSlots)
        BY FS_Interval DEF CellSlots
      <4>. QED BY <4>1, FS_Subset
    <3>2. Cardinality(mask) \in Nat
      BY <3>1, FS_CardinalityType
    <3>. QED BY <1>0, <1>1, <3>2, Ats DEF NrngState
  <2>2. seq_num' \in 0..NrngSeqMod - 1
    BY <1>2
  <2>3. frames' \in [Entries -> Final \cup {NotFinal}]
    BY <1>1, <1>3
  <2>. QED BY <1>0, <1>1, <2>1, <2>2, <2>3 DEF NrngState
<1>5. AgesTrue'
  <2>. SUFFICES ASSUME NEW p \in Entries, frames'[p] # NotFinal, frames'[p].age < NrngSeqMod
                PROVE  frames'[p].seq + frames'[p].age \in {seq_num', seq_num' + NrngSeqMod}
    BY DEF AgesTrue
  <2>1. PICK q \in Nat, g \in Nat :
          q = frames[p].seq /\ g = frames[p].age /\ q < NrngSeqMod /\ g <= NrngSeqMod
    BY <1>3 DEF Final
  <2>2. g < NrngSeqMod /\ frames'[p].age = g + 1 /\ frames'[p].seq = q /\ frames[p] # NotFinal
    BY <1>3, <2>1, NotFinalAssumption
  <2>3. q + g = s \/ q + g = s + NrngSeqMod
    BY <1>0, <1>2, <2>1, <2>2 DEF AgesTrue
  <2>4. q + (g + 1) = t \/ q + (g + 1) = t + NrngSeqMod
    BY <1>2, <2>1, <2>2, <2>3, AgeStep
  <2>. QED BY <1>2, <2>2, <2>4
<1>6. ComingTrue'
  <2>1. seq_num' # seq_num
    BY <1>2
  <2>. QED BY <1>1, <2>1 DEF ComingTrue
<1>7. HeardTrue'
  <2>1. answered = {} /\ ~joined
    BY <1>0, <1>1 DEF Unheard, Requesting
  <2>2. \A p \in Entries : frames'[p] # NotFinal => frames'[p].age # 0
    BY <1>3 DEF Final
  <2>. QED BY <1>1, <2>1, <2>2 DEF HeardTrue
<1>8. Unheard'
  BY <1>1 DEF Unheard, Requesting
<1>. QED BY <1>4, <1>5, <1>6, <1>7, <1>8 DEF NrngInv

(* An answer to the request of now gets an entry of its own.                  *)
LEMMA NrngT1Keeps ==
    ASSUME NrngInv, NEW a \in coming, NrngT1(a)
    PROVE  NrngInv'
<1>. USE NrngConstants
<1>0. NrngState /\ AgesTrue /\ ComingTrue /\ HeardTrue /\ Unheard
  BY DEF NrngInv
<1>1. /\ UNCHANGED <<nrng_idx, seq_num, slot_mask, caller, joined>>
      /\ coming' = coming \ {a} /\ a \in Answer
  BY <1>0 DEF NrngT1, NrngState
<1>2. CASE UNCHANGED <<frames, answered>>
  <2>1. NrngState' /\ AgesTrue' /\ ComingTrue'
    BY <1>0, <1>1, <1>2 DEF NrngState, AgesTrue, ComingTrue, BitIndex
  <2>2. HeardTrue' /\ Unheard'
    BY <1>0, <1>1, <1>2 DEF HeardTrue, Unheard, Requesting, FrameOf, Fresh, At, BitIndex
  <2>. QED BY <2>1, <2>2 DEF NrngInv
<1>3. CASE /\ a.seq = seq_num
           /\ frames' = [frames EXCEPT ![At(a.pos)] = [slot |-> a.slot, seq |-> a.seq, age |-> 0]]
           /\ answered' = IF Requesting THEN answered \cup {a.slot} ELSE answered
  <2>1. /\ a.slot \in slot_mask /\ a.pos = BitIndex(slot_mask, a.slot)
        /\ a.slot \in CellSlots /\ a.pos \in CellSlots /\ CellSlots \subseteq Nat
    BY <1>0, <1>1, <1>3 DEF ComingTrue, Answer, CellSlots
  <2>2. At(a.pos) \in Entries
    BY <1>0, <2>1, Ats DEF NrngState
  <2>3. Fresh(a.slot) \in Final
    BY <1>0, <2>1 DEF Fresh, Final, NrngState
  <2>4. frames' = [frames EXCEPT ![At(a.pos)] = Fresh(a.slot)]
    BY <1>3 DEF Fresh
  <2>5. NrngState'
    BY <1>0, <1>1, <2>2, <2>3, <2>4 DEF NrngState
  <2>6. \A p \in Entries : frames'[p] = IF p = At(a.pos) THEN Fresh(a.slot) ELSE frames[p]
    BY <1>0, <2>2, <2>4 DEF NrngState
  <2>7. AgesTrue'
    <3>. SUFFICES ASSUME NEW p \in Entries, frames'[p] # NotFinal, frames'[p].age < NrngSeqMod
                  PROVE  frames'[p].seq + frames'[p].age \in {seq_num, seq_num + NrngSeqMod}
      BY <1>1 DEF AgesTrue
    <3>1. CASE p = At(a.pos)
      BY <1>0, <2>6, <3>1 DEF Fresh, NrngState
    <3>2. CASE p # At(a.pos)
      BY <1>0, <2>6, <3>2 DEF AgesTrue
    <3>. QED BY <3>1, <3>2
  <2>8. ComingTrue'
    BY <1>0, <1>1 DEF ComingTrue, BitIndex
  <2>9. HeardTrue'
    <3>. SUFFICES ASSUME Requesting, ~joined PROVE HeardTrue'
      BY <1>1 DEF HeardTrue, Requesting
    <3>1. /\ \A i \in answered : i \in slot_mask /\ FrameOf(i) = Fresh(i)
          /\ \A p \in Entries :
                (frames[p] # NotFinal /\ frames[p].age = 0) =>
                    \E i \in answered : p = At(BitIndex(slot_mask, i))
      BY <1>0 DEF HeardTrue
    <3>2. answered' = answered \cup {a.slot}
      BY <1>3
    <3>3. \A i \in answered' : i \in slot_mask
      BY <2>1, <3>1, <3>2
    <3>4. \A i \in answered' : FrameOf(i)' = Fresh(i)'
      <4>. SUFFICES ASSUME NEW i \in answered'
                    PROVE  frames'[At(BitIndex(slot_mask, i))] = Fresh(i)
        BY <1>1 DEF FrameOf, Fresh, At, BitIndex
      <4>1. BitIndex(slot_mask, i) \in CellSlots /\ At(BitIndex(slot_mask, i)) \in Entries
        BY <1>0, <2>1, <3>3, BitIndexes, Ats DEF NrngState
      <4>2. CASE i = a.slot
        BY <2>1, <2>2, <2>6, <4>2
      <4>3. CASE i # a.slot
        <5>1. BitIndex(slot_mask, i) # a.pos
          BY <1>0, <2>1, <3>3, <4>3, BitIndexes DEF NrngState
        <5>2. At(BitIndex(slot_mask, i)) # At(a.pos)
          BY <1>0, <2>1, <4>1, <5>1, Ats DEF NrngState
        <5>. QED BY <2>6, <3>1, <3>2, <4>1, <4>3, <5>2 DEF FrameOf
      <4>. QED BY <4>2, <4>3
    <3>5. \A p \in Entries :
             (frames'[p] # NotFinal /\ frames'[p].age = 0) =>
                 \E i \in answered' : p = At(BitIndex(slot_mask, i))
      BY <2>1, <2>6, <3>1, <3>2
    <3>. QED BY <1>1, <3>3, <3>4, <3>5 DEF HeardTrue, At, BitIndex
  <2>10. Unheard'
    BY <1>0, <1>1, <1>3 DEF Unheard, Requesting
  <2>. QED BY <2>5, <2>7, <2>8, <2>9, <2>10 DEF NrngInv
<1>. QED BY <1>2, <1>3 DEF NrngT1

(* The request goes out as the instance holds it then.                        *)
LEMMA RequestSentKeeps ==
    ASSUME NrngInv, RequestSent
    PROVE  NrngInv'
<1>0. NrngState /\ AgesTrue /\ ComingTrue /\ HeardTrue /\ Unheard
  BY DEF NrngInv
<1>1. UNCHANGED <<nrng_idx, seq_num, slot_mask, frames, caller, answered, joined>>
  BY DEF RequestSent, instVars, nrngHist
<1>2. \A b \in coming' : \/ b \in coming
                         \/ \E i \in slot_mask :
                               b = [slot |-> i, pos |-> BitIndex(slot_mask, i), seq |-> seq_num]
  BY DEF RequestSent
<1>3. ASSUME NEW b \in coming' PROVE b \in Answer
  <2>1. \A i \in slot_mask : i \in CellSlots /\ BitIndex(slot_mask, i) \in CellSlots
    BY <1>0, BitIndexes DEF NrngState
  <2>. QED BY <1>0, <1>2, <2>1 DEF NrngState, Answer
<1>4. NrngState'
  BY <1>0, <1>1, <1>3 DEF NrngState
<1>5. AgesTrue'
  BY <1>0, <1>1 DEF AgesTrue
<1>6. ComingTrue'
  <2>1. ASSUME NEW b \in coming', b.seq = seq_num
        PROVE  b.slot \in slot_mask /\ b.pos = BitIndex(slot_mask, b.slot)
    <3>1. CASE b \in coming
      BY <1>0, <2>1, <3>1 DEF ComingTrue
    <3>2. ASSUME NEW i \in slot_mask,
                 b = [slot |-> i, pos |-> BitIndex(slot_mask, i), seq |-> seq_num]
          PROVE  b.slot \in slot_mask /\ b.pos = BitIndex(slot_mask, b.slot)
      BY <3>2
    <3>. QED BY <1>2, <3>1, <3>2
  <2>. QED BY <1>1, <2>1 DEF ComingTrue, BitIndex
<1>7. HeardTrue' /\ Unheard'
  BY <1>0, <1>1 DEF HeardTrue, Unheard, Requesting, FrameOf, Fresh, At, BitIndex
<1>. QED BY <1>4, <1>5, <1>6, <1>7 DEF NrngInv

(* A foreign request takes the next entry, and the positions with it.         *)
LEMMA ForeignRequestKeeps ==
    ASSUME NrngInv, ForeignRequest
    PROVE  NrngInv'
<1>0. NrngState /\ AgesTrue /\ ComingTrue /\ Unheard
  BY DEF NrngInv
<1>1. /\ nrng_idx' = At(1) /\ frames' = [frames EXCEPT ![At(1)] = NotFinal]
      /\ joined' = Requesting /\ (Requesting' <=> Requesting)
      /\ UNCHANGED <<seq_num, slot_mask, coming, answered>>
  BY DEF ForeignRequest, Requesting
<1>2. At(1) \in Entries
  BY <1>0, Ats DEF NrngState
<1>3. NrngState'
  BY <1>0, <1>1, <1>2 DEF NrngState
<1>4. AgesTrue'
  <2>1. \A p \in Entries : frames'[p] = NotFinal \/ frames'[p] = frames[p]
    BY <1>0, <1>1, <1>2 DEF NrngState
  <2>. QED BY <1>0, <1>1, <2>1 DEF AgesTrue
<1>5. ComingTrue'
  BY <1>0, <1>1 DEF ComingTrue, BitIndex
<1>6. HeardTrue' /\ Unheard'
  <2>. HIDE DEF Requesting
  <2>. QED BY <1>0, <1>1 DEF HeardTrue, Unheard
<1>. QED BY <1>3, <1>4, <1>5, <1>6 DEF NrngInv

LEMMA NrngInvNext == NrngInv /\ [NrngNext]_nrngVars => NrngInv'
<1>. SUFFICES ASSUME NrngInv, [NrngNext]_nrngVars PROVE NrngInv'
  OBVIOUS
<1>1. ASSUME NEW mask \in SUBSET CellSlots, NrngRequest(mask) PROVE NrngInv'
  BY <1>1, NrngRequestKeeps
<1>2. ASSUME NEW a \in coming, NrngT1(a) PROVE NrngInv'
  BY <1>2, NrngT1Keeps
<1>3. CASE \/ NrngStartTx \/ Woken \/ NrngRelease \/ AnswerSent \/ RxEnds \/ RxErrorElse
           \/ NrngReset \/ \E b \in BOOLEAN : NrngListen(b)
  <2>1. UNCHANGED <<nrng_idx, seq_num, slot_mask, frames, coming, answered, joined>>
    BY <1>3 DEF NrngStartTx, Woken, NrngRelease, AnswerSent, RxEnds, RxErrorElse, NrngReset,
                NrngListen, instVars, nrngHist
  <2>2. Requesting' <=> Requesting
    <3>1. CASE NrngStartTx
      BY <3>1 DEF NrngStartTx, Requesting
    <3>2. CASE Woken
      BY <3>2 DEF Woken, Requesting
    <3>3. CASE NrngRelease
      BY <3>3 DEF NrngRelease, Requesting
    <3>4. CASE AnswerSent \/ RxEnds \/ RxErrorElse \/ NrngReset
      BY <3>4 DEF AnswerSent, RxEnds, RxErrorElse, NrngReset, Requesting
    <3>5. CASE \E b \in BOOLEAN : NrngListen(b)
      BY <3>5 DEF NrngListen, Requesting
    <3>. QED BY <1>3, <3>1, <3>2, <3>3, <3>4, <3>5
  <2>. QED BY <2>1, <2>2, NrngQuiet
<1>4. CASE Read
  BY <1>4, NrngQuiet DEF Read, instVars, Requesting
<1>5. CASE RequestSent
  BY <1>5, RequestSentKeeps
<1>6. CASE ForeignRequest
  BY <1>6, ForeignRequestKeeps
<1>7. CASE UNCHANGED nrngVars
  BY <1>7, NrngQuiet DEF nrngVars, Requesting
<1>. QED BY <1>1, <1>2, <1>3, <1>4, <1>5, <1>6, <1>7 DEF NrngNext

(* What is read is true whatever the size of the ring and of the cell.        *)
LEMMA NrngInvRanges == NrngInv => RangesTrue
<1>. SUFFICES ASSUME NrngInv, caller = "read", ~joined PROVE RangesTrue
  BY DEF RangesTrue
<1>. USE NrngConstants
<1>1. NrngState /\ AgesTrue /\ HeardTrue /\ Requesting
  BY DEF NrngInv, Requesting
<1>2. answered \subseteq Reported
  BY <1>1, NotFinalAssumption DEF HeardTrue, Reported, Ours, Fresh, Final, NrngState
<1>3. ASSUME NEW i \in Reported, FrameOf(i).age < NrngSeqMod
      PROVE  FrameOf(i).age = 0 /\ FrameOf(i).slot = i /\ i \in answered
  <2>1. /\ i \in slot_mask /\ i \in CellSlots /\ BitIndex(slot_mask, i) \in CellSlots
        /\ CellSlots \subseteq Nat
    BY <1>1, BitIndexes DEF Reported, NrngState, CellSlots
  <2>2. PICK p \in Entries : p = At(BitIndex(slot_mask, i)) /\ FrameOf(i) = frames[p]
    BY <1>1, <2>1, Ats DEF NrngState, FrameOf
  <2>3. frames[p] \in Final /\ frames[p] # NotFinal /\ frames[p].seq = seq_num
    BY <1>1, <2>2 DEF Reported, Ours, NrngState
  <2>4. frames[p].age = 0
    <3>1. PICK g \in Nat, s \in Nat : g = frames[p].age /\ s = seq_num /\ g < NrngSeqMod
      BY <1>1, <1>3, <2>2, <2>3 DEF Final, NrngState
    <3>2. s + g = s \/ s + g = s + NrngSeqMod
      BY <1>1, <2>3, <3>1 DEF AgesTrue
    <3>. QED BY <3>1, <3>2
  <2>5. PICK j \in answered : p = At(BitIndex(slot_mask, j))
    BY <1>1, <2>3, <2>4 DEF HeardTrue
  <2>6. j \in slot_mask /\ BitIndex(slot_mask, j) \in CellSlots
    BY <1>1, <2>5, BitIndexes DEF HeardTrue, NrngState
  <2>7. i = j
    BY <1>1, <2>1, <2>2, <2>5, <2>6, Ats, BitIndexes DEF NrngState
  <2>. QED BY <1>1, <2>2, <2>4, <2>5, <2>7 DEF HeardTrue, Fresh
<1>. QED BY <1>2, <1>3 DEF RangesTrue

(* RangesTrue: the ranges survey_request reads with nrng_get_ranges are those *)
(* of the slots that answered this very request, for any ring at least as     *)
(* large as the cell.                                                         *)
THEOREM RangesRead == NrngSpec => []RangesTrue
<1>1. NrngInv => RangesTrue
  BY NrngInvRanges
<1>. QED BY <1>1, NrngInvInit, NrngInvNext, PTL DEF NrngSpec

-----------------------------------------------------------------------------
(* rtdoa: what the tag's ring holds                                           *)

Unit == [sem : Nat, caller : RtdoaCallers, radio : {"off", "request", "response", "rx"}]

RtdoaState ==
    /\ unit \in [Units -> Unit]
    /\ got \in [Units -> Entry]
    /\ code \in [Anchors -> {"invalid", "request", "response"}] /\ req \in [Anchors -> Seqs]
    /\ ring \in [Positions -> Entry] /\ ring_idx \in 0..IdxMod - 1
    /\ reqAt \in Positions \cup {NoReqFrame} /\ seqs \in Seqs /\ strays \in BOOLEAN

\* what anchors have in their hands
RadiosTrue ==
    /\ \A n \in Units : unit[n].radio = "request" => n = Requester
    /\ \A n \in Units : unit[n].caller = "start" => n = Requester
    /\ \A a \in Anchors : unit[a].radio = "response" => code[a] = "response"
    /\ \A a \in Anchors : code[a] = "request" => a = Requester
    /\ unit[Tag].radio # "response"
    /\ unit[Requester].caller = "start" => unit[Requester].radio \notin {"request", "response"}

Unsent == unit[Requester].caller = "start" \/ unit[Requester].radio = "request"

\* no sequence is ahead of the requests made, and nothing is of one not yet sent
SeqsTrue ==
    /\ \A n \in Units : got[n].seq <= seqs
    /\ \A a \in Anchors : req[a] <= seqs
    /\ \A p \in Positions : ring[p].seq <= seqs
    /\ Unsent =>
        /\ req[Requester] = seqs /\ code[Requester] = "request"
        /\ \A n \in Units : got[n] = Blank /\ unit[n].radio # "response"
        /\ \A p \in Positions : ring[p].seq < seqs

\* the tag never has what is of a request it is only about to hear
RequestNew ==
    got[Tag].code = "request" => \A p \in Positions : ring[p].seq < got[Tag].seq

\* anchors that have not responded to request s yet, but may
MayRespond(s) ==
    {a \in Anchors : \/ unit[a].radio = "response" /\ req[a] = s
                     \/ code[a] = "request" /\ req[a] = s
                     \/ got[a].code = "request" /\ got[a].seq = s}

\* entries stored since the request
Since == IF Last >= reqAt THEN Last - reqAt ELSE Last + TagFrames - reqAt

Arriving(s) == IF got[Tag].code = "response" /\ got[Tag].seq = s THEN 1 ELSE 0

\* Each anchor responds once: what has been stored since the request, and what may
\* still come, are no more than the anchors
RingRoom ==
    (~strays /\ reqAt # NoReqFrame) =>
        LET s == ring[reqAt].seq IN
        /\ ring[reqAt].code = "request" /\ \A p \in Positions : ring[p].seq <= s
        /\ Since + Arriving(s) + Cardinality(MayRespond(s)) <= Cardinality(Anchors)

RtdoaInv == RtdoaState /\ RadiosTrue /\ SeqsTrue /\ RequestNew /\ RingRoom

(* What the steps of a unit leave of it.                                      *)
LEMMA UnitSteps ==
    ASSUME NEW u \in Unit
    PROVE  /\ Off(u) \in Unit /\ Off(u).radio = "off" /\ Off(u).caller = u.caller
           /\ Freed(u) \in Unit /\ Freed(u).radio = u.radio /\ Freed(u).caller = u.caller
           /\ u.sem > 0 => /\ Take(u) \in Unit
                           /\ Take(u).radio = u.radio /\ Take(u).caller = u.caller
  BY DEF Off, Freed, Take, Unit

(* Anchors that may respond can be counted.                                   *)
LEMMA MayRespondCount ==
    ASSUME NEW S \in SUBSET Anchors, NEW T \in SUBSET S
    PROVE  /\ IsFiniteSet(S) /\ Cardinality(S) \in Nat /\ Cardinality(S) <= Cardinality(Anchors)
           /\ IsFiniteSet(T) /\ Cardinality(T) \in Nat /\ Cardinality(T) <= Cardinality(S)
<1>1. IsFiniteSet(Anchors)
  BY RtdoaConstants
<1>2. IsFiniteSet(S) /\ Cardinality(S) <= Cardinality(Anchors)
  BY <1>1, FS_Subset
<1>3. IsFiniteSet(T) /\ Cardinality(T) <= Cardinality(S)
  BY <1>2, FS_Subset
<1>. QED BY <1>2, <1>3, FS_CardinalityType

LEMMA LastAt == ASSUME RtdoaState PROVE Last \in Positions
<1>1. ring_idx \in Nat /\ TagFrames \in Nat \ {0}
  BY RtdoaConstants DEF RtdoaState
<1>. QED BY <1>1 DEF Last, Positions

(* No more room is needed if nobody may respond who might not before, nothing *)
(* more arrives but what one of them has sent, and the ring is left alone.    *)
LEMMA RoomKept ==
    ASSUME RtdoaState, RingRoom, UNCHANGED <<ring, ring_idx, reqAt, strays>>,
           \A s \in Seqs : (reqAt # NoReqFrame /\ s = ring[reqAt].seq) =>
               \/ MayRespond(s)' \subseteq MayRespond(s) /\ Arriving(s)' <= Arriving(s)
               \/ \E a \in MayRespond(s) :
                     MayRespond(s)' \subseteq MayRespond(s) \ {a} /\ Arriving(s) = 0
    PROVE  RingRoom'
<1>. SUFFICES ASSUME ~strays, reqAt # NoReqFrame PROVE RingRoom'
  BY DEF RingRoom
<1>. USE RtdoaConstants
<1>1. PICK s \in Seqs : s = ring[reqAt].seq
  BY DEF RtdoaState, Entry
<1>2. /\ ring[reqAt].code = "request" /\ \A p \in Positions : ring[p].seq <= s
      /\ Since + Arriving(s) + Cardinality(MayRespond(s)) <= Cardinality(Anchors)
  BY <1>1 DEF RingRoom
<1>3. Since' = Since /\ Since \in Int
  BY LastAt DEF Since, Last, RtdoaState, Positions
<1>4. MayRespond(s) \in SUBSET Anchors /\ Arriving(s) \in 0..1 /\ Arriving(s)' \in 0..1
  BY DEF MayRespond, Arriving
<1>5. /\ Cardinality(MayRespond(s)) \in Nat
      /\ Arriving(s)' + Cardinality(MayRespond(s)') <= Arriving(s) + Cardinality(MayRespond(s))
      /\ Cardinality(MayRespond(s)') \in Nat
  <2>1. CASE MayRespond(s)' \subseteq MayRespond(s) /\ Arriving(s)' <= Arriving(s)
    <3>1. /\ Cardinality(MayRespond(s)) \in Nat /\ Cardinality(MayRespond(s)') \in Nat
          /\ Cardinality(MayRespond(s)') <= Cardinality(MayRespond(s))
      BY <1>4, <2>1, MayRespondCount
    <3>. QED BY <1>4, <2>1, <3>1
  <2>2. ASSUME NEW a \in MayRespond(s), MayRespond(s)' \subseteq MayRespond(s) \ {a},
               Arriving(s) = 0
        PROVE  /\ Cardinality(MayRespond(s)) \in Nat
               /\ Arriving(s)' + Cardinality(MayRespond(s)') <= Arriving(s) + Cardinality(MayRespond(s))
               /\ Cardinality(MayRespond(s)') \in Nat
    <3>1. /\ IsFiniteSet(MayRespond(s)) /\ Cardinality(MayRespond(s)) \in Nat
          /\ MayRespond(s) \ {a} \in SUBSET Anchors
      BY <1>4, MayRespondCount
    <3>2. Cardinality(MayRespond(s) \ {a}) = Cardinality(MayRespond(s)) - 1
      BY <3>1, FS_RemoveElement
    <3>3. /\ Cardinality(MayRespond(s)') \in Nat
          /\ Cardinality(MayRespond(s)') <= Cardinality(MayRespond(s) \ {a})
      BY <2>2, <3>1, MayRespondCount
    <3>. QED BY <1>4, <2>2, <3>1, <3>2, <3>3
  <2>. QED BY <1>1, <2>1, <2>2
<1>6. Cardinality(Anchors) \in Nat
  BY FS_CardinalityType
<1>7. Since' + Arriving(s)' + Cardinality(MayRespond(s)') <= Cardinality(Anchors)
  BY <1>2, <1>3, <1>4, <1>5, <1>6
<1>. QED BY <1>1, <1>2, <1>7 DEF RingRoom, Arriving, MayRespond

LEMMA RtdoaInvInit == RtdoaInit => RtdoaInv
<1>. SUFFICES ASSUME RtdoaInit PROVE RtdoaInv
  OBVIOUS
<1>. USE RtdoaConstants DEF RtdoaInit
<1>1. RtdoaState
  <2>1. 0 \in Seqs /\ Blank \in Entry /\ TagFrames - 1 \in Positions /\ seqs \in Seqs
    <3>1. Cardinality(Anchors) \in Nat
      BY FS_CardinalityType
    <3>. QED BY <3>1 DEF Seqs, Blank, Entry, Positions
  <2>2. IdxMod - 1 \in 0..IdxMod - 1
    OBVIOUS
  <2>. QED BY <2>1, <2>2 DEF RtdoaState, Unit, RtdoaCallers, NoReqFrame, Positions
<1>2. RadiosTrue
  BY DEF RadiosTrue, Units
<1>3. SeqsTrue
  BY DEF SeqsTrue, Unsent, Blank, Units
<1>4. RequestNew /\ RingRoom
  BY DEF RequestNew, RingRoom, Blank, Units
<1>. QED BY <1>1, <1>2, <1>3, <1>4 DEF RtdoaInv

(* A step that hears and sends nothing new: radios stay, stop, or listen, a   *)
(* request starts, frames received are dropped.                               *)
LEMMA RtdoaQuiet ==
    ASSUME RtdoaInv, UNCHANGED <<anchorVars, tagVars>>,
           unit' \in [Units -> Unit], got' \in [Units -> Entry],
           \A n \in Units :
              /\ got'[n] \in {got[n], Blank}
              /\ unit'[n].caller = "start" => unit[n].caller = "start"
              /\ \/ unit'[n].radio \in {unit[n].radio, "off", "rx"}
                 \/ /\ unit[n].caller = "start" /\ unit'[n].caller # "start"
                    /\ unit'[n].radio = "request"
    PROVE  RtdoaInv'
<1>. USE RtdoaConstants DEF anchorVars, tagVars
<1>0. RtdoaState /\ RadiosTrue /\ SeqsTrue /\ RequestNew /\ RingRoom
  BY DEF RtdoaInv
<1>1. RtdoaState'
  BY <1>0 DEF RtdoaState
<1>2. Requester \in Units /\ Tag \in Units /\ \A a \in Anchors : a \in Units
  BY DEF Units
<1>3. RadiosTrue'
  BY <1>0, <1>2 DEF RadiosTrue
<1>4. SeqsTrue'
  <2>1. Unsent' => Unsent
    BY <1>0, <1>2 DEF Unsent, RadiosTrue
  <2>2. Blank.seq = 0 /\ seqs \in Nat
    BY <1>0 DEF Blank, RtdoaState, Seqs
  <2>3. \A n \in Units : got'[n].seq <= seqs
    BY <1>0, <2>2 DEF SeqsTrue
  <2>4. Unsent => \A n \in Units : got'[n] = Blank /\ unit'[n].radio # "response"
    BY <1>0 DEF SeqsTrue
  <2>. QED BY <1>0, <2>1, <2>3, <2>4 DEF SeqsTrue
<1>5. RequestNew'
  BY <1>0, <1>2 DEF RequestNew, Blank
<1>6. RingRoom'
  <2>1. ASSUME NEW s \in Seqs
        PROVE  MayRespond(s)' \subseteq MayRespond(s) /\ Arriving(s)' <= Arriving(s)
    BY <1>2 DEF MayRespond, Arriving, Blank
  <2>. QED BY <1>0, <2>1, RoomKept
<1>. QED BY <1>1, <1>3, <1>4, <1>5, <1>6 DEF RtdoaInv

(* A request is of a sequence of its own.                                     *)
LEMMA RtdoaRequestKeeps == RtdoaInv /\ RtdoaRequest => RtdoaInv'
<1>. SUFFICES ASSUME RtdoaInv, RtdoaRequest PROVE RtdoaInv'
  OBVIOUS
<1>. USE RtdoaConstants
<1>0. RtdoaState /\ RadiosTrue /\ SeqsTrue /\ RequestNew /\ RingRoom
  BY DEF RtdoaInv
<1>1. Requester \in Units /\ Tag \in Units /\ \A a \in Anchors : a \in Units
  BY DEF Units
<1>2. /\ unit[Requester].caller = "idle" /\ unit[Requester].sem > 0 /\ seqs < MaxSeqs
      /\ \A n \in Units : unit[n].radio \notin {"request", "response"} /\ got[n] = Blank
      /\ unit' = [unit EXCEPT ![Requester] = [Take(unit[Requester]) EXCEPT !.caller = "start"]]
      /\ seqs' = seqs + 1 /\ code' = [code EXCEPT ![Requester] = "request"]
      /\ req' = [req EXCEPT ![Requester] = seqs']
      /\ UNCHANGED <<got, ring, ring_idx, reqAt, strays>>
  BY DEF RtdoaRequest, Becomes, tagVars
<1>3. PICK k \in Nat : k = seqs /\ seqs' = k + 1 /\ k + 1 \in Seqs
  BY <1>0, <1>2 DEF RtdoaState, Seqs
<1>4. /\ [Take(unit[Requester]) EXCEPT !.caller = "start"] \in Unit
      /\ unit' \in [Units -> Unit] /\ unit'[Requester].radio = unit[Requester].radio
      /\ unit'[Requester].caller = "start"
      /\ \A n \in Units : n # Requester => unit'[n] = unit[n]
  <2>1. unit[Requester] \in Unit
    BY <1>0, <1>1 DEF RtdoaState
  <2>2. Take(unit[Requester]) \in Unit /\ Take(unit[Requester]).radio = unit[Requester].radio
    BY <1>2, <2>1, UnitSteps
  <2>3. /\ [Take(unit[Requester]) EXCEPT !.caller = "start"] \in Unit
        /\ [Take(unit[Requester]) EXCEPT !.caller = "start"].radio = unit[Requester].radio
        /\ [Take(unit[Requester]) EXCEPT !.caller = "start"].caller = "start"
    BY <2>2 DEF Unit, RtdoaCallers
  <2>. QED BY <1>0, <1>1, <1>2, <2>3 DEF RtdoaState
<1>5. /\ code'[Requester] = "request" /\ req'[Requester] = k + 1
      /\ \A a \in Anchors : a # Requester => code'[a] = code[a] /\ req'[a] = req[a]
  BY <1>0, <1>2, <1>3 DEF RtdoaState
<1>6. RtdoaState'
  BY <1>0, <1>2, <1>3, <1>4 DEF RtdoaState
<1>7. \A n \in Units : unit'[n].radio \notin {"request", "response"}
  BY <1>1, <1>2, <1>4
<1>8. RadiosTrue'
  BY <1>0, <1>1, <1>4, <1>5, <1>7 DEF RadiosTrue
<1>9. SeqsTrue'
  <2>1. \A n \in Units : got[n].seq \in Nat /\ got[n].seq <= k
    BY <1>0, <1>3 DEF SeqsTrue, RtdoaState, Entry, Seqs
  <2>2. \A a \in Anchors : req[a] \in Nat /\ req[a] <= k
    BY <1>0, <1>3 DEF SeqsTrue, RtdoaState, Seqs
  <2>3. \A p \in Positions : ring[p].seq \in Nat /\ ring[p].seq <= k
    BY <1>0, <1>3 DEF SeqsTrue, RtdoaState, Entry, Seqs
  <2>. QED BY <1>2, <1>3, <1>5, <1>7, <2>1, <2>2, <2>3 DEF SeqsTrue
<1>10. RequestNew'
  BY <1>0, <1>2 DEF RequestNew
<1>11. RingRoom'
  <2>1. ASSUME NEW s \in Seqs, reqAt # NoReqFrame, s = ring[reqAt].seq
        PROVE  MayRespond(s)' \subseteq MayRespond(s) /\ Arriving(s)' <= Arriving(s)
    <3>1. s \in Nat /\ s <= k
      BY <1>0, <1>3, <2>1 DEF SeqsTrue, RtdoaState, Seqs
    <3>2. Arriving(s)' = Arriving(s) /\ Arriving(s) \in Nat
      BY <1>2 DEF Arriving
    <3>3. \A a \in MayRespond(s)' : a \in MayRespond(s)
      BY <1>1, <1>2, <1>4, <1>5, <1>7, <3>1 DEF MayRespond, Blank
    <3>. QED BY <3>2, <3>3
  <2>. QED BY <1>0, <1>2, <2>1, RoomKept
<1>. QED BY <1>6, <1>8, <1>9, <1>10, <1>11 DEF RtdoaInv

(* What Responds leaves: one who responds had the request in hand.            *)
LEMMA RespondsLeaves ==
    ASSUME RtdoaState, NEW a \in Anchors, Responds(a)
    PROVE  /\ code' \in [Anchors -> {"invalid", "request", "response"}]
           /\ code'[a] = "response" /\ \A b \in Anchors : b # a => code'[b] = code[b]
           /\ unit' \in [Units -> Unit] /\ \A n \in Units : n # a => unit'[n] = unit[n]
           /\ unit'[a].caller = unit[a].caller /\ unit'[a].radio \in {"response", "off"}
<1>1. a \in Units /\ unit[a] \in Unit
  BY DEF RtdoaState, Units
<1>2. code' = [code EXCEPT ![a] = "response"]
  BY DEF Responds
<1>3. PICK u \in Unit : /\ unit' = [unit EXCEPT ![a] = u]
                        /\ u.caller = unit[a].caller /\ u.radio \in {"response", "off"}
  <2>1. CASE unit' = [unit EXCEPT ![a] = [unit[a] EXCEPT !.radio = "response"]]
    <3>1. /\ [unit[a] EXCEPT !.radio = "response"] \in Unit
          /\ [unit[a] EXCEPT !.radio = "response"].caller = unit[a].caller
          /\ [unit[a] EXCEPT !.radio = "response"].radio = "response"
      BY <1>1 DEF Unit
    <3>. QED BY <2>1, <3>1
  <2>2. CASE unit' = [unit EXCEPT ![a] = Freed(Off(unit[a]))]
    <3>1. Off(unit[a]) \in Unit /\ Off(unit[a]).radio = "off" /\ Off(unit[a]).caller = unit[a].caller
      BY <1>1, UnitSteps
    <3>2. /\ Freed(Off(unit[a])) \in Unit /\ Freed(Off(unit[a])).radio = "off"
          /\ Freed(Off(unit[a])).caller = unit[a].caller
      BY <3>1, UnitSteps
    <3>. QED BY <2>2, <3>2
  <2>. QED BY <2>1, <2>2 DEF Responds, Becomes
<1>. QED BY <1>1, <1>2, <1>3 DEF RtdoaState

(* The request goes out: those who receive it may respond to it, and the      *)
(* sequence is newer than all the tag has.                                    *)
LEMMA RequestOut ==
    ASSUME RtdoaInv, NEW a \in Anchors, NEW R \in SUBSET Units, RtdoaSent(a, R),
           unit[a].radio = "request"
    PROVE  RtdoaInv'
<1>. USE RtdoaConstants
<1>0. RtdoaState /\ RadiosTrue /\ SeqsTrue /\ RequestNew /\ RingRoom
  BY DEF RtdoaInv
<1>1. Requester \in Units /\ Tag \in Units /\ \A b \in Anchors : b \in Units
  BY DEF Units
<1>2. a = Requester /\ Unsent /\ code[a] = "request" /\ req[a] = seqs
  BY <1>0, <1>1 DEF RadiosTrue, Unsent, SeqsTrue
<1>3. /\ \A n \in Units : got[n] = Blank /\ unit[n].radio # "response"
      /\ \A p \in Positions : ring[p].seq < seqs
  BY <1>0, <1>2 DEF SeqsTrue
<1>4. Responds(a) /\ UNCHANGED <<req, seqs, ring, ring_idx, reqAt, strays>>
  BY <1>2 DEF RtdoaSent, RtdoaTxComplete, tagVars
<1>5. \A n \in Units : got'[n] \in {Blank, [code |-> "request", seq |-> seqs]}
  BY <1>2, <1>3 DEF RtdoaSent
<1>6. /\ code' \in [Anchors -> {"invalid", "request", "response"}]
      /\ code'[a] = "response" /\ \A b \in Anchors : b # a => code'[b] = code[b]
      /\ unit' \in [Units -> Unit] /\ \A n \in Units : n # a => unit'[n] = unit[n]
      /\ unit'[a].caller = unit[a].caller /\ unit'[a].radio \in {"response", "off"}
  BY <1>0, <1>4, RespondsLeaves
<1>7. RtdoaState'
  <2>1. Blank \in Entry /\ [code |-> "request", seq |-> seqs] \in Entry
    BY <1>0 DEF Blank, Entry, RtdoaState, Seqs
  <2>2. got' \in [Units -> Entry]
    <3>1. DOMAIN got' = Units /\ got' = [n \in Units |-> got'[n]]
      BY DEF RtdoaSent
    <3>. QED BY <1>5, <2>1, <3>1
  <2>. QED BY <1>0, <1>4, <1>6, <2>2 DEF RtdoaState
<1>8. RadiosTrue'
  BY <1>0, <1>1, <1>2, <1>6 DEF RadiosTrue
<1>9. SeqsTrue'
  <2>1. ~Unsent'
    BY <1>0, <1>1, <1>2, <1>6 DEF Unsent, RadiosTrue
  <2>2. seqs \in Nat /\ \A p \in Positions : ring[p].seq \in Nat
    BY <1>0 DEF RtdoaState, Seqs, Entry
  <2>. QED BY <1>0, <1>4, <1>5, <2>1, <2>2 DEF SeqsTrue, Blank
<1>10. RequestNew'
  BY <1>1, <1>3, <1>4, <1>5 DEF RequestNew, Blank
<1>11. RingRoom'
  <2>1. ASSUME NEW s \in Seqs, reqAt # NoReqFrame, s = ring[reqAt].seq
        PROVE  MayRespond(s)' \subseteq MayRespond(s) /\ Arriving(s)' <= Arriving(s)
    <3>1. s # seqs
      BY <1>0, <1>3, <2>1 DEF RtdoaState, Seqs
    <3>2. Arriving(s)' = 0 /\ Arriving(s) = 0
      BY <1>1, <1>3, <1>5 DEF Arriving, Blank
    <3>3. \A b \in MayRespond(s)' : b \in MayRespond(s)
      BY <1>1, <1>2, <1>4, <1>5, <1>6, <3>1 DEF MayRespond, Blank
    <3>. QED BY <3>2, <3>3
  <2>. QED BY <1>0, <1>4, <2>1, RoomKept
<1>. QED BY <1>7, <1>8, <1>9, <1>10, <1>11 DEF RtdoaInv

(* A response goes out: the anchor has none left to the same request.         *)
LEMMA ResponseOut ==
    ASSUME RtdoaInv, NEW a \in Anchors, NEW R \in SUBSET Units, RtdoaSent(a, R),
           unit[a].radio = "response"
    PROVE  RtdoaInv'
<1>. USE RtdoaConstants
<1>0. RtdoaState /\ RadiosTrue /\ SeqsTrue /\ RequestNew /\ RingRoom
  BY DEF RtdoaInv
<1>1. Requester \in Units /\ Tag \in Units /\ a \in Units /\ \A b \in Anchors : b \in Units
  BY DEF Units
<1>2. code[a] = "response" /\ ~Unsent
  BY <1>0, <1>1 DEF RadiosTrue, SeqsTrue
<1>3. \A n \in Units : got[n] = Blank
  BY DEF RtdoaSent
<1>4. /\ UNCHANGED <<code, req, seqs, ring, ring_idx, reqAt, strays>>
      /\ unit' = [unit EXCEPT ![a] = Freed(Off(unit[a]))]
  BY <1>2 DEF RtdoaSent, RtdoaTxComplete, tagVars, Becomes
<1>5. /\ \A n \in Units : got'[n] \in {Blank, [code |-> "response", seq |-> req[a]]}
      /\ got'[a] = Blank
  <2>1. got' = [n \in Units |-> IF n \in R THEN [code |-> "response", seq |-> req[a]] ELSE got[n]]
    BY DEF RtdoaSent
  <2>2. a \notin R
    BY DEF RtdoaSent, Receiving
  <2>. QED BY <1>1, <1>3, <2>1, <2>2
<1>6. /\ unit' \in [Units -> Unit] /\ \A n \in Units : n # a => unit'[n] = unit[n]
      /\ unit'[a].caller = unit[a].caller /\ unit'[a].radio = "off"
  <2>1. unit[a] \in Unit
    BY <1>0, <1>1 DEF RtdoaState
  <2>2. Off(unit[a]) \in Unit /\ Off(unit[a]).radio = "off" /\ Off(unit[a]).caller = unit[a].caller
    BY <2>1, UnitSteps
  <2>3. /\ Freed(Off(unit[a])) \in Unit /\ Freed(Off(unit[a])).radio = "off"
        /\ Freed(Off(unit[a])).caller = unit[a].caller
    BY <2>2, UnitSteps
  <2>. QED BY <1>0, <1>1, <1>4, <2>3 DEF RtdoaState
<1>7. RtdoaState'
  <2>1. Blank \in Entry /\ [code |-> "response", seq |-> req[a]] \in Entry
    BY <1>0 DEF Blank, Entry, RtdoaState, Seqs
  <2>2. got' \in [Units -> Entry]
    <3>1. got' = [n \in Units |-> got'[n]]
      BY DEF RtdoaSent
    <3>. QED BY <1>5, <2>1, <3>1
  <2>. QED BY <1>0, <1>4, <1>6, <2>2 DEF RtdoaState
<1>8. RadiosTrue'
  BY <1>0, <1>1, <1>4, <1>6 DEF RadiosTrue
<1>9. SeqsTrue'
  <2>1. ~Unsent'
    BY <1>1, <1>2, <1>6 DEF Unsent
  <2>2. seqs \in Nat
    BY <1>0 DEF RtdoaState, Seqs
  <2>. QED BY <1>0, <1>4, <1>5, <2>1, <2>2 DEF SeqsTrue, Blank
<1>10. RequestNew'
  BY <1>1, <1>5 DEF RequestNew, Blank
<1>11. RingRoom'
  <2>1. ASSUME NEW s \in Seqs
        PROVE  \/ MayRespond(s)' \subseteq MayRespond(s) /\ Arriving(s)' <= Arriving(s)
               \/ \E b \in MayRespond(s) :
                     MayRespond(s)' \subseteq MayRespond(s) \ {b} /\ Arriving(s) = 0
    <3>1. Arriving(s) = 0 /\ Arriving(s)' \in 0..1
      BY <1>1, <1>3 DEF Arriving, Blank
    <3>2. \A b \in MayRespond(s)' : b \in MayRespond(s) /\ b # a
      BY <1>1, <1>2, <1>4, <1>5, <1>6 DEF MayRespond, Blank
    <3>3. CASE req[a] = s
      BY <3>1, <3>2, <3>3 DEF MayRespond
    <3>4. CASE req[a] # s
      <4>1. Arriving(s)' = 0
        BY <1>1, <1>5, <3>4 DEF Arriving, Blank
      <4>. QED BY <3>1, <3>2, <4>1
    <3>. QED BY <3>3, <3>4
  <2>. QED BY <1>0, <1>4, <2>1, RoomKept
<1>. QED BY <1>7, <1>8, <1>9, <1>10, <1>11 DEF RtdoaInv

(* A frame of another service makes an anchor whose request failed respond to *)
(* itself, which is no more than it might have.                               *)
LEMMA OtherSentKeeps ==
    ASSUME RtdoaInv, NEW a \in Anchors, OtherSent(a)
    PROVE  RtdoaInv'
<1>. USE RtdoaConstants
<1>0. RtdoaState /\ RadiosTrue /\ SeqsTrue /\ RequestNew /\ RingRoom
  BY DEF RtdoaInv
<1>1. Requester \in Units /\ Tag \in Units /\ a \in Units /\ \A b \in Anchors : b \in Units
  BY DEF Units
<1>2. /\ unit[a].radio = "off" /\ unit[a].caller # "start"
      /\ UNCHANGED <<got, req, seqs, ring, ring_idx, reqAt, strays>>
  BY DEF OtherSent, tagVars
<1>3. CASE code[a] # "request"
  <2>1. unit' = [unit EXCEPT ![a] = Freed(Off(unit[a]))] /\ UNCHANGED code
    BY <1>3 DEF OtherSent, RtdoaTxComplete, Becomes
  <2>2. unit[a] \in Unit
    BY <1>0, <1>1 DEF RtdoaState
  <2>3. Off(unit[a]) \in Unit /\ Off(unit[a]).radio = "off" /\ Off(unit[a]).caller = unit[a].caller
    BY <2>2, UnitSteps
  <2>4. /\ Freed(Off(unit[a])) \in Unit /\ Freed(Off(unit[a])).radio = "off"
        /\ Freed(Off(unit[a])).caller = unit[a].caller
    BY <2>3, UnitSteps
  <2>5. /\ unit' \in [Units -> Unit] /\ got' \in [Units -> Entry]
        /\ \A n \in Units : unit'[n].caller = unit[n].caller /\ unit'[n].radio \in {unit[n].radio, "off"}
    BY <1>0, <1>1, <1>2, <2>1, <2>4 DEF RtdoaState
  <2>. QED BY <1>2, <2>1, <2>5, RtdoaQuiet DEF anchorVars, tagVars
<1>4. CASE code[a] = "request"
  <2>1. a = Requester /\ Responds(a)
    BY <1>0, <1>4 DEF RadiosTrue, OtherSent, RtdoaTxComplete
  <2>2. /\ code' \in [Anchors -> {"invalid", "request", "response"}]
        /\ code'[a] = "response" /\ \A b \in Anchors : b # a => code'[b] = code[b]
        /\ unit' \in [Units -> Unit] /\ \A n \in Units : n # a => unit'[n] = unit[n]
        /\ unit'[a].caller = unit[a].caller /\ unit'[a].radio \in {"response", "off"}
    BY <1>0, <2>1, RespondsLeaves
  <2>3. RtdoaState'
    BY <1>0, <1>2, <2>2 DEF RtdoaState
  <2>4. RadiosTrue'
    BY <1>0, <1>1, <1>2, <2>1, <2>2 DEF RadiosTrue
  <2>5. SeqsTrue'
    <3>1. ~Unsent'
      BY <1>1, <1>2, <2>1, <2>2 DEF Unsent
    <3>. QED BY <1>0, <1>2, <3>1 DEF SeqsTrue
  <2>6. RequestNew'
    BY <1>0, <1>2 DEF RequestNew
  <2>7. RingRoom'
    <3>1. ASSUME NEW s \in Seqs
          PROVE  MayRespond(s)' \subseteq MayRespond(s) /\ Arriving(s)' <= Arriving(s)
      <4>1. Arriving(s)' = Arriving(s) /\ Arriving(s) \in Nat
        BY <1>2 DEF Arriving
      <4>2. \A b \in MayRespond(s)' : b \in MayRespond(s)
        BY <1>1, <1>2, <1>4, <2>2 DEF MayRespond
      <4>. QED BY <4>1, <4>2
    <3>. QED BY <1>0, <1>2, <3>1, RoomKept
  <2>. QED BY <2>3, <2>4, <2>5, <2>6, <2>7 DEF RtdoaInv
<1>. QED BY <1>3, <1>4

(* An anchor hears the request: its response takes the place of its hearing.  *)
LEMMA AnchorHearsKeeps ==
    ASSUME RtdoaInv, NEW a \in Anchors, AnchorHears(a)
    PROVE  RtdoaInv'
<1>. USE RtdoaConstants
<1>0. RtdoaState /\ RadiosTrue /\ SeqsTrue /\ RequestNew /\ RingRoom
  BY DEF RtdoaInv
<1>1. Requester \in Units /\ Tag \in Units /\ a \in Units /\ a # Tag /\ \A b \in Anchors : b \in Units
  BY DEF Units
<1>2. /\ got[a].code = "request" /\ got' = [got EXCEPT ![a] = Blank]
      /\ req' = [req EXCEPT ![a] = got[a].seq] /\ Responds(a)
      /\ UNCHANGED <<seqs, ring, ring_idx, reqAt, strays>>
  BY DEF AnchorHears, Handled, tagVars
<1>3. ~Unsent
  BY <1>0, <1>1, <1>2 DEF SeqsTrue, Blank
<1>4. /\ code' \in [Anchors -> {"invalid", "request", "response"}]
      /\ code'[a] = "response" /\ \A b \in Anchors : b # a => code'[b] = code[b]
      /\ unit' \in [Units -> Unit] /\ \A n \in Units : n # a => unit'[n] = unit[n]
      /\ unit'[a].caller = unit[a].caller /\ unit'[a].radio \in {"response", "off"}
  BY <1>0, <1>2, RespondsLeaves
<1>5. /\ Blank \in Entry /\ got' \in [Units -> Entry] /\ got'[a] = Blank
      /\ \A n \in Units : n # a => got'[n] = got[n]
      /\ got[a].seq \in Seqs /\ req' \in [Anchors -> Seqs] /\ req'[a] = got[a].seq
      /\ \A b \in Anchors : b # a => req'[b] = req[b]
  BY <1>0, <1>1, <1>2 DEF RtdoaState, Entry, Blank, Seqs
<1>6. RtdoaState'
  BY <1>0, <1>2, <1>4, <1>5 DEF RtdoaState
<1>7. RadiosTrue'
  BY <1>0, <1>1, <1>3, <1>4 DEF RadiosTrue, Unsent
<1>8. SeqsTrue'
  <2>1. ~Unsent'
    BY <1>1, <1>3, <1>4 DEF Unsent
  <2>2. seqs \in Nat /\ Blank.seq = 0
    BY <1>0 DEF RtdoaState, Seqs, Blank
  <2>. QED BY <1>0, <1>1, <1>2, <1>5, <2>1, <2>2 DEF SeqsTrue
<1>9. RequestNew'
  BY <1>0, <1>1, <1>2, <1>5 DEF RequestNew
<1>10. RingRoom'
  <2>1. ASSUME NEW s \in Seqs
        PROVE  MayRespond(s)' \subseteq MayRespond(s) /\ Arriving(s)' <= Arriving(s)
    <3>1. Arriving(s)' = Arriving(s) /\ Arriving(s) \in Nat
      BY <1>1, <1>5 DEF Arriving
    <3>2. \A b \in MayRespond(s)' : b \in MayRespond(s)
      BY <1>1, <1>2, <1>4, <1>5 DEF MayRespond, Blank
    <3>. QED BY <3>1, <3>2
  <2>. QED BY <1>0, <1>2, <2>1, RoomKept
<1>. QED BY <1>6, <1>7, <1>8, <1>9, <1>10 DEF RtdoaInv

(* Where a frame goes: after the last one, also when idx comes round.         *)
NextAt == IF Last = TagFrames - 1 THEN 0 ELSE Last + 1

(* The remainder of a multiple of n and something less than n.                *)
LEMMA ModSum ==
    ASSUME NEW n \in Nat \ {0}, NEW k \in Int, NEW c \in Nat, c < n
    PROVE  (n * k + c) % n = c
OBVIOUS

(* The remainder of the number after x.                                       *)
LEMMA ModNext ==
    ASSUME NEW n \in Nat \ {0}, NEW x \in Nat
    PROVE  (x + 1) % n = IF x % n = n - 1 THEN 0 ELSE (x % n) + 1
<1>1. PICK q \in Int, r \in Nat : q = x \div n /\ r = x % n /\ r < n /\ x = n * q + r
  OBVIOUS
<1>2. CASE r = n - 1
  <2>1. PICK k \in Int : x + 1 = n * k + 0
    <3>1. x + 1 = n * (q + 1) + 0 /\ q + 1 \in Int
      BY <1>1, <1>2
    <3>. QED BY <3>1
  <2>2. (n * k + 0) % n = 0
    BY ModSum
  <2>. QED BY <1>1, <1>2, <2>1, <2>2
<1>3. CASE r # n - 1
  <2>1. x + 1 = n * q + (r + 1) /\ r + 1 < n /\ r + 1 \in Nat
    BY <1>1, <1>3
  <2>2. (n * q + (r + 1)) % n = r + 1
    BY <1>1, <2>1, ModSum
  <2>. QED BY <1>1, <1>3, <2>1, <2>2
<1>. QED BY <1>2, <1>3

LEMMA NextStored ==
    ASSUME RingWhole, RtdoaState, ring_idx' = (ring_idx + 1) % IdxMod
    PROVE  Last' \in Positions /\ Last' = NextAt /\ ring_idx' \in 0..IdxMod - 1
<1>. USE RtdoaConstants
<1>1. PICK t \in Nat \ {0} : t = TagFrames
  OBVIOUS
<1>2. PICK x \in Nat : x = ring_idx /\ x < IdxMod
  BY DEF RtdoaState
<1>3. ring_idx' = IF x + 1 = IdxMod THEN 0 ELSE x + 1
  <2>1. PICK y \in Nat : y = x + 1 /\ y < 2 * IdxMod /\ y <= IdxMod
    BY <1>2
  <2>2. y % IdxMod = IF y < IdxMod THEN y ELSE y - IdxMod
    BY <2>1, ModOnce
  <2>. QED BY <1>2, <2>1, <2>2
<1>4. (x + 1) % t = IF x % t = t - 1 THEN 0 ELSE (x % t) + 1
  BY <1>1, <1>2, ModNext
<1>5. IdxMod % t = 0 /\ 0 % t = 0
  BY <1>1 DEF RingWhole
<1>6. ring_idx' % t = (x + 1) % t
  BY <1>3, <1>5
<1>7. Last = x % t /\ Last' = ring_idx' % t
  BY <1>1, <1>2 DEF Last
<1>8. x % t \in Nat /\ x % t < t
  BY <1>1, <1>2
<1>. QED BY <1>1, <1>2, <1>3, <1>4, <1>6, <1>7, <1>8 DEF NextAt, Positions

(* The request heard is newer than all else in the ring, and nobody has       *)
(* responded to it in the ring.                                               *)
LEMMA TagHearsRequestKeeps == RingWhole /\ RtdoaInv /\ TagHearsRequest => RtdoaInv'
<1>. SUFFICES ASSUME RingWhole, RtdoaInv, TagHearsRequest PROVE RtdoaInv'
  OBVIOUS
<1>. USE RtdoaConstants
<1>0. RtdoaState /\ RadiosTrue /\ SeqsTrue /\ RequestNew
  BY DEF RtdoaInv
<1>1. Requester \in Units /\ Tag \in Units /\ \A b \in Anchors : b \in Units /\ b # Tag
  BY DEF Units
<1>2. /\ got[Tag].code = "request" /\ got' = [got EXCEPT ![Tag] = Blank]
      /\ ring' = [ring EXCEPT ![Last'] = got[Tag]] /\ ring_idx' = (ring_idx + 1) % IdxMod
      /\ reqAt' = Last' /\ strays' = FALSE /\ UNCHANGED <<code, req, seqs>>
  BY DEF TagHearsRequest, Handled, Stored, anchorVars
<1>3. /\ unit' \in [Units -> Unit] /\ \A n \in Units : n # Tag => unit'[n] = unit[n]
      /\ unit'[Tag].caller = unit[Tag].caller /\ unit'[Tag].radio \in {unit[Tag].radio, "off"}
  <2>1. CASE UNCHANGED unit
    BY <1>0, <2>1 DEF RtdoaState
  <2>2. CASE unit' = [unit EXCEPT ![Tag] = [Off(unit[Tag]) EXCEPT !.sem = @ + 1]]
    <3>1. unit[Tag] \in Unit
      BY <1>0, <1>1 DEF RtdoaState
    <3>2. Off(unit[Tag]) \in Unit /\ Off(unit[Tag]).radio = "off" /\ Off(unit[Tag]).caller = unit[Tag].caller
      BY <3>1, UnitSteps
    <3>3. PICK u \in Unit : u = Off(unit[Tag]) /\ u.radio = "off" /\ u.caller = unit[Tag].caller
      BY <3>2
    <3>4. /\ [u EXCEPT !.sem = @ + 1] \in Unit /\ [u EXCEPT !.sem = @ + 1].radio = "off"
          /\ [u EXCEPT !.sem = @ + 1].caller = unit[Tag].caller
      BY <3>3 DEF Unit
    <3>. QED BY <1>0, <1>1, <2>2, <3>3, <3>4 DEF RtdoaState
  <2>. QED BY <2>1, <2>2 DEF TagHearsRequest, Becomes
<1>4. PICK p \in Positions : p = Last' /\ p = NextAt /\ ring_idx' \in 0..IdxMod - 1
  BY <1>0, <1>2, NextStored
<1>5. PICK f \in Entry : f = got[Tag] /\ f.code = "request" /\ f.seq \in Nat /\ f.seq <= seqs
  BY <1>0, <1>1, <1>2 DEF RtdoaState, SeqsTrue, Entry, Seqs
<1>6. /\ ring' \in [Positions -> Entry] /\ ring'[p] = f
      /\ \A q \in Positions : q # p => ring'[q] = ring[q]
      /\ Blank \in Entry /\ got' \in [Units -> Entry] /\ got'[Tag] = Blank
      /\ \A n \in Units : n # Tag => got'[n] = got[n]
  <2>1. Blank \in Entry
    BY <1>0 DEF Blank, Entry, RtdoaState, Seqs
  <2>. QED BY <1>0, <1>1, <1>2, <1>4, <1>5, <2>1 DEF RtdoaState
<1>7. RtdoaState'
  BY <1>0, <1>2, <1>3, <1>4, <1>6 DEF RtdoaState
<1>8. RadiosTrue'
  BY <1>0, <1>1, <1>2, <1>3 DEF RadiosTrue
<1>9. SeqsTrue'
  <2>1. ~Unsent
    BY <1>0, <1>1, <1>2 DEF SeqsTrue, Blank
  <2>2. ~Unsent'
    BY <1>1, <1>3, <2>1 DEF Unsent
  <2>3. seqs \in Nat /\ Blank.seq = 0
    BY <1>0 DEF RtdoaState, Seqs, Blank
  <2>. QED BY <1>0, <1>2, <1>5, <1>6, <2>2, <2>3 DEF SeqsTrue
<1>10. RequestNew'
  BY <1>1, <1>6 DEF RequestNew, Blank
<1>11. RingRoom'
  <2>1. \A q \in Positions : ring'[q].seq <= f.seq
    <3>1. \A q \in Positions : ring[q].seq < f.seq /\ ring[q].seq \in Nat
      BY <1>0, <1>5 DEF RequestNew, RtdoaState, Entry, Seqs
    <3>. QED BY <1>5, <1>6, <3>1
  <2>2. Since' = 0
    BY <1>2, <1>4 DEF Since, Positions
  <2>3. Arriving(f.seq)' = 0
    BY <1>6 DEF Arriving, Blank
  <2>4. MayRespond(f.seq)' \in SUBSET Anchors
    BY DEF MayRespond
  <2>5. /\ Cardinality(MayRespond(f.seq)') \in Nat
        /\ Cardinality(MayRespond(f.seq)') <= Cardinality(Anchors)
    BY <2>4, MayRespondCount
  <2>6. Since' + Arriving(f.seq)' + Cardinality(MayRespond(f.seq)') <= Cardinality(Anchors)
    BY <2>2, <2>3, <2>5
  <2>. QED BY <1>2, <1>4, <1>5, <1>6, <2>1, <2>6 DEF RingRoom, Arriving, MayRespond
<1>. QED BY <1>7, <1>8, <1>9, <1>10, <1>11 DEF RtdoaInv

(* A response stored is not put over the request it answers.                  *)
LEMMA TagHearsResponseKeeps == RingWhole /\ RtdoaInv /\ TagHearsResponse => RtdoaInv'
<1>. SUFFICES ASSUME RingWhole, RtdoaInv, TagHearsResponse PROVE RtdoaInv'
  OBVIOUS
<1>. USE RtdoaConstants
<1>0. RtdoaState /\ RadiosTrue /\ SeqsTrue /\ RequestNew /\ RingRoom
  BY DEF RtdoaInv
<1>1. Requester \in Units /\ Tag \in Units /\ \A b \in Anchors : b \in Units /\ b # Tag
  BY DEF Units
<1>2. /\ got[Tag].code = "response" /\ got' = [got EXCEPT ![Tag] = Blank]
      /\ ring' = [ring EXCEPT ![Last'] = got[Tag]] /\ ring_idx' = (ring_idx + 1) % IdxMod
      /\ strays' = (strays \/ got[Tag].seq # LastHeard)
      /\ UNCHANGED <<unit, reqAt, code, req, seqs>>
  BY DEF TagHearsResponse, Handled, Stored, anchorVars
<1>4. PICK p \in Positions : p = Last' /\ p = NextAt /\ ring_idx' \in 0..IdxMod - 1
  BY <1>0, <1>2, NextStored
<1>5. PICK f \in Entry : f = got[Tag] /\ f.code = "response" /\ f.seq \in Nat /\ f.seq <= seqs
  BY <1>0, <1>1, <1>2 DEF RtdoaState, SeqsTrue, Entry, Seqs
<1>6. /\ ring' \in [Positions -> Entry] /\ ring'[p] = f
      /\ \A q \in Positions : q # p => ring'[q] = ring[q]
      /\ Blank \in Entry /\ got' \in [Units -> Entry] /\ got'[Tag] = Blank
      /\ \A n \in Units : n # Tag => got'[n] = got[n]
  <2>1. Blank \in Entry
    BY <1>0 DEF Blank, Entry, RtdoaState, Seqs
  <2>. QED BY <1>0, <1>1, <1>2, <1>4, <1>5, <2>1 DEF RtdoaState
<1>7. RtdoaState'
  BY <1>0, <1>2, <1>4, <1>6 DEF RtdoaState
<1>8. RadiosTrue'
  BY <1>0, <1>2 DEF RadiosTrue
<1>9. SeqsTrue'
  <2>1. ~Unsent
    BY <1>0, <1>1, <1>2 DEF SeqsTrue, Blank
  <2>2. ~Unsent'
    BY <1>2, <2>1 DEF Unsent
  <2>3. seqs \in Nat /\ Blank.seq = 0
    BY <1>0 DEF RtdoaState, Seqs, Blank
  <2>. QED BY <1>0, <1>2, <1>5, <1>6, <2>2, <2>3 DEF SeqsTrue
<1>10. RequestNew'
  BY <1>1, <1>6 DEF RequestNew, Blank
<1>11. RingRoom'
  <2>. SUFFICES ASSUME ~strays', reqAt # NoReqFrame PROVE RingRoom'
    BY <1>2 DEF RingRoom
  <2>1. ~strays /\ f.seq = ring[reqAt].seq /\ reqAt \in Positions
    BY <1>0, <1>2, <1>5 DEF LastHeard, RtdoaState
  <2>2. PICK s \in Seqs : s = f.seq
    BY <1>5 DEF Entry
  <2>3. /\ ring[reqAt].code = "request" /\ \A q \in Positions : ring[q].seq <= s
        /\ Since + 1 + Cardinality(MayRespond(s)) <= Cardinality(Anchors)
    <3>1. Arriving(s) = 1
      BY <1>5, <2>2 DEF Arriving
    <3>2. s = ring[reqAt].seq
      BY <2>1, <2>2
    <3>. QED BY <2>1, <3>1, <3>2, <1>0 DEF RingRoom
  <2>4. MayRespond(s)' = MayRespond(s)
    BY <1>1, <1>2, <1>6 DEF MayRespond
  <2>5. Cardinality(MayRespond(s)) \in Nat /\ Cardinality(Anchors) \in Nat
    <3>1. MayRespond(s) \in SUBSET Anchors
      BY DEF MayRespond
    <3>. QED BY <3>1, MayRespondCount, FS_CardinalityType
  <2>6. /\ p = IF Last = TagFrames - 1 THEN 0 ELSE Last + 1
        /\ Last \in 0..TagFrames - 1 /\ reqAt \in 0..TagFrames - 1
    BY <1>0, <1>4, <2>1, LastAt DEF RtdoaState, Positions, NextAt
  <2>7. Since + 2 < TagFrames /\ Since = IF Last >= reqAt THEN Last - reqAt ELSE Last + TagFrames - reqAt
    BY <2>3, <2>5, <2>6 DEF Since
  <2>8. p # reqAt /\ Since' = Since + 1
    <3>1. Since' = IF p >= reqAt THEN p - reqAt ELSE p + TagFrames - reqAt
      BY <1>2, <1>4 DEF Since
    <3>. QED BY <2>6, <2>7, <3>1
  <2>9. Arriving(s)' = 0 /\ Since \in Int
    BY <1>6, <2>6, <2>7 DEF Arriving, Blank
  <2>10. Since' + Arriving(s)' + Cardinality(MayRespond(s)') <= Cardinality(Anchors)
    BY <2>3, <2>4, <2>5, <2>8, <2>9
  <2>11. /\ ring'[reqAt] = ring[reqAt] /\ ring[reqAt].seq = s
         /\ \A q \in Positions : ring'[q].seq <= s
    BY <1>5, <1>6, <2>1, <2>2, <2>3, <2>8
  <2>. QED BY <1>2, <2>3, <2>10, <2>11 DEF RingRoom, Arriving, MayRespond
<1>. QED BY <1>7, <1>8, <1>9, <1>10, <1>11 DEF RtdoaInv

(* A response that has been used keeps its place.                             *)
LEMMA BetweenKeeps ==
    ASSUME RtdoaInv, NEW p \in Positions, Between(p)
    PROVE  RtdoaInv'
<1>. USE RtdoaConstants
<1>0. RtdoaState /\ RadiosTrue /\ SeqsTrue /\ RequestNew /\ RingRoom
  BY DEF RtdoaInv
<1>1. /\ ring[p].code = "response" /\ ring' = [ring EXCEPT ![p].code = "invalid"]
      /\ UNCHANGED <<unit, got, code, req, seqs, ring_idx, reqAt, strays>>
  BY DEF Between, anchorVars
<1>2. /\ ring' \in [Positions -> Entry]
      /\ \A q \in Positions : ring'[q].seq = ring[q].seq /\ (q # p => ring'[q] = ring[q])
  BY <1>0, <1>1 DEF RtdoaState, Entry
<1>3. RtdoaState'
  BY <1>0, <1>1, <1>2 DEF RtdoaState
<1>4. RadiosTrue'
  BY <1>0, <1>1 DEF RadiosTrue
<1>5. SeqsTrue'
  BY <1>0, <1>1, <1>2 DEF SeqsTrue, Unsent
<1>6. RequestNew'
  BY <1>0, <1>1, <1>2 DEF RequestNew
<1>7. RingRoom'
  <2>. SUFFICES ASSUME ~strays, reqAt # NoReqFrame PROVE RingRoom'
    BY <1>1 DEF RingRoom
  <2>1. reqAt \in Positions /\ ring[reqAt].code = "request" /\ reqAt # p
    BY <1>0, <1>1 DEF RtdoaState, RingRoom
  <2>. QED BY <1>0, <1>1, <1>2, <2>1 DEF RingRoom, Since, Last, Arriving, MayRespond
<1>. QED BY <1>3, <1>4, <1>5, <1>6, <1>7 DEF RtdoaInv

(* Steps that neither hear nor send anything new.                             *)
LEMMA RtdoaQuietSteps ==
    ASSUME RtdoaInv,
           \/ RequestStart
           \/ \E n \in Units :
                \/ \E b \in BOOLEAN : RtdoaListen(n, b)
                \/ RtdoaWoken(n) \/ RtdoaRelease(n)
                \/ HearsNothing(n) \/ RtdoaRxEnds(n) \/ RtdoaRxErrorElse(n) \/ RtdoaReset(n)
    PROVE  RtdoaInv'
<1>. USE RtdoaConstants
<1>0. RtdoaState
  BY DEF RtdoaInv
<1>1. Requester \in Units /\ Blank \in Entry
  BY <1>0 DEF Units, Blank, Entry, RtdoaState, Seqs
<1>2. ASSUME NEW n \in Units, NEW u \in Unit, unit' = [unit EXCEPT ![n] = u],
             UNCHANGED <<anchorVars, tagVars>>,
             got' = got \/ got' = [got EXCEPT ![n] = Blank],
             u.caller = "start" => unit[n].caller = "start",
             \/ u.radio \in {unit[n].radio, "off", "rx"}
             \/ unit[n].caller = "start" /\ u.caller # "start" /\ u.radio = "request"
      PROVE  RtdoaInv'
  <2>1. /\ unit' \in [Units -> Unit] /\ got' \in [Units -> Entry]
        /\ unit'[n] = u /\ \A m \in Units : m # n => unit'[m] = unit[m]
        /\ \A m \in Units : got'[m] \in {got[m], Blank}
    BY <1>0, <1>1, <1>2 DEF RtdoaState
  <2>. QED BY <1>2, <2>1, RtdoaQuiet
<1>3. CASE RequestStart
  <2>1. unit[Requester] \in Unit /\ unit[Requester].caller = "start"
        /\ UNCHANGED <<got, anchorVars, tagVars>>
    BY <1>0, <1>1, <1>3 DEF RtdoaState, RequestStart
  <2>2. CASE unit' = [unit EXCEPT ![Requester] =
                        [unit[Requester] EXCEPT !.caller = "sending", !.radio = "request"]]
    <3>1. PICK v \in Unit : v = unit[Requester]
      BY <2>1
    <3>2. /\ [v EXCEPT !.caller = "sending", !.radio = "request"] \in Unit
          /\ [v EXCEPT !.caller = "sending", !.radio = "request"].caller = "sending"
          /\ [v EXCEPT !.caller = "sending", !.radio = "request"].radio = "request"
      BY DEF Unit, RtdoaCallers
    <3>. QED BY <1>1, <1>2, <2>1, <2>2, <3>1, <3>2
  <2>3. CASE unit' = [unit EXCEPT ![Requester] = [Off(unit[Requester]) EXCEPT
                        !.caller = IF unit[Requester].sem = 0 THEN "error" ELSE "idle"]]
    <3>1. Off(unit[Requester]) \in Unit /\ Off(unit[Requester]).radio = "off"
      BY <2>1, UnitSteps
    <3>2. PICK v \in Unit, k \in {"error", "idle"} :
            /\ v = Off(unit[Requester]) /\ v.radio = "off"
            /\ k = IF unit[Requester].sem = 0 THEN "error" ELSE "idle"
      BY <3>1
    <3>3. /\ [v EXCEPT !.caller = k] \in Unit /\ [v EXCEPT !.caller = k].caller # "start"
          /\ [v EXCEPT !.caller = k].radio = "off"
      BY <3>2 DEF Unit, RtdoaCallers
    <3>. QED BY <1>1, <1>2, <2>1, <2>3, <3>2, <3>3
  <2>. QED BY <1>3, <2>2, <2>3 DEF RequestStart, Becomes
<1>4. ASSUME NEW n \in Units, \E b \in BOOLEAN : RtdoaListen(n, b) PROVE RtdoaInv'
  <2>0. PICK b \in BOOLEAN : RtdoaListen(n, b)
    BY <1>4
  <2>1. /\ unit[n] \in Unit /\ unit[n].sem > 0 /\ UNCHANGED <<got, anchorVars, tagVars>>
    BY <1>0, <2>0 DEF RtdoaState, RtdoaListen
  <2>2. PICK k \in {"listening", "idle", "failed", "error"} :
          \/ unit' = [unit EXCEPT ![n] = [Take(unit[n]) EXCEPT !.radio = "rx", !.caller = k]]
          \/ unit' = [unit EXCEPT ![n] = [Take(Off(unit[n])) EXCEPT !.caller = k]]
    BY <2>0 DEF RtdoaListen, Becomes
  <2>3. /\ Take(unit[n]) \in Unit /\ Off(unit[n]) \in Unit /\ Off(unit[n]).sem > 0
        /\ Off(unit[n]).radio = "off"
    BY <2>1, UnitSteps DEF Off, Unit
  <2>4. Take(Off(unit[n])) \in Unit /\ Take(Off(unit[n])).radio = "off"
    BY <2>3, UnitSteps
  <2>5. PICK v \in Unit, w \in Unit : v = Take(unit[n]) /\ w = Take(Off(unit[n])) /\ w.radio = "off"
    BY <2>3, <2>4
  <2>6. /\ [v EXCEPT !.radio = "rx", !.caller = k] \in Unit
        /\ [v EXCEPT !.radio = "rx", !.caller = k].caller # "start"
        /\ [v EXCEPT !.radio = "rx", !.caller = k].radio = "rx"
    BY <2>2, <2>5 DEF Unit, RtdoaCallers
  <2>7. /\ [w EXCEPT !.caller = k] \in Unit /\ [w EXCEPT !.caller = k].caller # "start"
        /\ [w EXCEPT !.caller = k].radio = "off"
    BY <2>2, <2>5 DEF Unit, RtdoaCallers
  <2>. QED BY <1>2, <2>1, <2>2, <2>5, <2>6, <2>7
<1>5. ASSUME NEW n \in Units, RtdoaWoken(n) \/ RtdoaRelease(n) PROVE RtdoaInv'
  <2>1. unit[n] \in Unit /\ UNCHANGED <<got, anchorVars, tagVars>>
    BY <1>0, <1>5 DEF RtdoaState, RtdoaWoken, RtdoaRelease
  <2>2. CASE RtdoaWoken(n)
    <3>1. unit[n].sem > 0 /\ unit' = [unit EXCEPT ![n] = [Take(unit[n]) EXCEPT !.caller = "release"]]
      BY <2>2 DEF RtdoaWoken, Becomes
    <3>2. Take(unit[n]) \in Unit /\ Take(unit[n]).radio = unit[n].radio
      BY <2>1, <3>1, UnitSteps
    <3>3. PICK v \in Unit : v = Take(unit[n]) /\ v.radio = unit[n].radio
      BY <3>2
    <3>4. /\ [v EXCEPT !.caller = "release"] \in Unit
          /\ [v EXCEPT !.caller = "release"].caller = "release"
          /\ [v EXCEPT !.caller = "release"].radio = unit[n].radio
      BY <3>3 DEF Unit, RtdoaCallers
    <3>. QED BY <1>2, <2>1, <3>1, <3>3, <3>4
  <2>3. CASE RtdoaRelease(n)
    <3>1. /\ unit' = [unit EXCEPT ![n] = [unit[n] EXCEPT !.sem = @ + 1,
                         !.caller = IF @ = "failed" THEN "listening" ELSE "idle"]]
      BY <2>3 DEF RtdoaRelease, Becomes
    <3>2. PICK v \in Unit, k \in {"listening", "idle"}, c \in Nat :
            /\ v = unit[n] /\ k = IF v.caller = "failed" THEN "listening" ELSE "idle"
            /\ c = v.sem + 1
      BY <2>1 DEF Unit
    <3>3. /\ [v EXCEPT !.sem = c, !.caller = k] \in Unit
          /\ [v EXCEPT !.sem = c, !.caller = k].caller # "start"
          /\ [v EXCEPT !.sem = c, !.caller = k].radio = v.radio
      BY <3>2 DEF Unit, RtdoaCallers
    <3>. QED BY <1>2, <2>1, <3>1, <3>2, <3>3
  <2>. QED BY <1>5, <2>2, <2>3
<1>6. ASSUME NEW n \in Units, HearsNothing(n) PROVE RtdoaInv'
  <2>1. /\ unit' = unit /\ got' = [got EXCEPT ![n] = Blank] /\ UNCHANGED <<anchorVars, tagVars>>
    BY <1>6 DEF HearsNothing, Handled
  <2>2. /\ got' \in [Units -> Entry] /\ unit' \in [Units -> Unit]
        /\ \A m \in Units : got'[m] \in {got[m], Blank}
    BY <1>0, <1>1, <2>1 DEF RtdoaState
  <2>. QED BY <2>1, <2>2, RtdoaQuiet
<1>7. ASSUME NEW n \in Units, RtdoaRxEnds(n) \/ RtdoaRxErrorElse(n) \/ RtdoaReset(n) PROVE RtdoaInv'
  <2>1. /\ unit[n] \in Unit
        /\ got' = got \/ got' = [got EXCEPT ![n] = Blank]
        /\ UNCHANGED <<anchorVars, tagVars>>
        /\ \/ unit' = [unit EXCEPT ![n] = Freed(Off(unit[n]))]
           \/ unit' = [unit EXCEPT ![n] = Off(unit[n])]
    BY <1>0, <1>7 DEF RtdoaState, RtdoaRxEnds, RtdoaRxErrorElse, RtdoaReset, Becomes
  <2>2. Off(unit[n]) \in Unit /\ Off(unit[n]).radio = "off" /\ Off(unit[n]).caller = unit[n].caller
    BY <2>1, UnitSteps
  <2>3. /\ Freed(Off(unit[n])) \in Unit /\ Freed(Off(unit[n])).radio = "off"
        /\ Freed(Off(unit[n])).caller = unit[n].caller
    BY <2>2, UnitSteps
  <2>. QED BY <1>2, <2>1, <2>2, <2>3
<1>. QED BY <1>3, <1>4, <1>5, <1>6, <1>7

LEMMA RtdoaInvNext == RingWhole /\ RtdoaInv /\ [RtdoaNext]_rtdoaVars => RtdoaInv'
<1>. SUFFICES ASSUME RingWhole, RtdoaInv, [RtdoaNext]_rtdoaVars PROVE RtdoaInv'
  OBVIOUS
<1>1. CASE RtdoaRequest
  BY <1>1, RtdoaRequestKeeps
<1>2. CASE \/ RequestStart
           \/ \E n \in Units :
                \/ \E b \in BOOLEAN : RtdoaListen(n, b)
                \/ RtdoaWoken(n) \/ RtdoaRelease(n)
                \/ HearsNothing(n) \/ RtdoaRxEnds(n) \/ RtdoaRxErrorElse(n) \/ RtdoaReset(n)
  BY <1>2, RtdoaQuietSteps
<1>3. ASSUME NEW a \in Anchors, NEW R \in SUBSET Units, RtdoaSent(a, R) PROVE RtdoaInv'
  <2>1. unit[a].radio \in {"request", "response"}
    BY <1>3 DEF RtdoaSent
  <2>. QED BY <1>3, <2>1, RequestOut, ResponseOut
<1>4. ASSUME NEW a \in Anchors, OtherSent(a) \/ AnchorHears(a) PROVE RtdoaInv'
  BY <1>4, OtherSentKeeps, AnchorHearsKeeps
<1>5. CASE TagHearsRequest \/ TagHearsResponse
  BY <1>5, TagHearsRequestKeeps, TagHearsResponseKeeps
<1>6. ASSUME NEW p \in Positions, Between(p) PROVE RtdoaInv'
  BY <1>6, BetweenKeeps
<1>7. CASE UNCHANGED rtdoaVars
  <2>1. /\ UNCHANGED <<anchorVars, tagVars>> /\ unit' = unit /\ got' = got
        /\ unit \in [Units -> Unit] /\ got \in [Units -> Entry]
    BY <1>7 DEF rtdoaVars, anchorVars, tagVars, RtdoaInv, RtdoaState
  <2>. QED BY <2>1, RtdoaQuiet
<1>. QED BY <1>1, <1>2, <1>3, <1>4, <1>5, <1>6, <1>7 DEF RtdoaNext

(* TdoaTrue: a difference of arrival that rtdoa_tdoa_between_frames computes  *)
(* is of a response and the request it answers, for any anchors and any ring  *)
(* of the tag that is larger than one sequence of frames and divides the      *)
(* range of idx.                                                              *)
THEOREM DifferencesOfOneSequence ==
    ASSUME RingWhole PROVE RtdoaSpec => []TdoaTrue
<1>1. RtdoaInv => TdoaTrue
  <2>. SUFFICES ASSUME RtdoaInv, ~strays, NEW p \in Positions, Usable(p)
                PROVE  ring[reqAt] = [code |-> "request", seq |-> ring[p].seq]
    BY DEF TdoaTrue
  <2>1. reqAt # NoReqFrame /\ reqAt \in Positions /\ ring[reqAt] \in Entry /\ ring[p] \in Entry
    BY DEF RtdoaInv, RtdoaState, Usable
  <2>2. ring[reqAt].code = "request" /\ ring[p].seq <= ring[reqAt].seq
    BY <2>1 DEF RtdoaInv, RingRoom
  <2>3. PICK s \in Nat, t \in Nat : s = ring[p].seq /\ t = ring[reqAt].seq /\ s >= t /\ s <= t
    BY <2>1, <2>2 DEF Usable, Entry, Seqs
  <2>. QED BY <2>1, <2>2, <2>3 DEF Entry
<1>. QED BY <1>1, RtdoaInvInit, RtdoaInvNext, PTL DEF RtdoaSpec

-----------------------------------------------------------------------------
(* The composition *)

(* Each service of the composition behaves as it does alone.                  *)
LEMMA AnswersSpecs == MCSpec => NrngSpec /\ RtdoaSpec
<1>1. MCInit => NrngInit /\ RtdoaInit
  BY DEF MCInit
<1>2. [MCNext]_answersVars => [NrngNext]_nrngVars /\ [RtdoaNext]_rtdoaVars
  <2>. SUFFICES ASSUME [MCNext]_answersVars
                PROVE  [NrngNext]_nrngVars /\ [RtdoaNext]_rtdoaVars
    OBVIOUS
  <2>1. CASE UNCHANGED answersVars
    BY <2>1 DEF answersVars
  <2>2. CASE UNCHANGED <<nrngVars, rtdoaVars>>
    BY <2>2
  <2>3. CASE NrngNext /\ UNCHANGED rtdoaVars
    BY <2>3
  <2>4. CASE RtdoaNext /\ UNCHANGED nrngVars
    BY <2>4
  <2>. QED BY <2>1, <2>2, <2>3, <2>4 DEF MCNext
<1>. QED BY <1>1, <1>2, PTL DEF MCSpec, NrngSpec, RtdoaSpec

(* ReadingsTrue: what survey_request and the tag read after an exchange of    *)
(* many nodes belongs to that exchange, with a ring of the tag that divides   *)
(* the range of idx.                                                          *)
THEOREM ReadingsOfOneExchange ==
    ASSUME RingWhole PROVE MCSpec => []ReadingsTrue
<1>1. RangesTrue /\ TdoaTrue => ReadingsTrue
  BY DEF ReadingsTrue
<1>. QED BY <1>1, AnswersSpecs, RangesRead, DifferencesOfOneSequence, PTL
=============================================================================

------------------------- MODULE MbufChainsProofs -------------------------
(***************************************************************************)
(* Proofs about MbufChains: the two invariants of the mbufs, for pools of   *)
(* every size, chains of every length and packets of every content.        *)
(*                                                                         *)
(* MbufInv is inductive: the free buffers and those of all chains together *)
(* are the pool's (Total counts the chains' buffers as pairs of a handle   *)
(* and a number, and FoldIsTotal shows that this is the sum that the model *)
(* folds), every buffer lies inside its block, and omp_len is the chain's  *)
(* length.  Each operation on a chain has a lemma ...Flat, which says what *)
(* becomes of the chain's bytes and buffers, a lemma ...Keeps, which       *)
(* accounts for them, and the action a lemma by the same name that it      *)
(* keeps MbufInv.  BytesKept then follows from the ...Flat lemmas on every *)
(* chain of such buffers, ChainsSound from MbufInv.                        *)
(*                                                                         *)
(* What the bytes of a chain are is a fold, so these lemmas need induction *)
(* over its length.  The library's induction theorem takes an operator;    *)
(* here Induction and FiniteInduction say it of sets instead, and follow   *)
(* from the well-foundedness of < on Nat.  Recursive definitions are       *)
(* replaced by functions that are equal to their own right-hand side       *)
(* (IsJoin, IsUpto, IsSum), which are shown to exist and to be unique.     *)
(*                                                                         *)
(* Assumed: MbufConstants, and SmallPool, without which the 16 bits of     *)
(* omp_len would wrap.                                                     *)
(***************************************************************************)
EXTENDS MbufChains, SequenceTheorems, FiniteSetTheorems, WellFoundedInduction, TLAPS

-----------------------------------------------------------------------------
(* Induction over Nat, for sets: the theorems of the library with an operator *)
(* as a parameter cannot be instantiated                                   *)

Below == {ss \in Nat \X Nat : ss[1] < ss[2]}

\* The smaller-than relation of Nat has no infinite descent.
LEMMA BelowWellFounded == IsWellFoundedOn(Below, Nat)
  BY NatLessThanWellFounded DEF OpToRel, Below

\* A set of naturals that is not empty has a least member.
LEMMA LeastElement ==
    ASSUME NEW T \in SUBSET Nat, T # {}
    PROVE  \E n \in T : \A m \in T : n <= m
  <1>1. PICK n \in T : \A m \in T : <<m, n>> \notin Below
    BY BelowWellFounded, WFMin
  <1>2. \A m \in T : ~(m < n)
    BY <1>1 DEF Below
  <1> QED
    BY <1>2

\* A set that holds 0 and every successor of its members holds every natural.
LEMMA Induction ==
    ASSUME NEW T, 0 \in T, \A n \in Nat : n \in T => n + 1 \in T
    PROVE  Nat \subseteq T
  <1> SUFFICES ASSUME Nat \ T # {} PROVE FALSE
    OBVIOUS
  <1>1. PICK n \in Nat \ T : \A m \in Nat \ T : n <= m
    BY LeastElement
  <1>2. n - 1 \in T /\ n - 1 \in Nat
    BY <1>1
  <1> QED
    BY <1>1, <1>2

-----------------------------------------------------------------------------
(* FlattenSeq                                                              *)

\* Concatenation, kept folded where the provers need not look into it.
Cat(s, t) == s \o t

IsJoin(g, q, n) == g = [i \in 1..n |-> IF i = 1 THEN q[i] ELSE Cat(g[i - 1], q[i])]

\* What the recursive definition of a join says at one place.
LEMMA JoinAt ==
    ASSUME NEW q, NEW n, NEW g, IsJoin(g, q, n), NEW i \in 1..n
    PROVE  g[i] = IF i = 1 THEN q[i] ELSE Cat(g[i - 1], q[i])
  <1> DEFINE f == [j \in 1..n |-> IF j = 1 THEN q[j] ELSE Cat(g[j - 1], q[j])]
  <1>1. f[i] = IF i = 1 THEN q[i] ELSE Cat(g[i - 1], q[i])
    OBVIOUS
  <1>2. g = f
    BY DEF IsJoin
  <1> HIDE DEF f
  <1> QED
    BY <1>1, <1>2

\* A join of the first n sequences of q exists.
LEMMA JoinExists ==
    ASSUME NEW q, NEW n \in Nat
    PROVE  \E g : IsJoin(g, q, n)
  <1> DEFINE T == {k \in Nat : \E g : IsJoin(g, q, k)}
  <1>1. 0 \in T
    <2>1. IsJoin([i \in 1..0 |-> 0], q, 0)
      BY DEF IsJoin
    <2> QED
      BY <2>1
  <1>2. ASSUME NEW k \in Nat, k \in T PROVE k + 1 \in T
    <2>1. PICK g : IsJoin(g, q, k)
      BY <1>2
    <2> DEFINE h == [i \in 1..k + 1 |-> IF i <= k THEN g[i]
                                        ELSE IF i = 1 THEN q[i] ELSE Cat(g[i - 1], q[i])]
    <2>2. \A i \in 1..k + 1 : h[i] = IF i = 1 THEN q[i] ELSE Cat(h[i - 1], q[i])
      <3> TAKE i \in 1..k + 1
      <3>1. CASE i <= k
        <4>1. g[i] = IF i = 1 THEN q[i] ELSE Cat(g[i - 1], q[i])
          BY <2>1, <3>1, JoinAt
        <4> QED
          BY <3>1, <4>1
      <3>2. CASE i = k + 1
        BY <3>2
      <3> QED
        BY <3>1, <3>2
    <2> HIDE DEF h
    <2>3. DOMAIN h = 1..k + 1 /\ h = [i \in 1..k + 1 |-> h[i]]
      BY DEF h
    <2>4. IsJoin(h, q, k + 1)
      BY <2>2, <2>3 DEF IsJoin
    <2> QED
      BY <2>4
  <1> HIDE DEF T
  <1>3. n \in T
    BY <1>1, <1>2, Induction
  <1> QED
    BY <1>3 DEF T

\* Two of them agree as long as the sequences do.
LEMMA JoinAgrees ==
    ASSUME NEW q, NEW r, NEW n \in Nat, NEW m \in Nat, NEW g, NEW h,
           IsJoin(g, q, n), IsJoin(h, r, m),
           NEW k \in Nat, k <= n, k <= m, \A i \in 1..k : q[i] = r[i]
    PROVE  \A i \in 1..k : g[i] = h[i]
  <1> DEFINE T == {j \in Nat : j \in 1..k => g[j] = h[j]}
  <1>1. 0 \in T
    OBVIOUS
  <1>2. ASSUME NEW j \in Nat, j \in T PROVE j + 1 \in T
    <2> SUFFICES ASSUME j + 1 \in 1..k PROVE g[j + 1] = h[j + 1]
      OBVIOUS
    <2>1. g[j + 1] = (IF j + 1 = 1 THEN q[j + 1] ELSE Cat(g[j + 1 - 1], q[j + 1]))
          /\ h[j + 1] = (IF j + 1 = 1 THEN r[j + 1] ELSE Cat(h[j + 1 - 1], r[j + 1]))
      <3>1. j + 1 \in 1..n /\ j + 1 \in 1..m
        OBVIOUS
      <3> QED
        BY <3>1, JoinAt
    <2>2. j + 1 - 1 = j /\ q[j + 1] = r[j + 1]
      OBVIOUS
    <2>3. j + 1 # 1 => g[j] = h[j]
      BY <1>2
    <2> QED
      BY <2>1, <2>2, <2>3
  <1> HIDE DEF T
  <1>3. Nat \subseteq T
    BY <1>1, <1>2, Induction
  <1> QED
    BY <1>3 DEF T

\* FlattenSeq is the last join of a sequence that is not empty.
LEMMA JoinFlattens ==
    ASSUME NEW S, NEW q \in Seq(S), Len(q) # 0, NEW g, IsJoin(g, q, Len(q))
    PROVE  FlattenSeq(q) = g[Len(q)]
  <1>1. \A h : IsJoin(h, q, Len(q)) => h = g
    <2> SUFFICES ASSUME NEW h, IsJoin(h, q, Len(q)) PROVE h = g
      OBVIOUS
    <2>1. \A i \in 1..Len(q) : h[i] = g[i]
      BY JoinAgrees
    <2>2. h = [i \in 1..Len(q) |-> h[i]] /\ g = [i \in 1..Len(q) |-> g[i]]
      <3>1. DOMAIN h = 1..Len(q) /\ DOMAIN g = 1..Len(q)
            /\ h = [i \in DOMAIN h |-> h[i]] /\ g = [i \in DOMAIN g |-> g[i]]
        BY DEF IsJoin
      <3> QED
        BY <3>1
    <2> QED
      BY <2>1, <2>2
  <1>2. g = CHOOSE h : h = [i \in 1..Len(q) |-> IF i = 1 THEN q[i] ELSE Cat(h[i - 1], q[i])]
    BY <1>1 DEF IsJoin
  <1> QED
    BY <1>2 DEF FlattenSeq, Cat

\* The last step of one, from the one of the sequence without its last element.
LEMMA JoinStep ==
    ASSUME NEW q, NEW r, NEW n \in Nat \ {0}, NEW g, NEW h,
           IsJoin(g, q, n), IsJoin(h, r, n + 1), \A i \in 1..n : q[i] = r[i]
    PROVE  h[n + 1] = Cat(g[n], r[n + 1])
  <1>1. g[n] = h[n]
    BY JoinAgrees
  <1>2. h[n + 1] = IF n + 1 = 1 THEN r[n + 1] ELSE Cat(h[n + 1 - 1], r[n + 1])
    <2>1. n + 1 \in 1..n + 1
      OBVIOUS
    <2> QED
      BY <2>1, JoinAt
  <1>3. n + 1 # 1 /\ n + 1 - 1 = n
    OBVIOUS
  <1> QED
    BY <1>1, <1>2, <1>3

\* Flattening a single sequence yields that sequence.
LEMMA FlattenOne ==
    ASSUME NEW S, NEW r \in Seq(S), Len(r) = 1
    PROVE  FlattenSeq(r) = r[1]
  <1>1. PICK g : IsJoin(g, r, 1)
    BY JoinExists
  <1>2. 1 \in 1..1
    OBVIOUS
  <1>3. g[1] = r[1]
    BY <1>1, <1>2, JoinAt
  <1>4. FlattenSeq(r) = g[Len(r)]
    <2>1. IsJoin(g, r, Len(r))
      BY <1>1
    <2>2. Len(r) # 0
      OBVIOUS
    <2> QED
      BY ONLY <2>1, <2>2, r \in Seq(S), JoinFlattens
  <1> QED
    BY <1>3, <1>4

\* One sequence more is put behind those flattened so far.
LEMMA FlattenLonger ==
    ASSUME NEW S, NEW q \in Seq(S), NEW r \in Seq(S), NEW n \in Nat \ {0},
           Len(q) = n, Len(r) = n + 1, \A i \in 1..n : q[i] = r[i]
    PROVE  FlattenSeq(r) = Cat(FlattenSeq(q), r[n + 1])
  <1>1. PICK g : IsJoin(g, q, n)
    BY JoinExists
  <1>2. PICK h : IsJoin(h, r, n + 1)
    <2>1. n + 1 \in Nat
      OBVIOUS
    <2> QED
      BY <2>1, JoinExists
  <1>3. h[n + 1] = Cat(g[n], r[n + 1])
    BY <1>1, <1>2, JoinStep
  <1>4. FlattenSeq(q) = g[n]
    BY <1>1, JoinFlattens
  <1>5. FlattenSeq(r) = h[n + 1]
    BY <1>2, JoinFlattens
  <1> QED
    BY <1>3, <1>4, <1>5

\* The same, with Append: the bytes of a chain grow at its end.
LEMMA FlattenAppend ==
    ASSUME NEW S, NEW q \in Seq(Seq(S)), NEW e \in Seq(S)
    PROVE  FlattenSeq(Append(q, e)) = FlattenSeq(q) \o e
  <1> DEFINE r == Append(q, e)
  <1>1. r \in Seq(Seq(S)) /\ Len(r) = Len(q) + 1 /\ r[Len(q) + 1] = e
        /\ \A i \in 1..Len(q) : q[i] = r[i]
    OBVIOUS
  <1> HIDE DEF r
  <1>2. CASE Len(q) = 0
    <2>1. FlattenSeq(q) = <<>>
      BY <1>2 DEF FlattenSeq
    <2>2. FlattenSeq(r) = r[1]
      BY <1>1, <1>2, FlattenOne
    <2> QED
      BY <1>1, <1>2, <2>1, <2>2 DEF r
  <1>3. CASE Len(q) # 0
    <2>1. Len(q) \in Nat \ {0}
      BY <1>3
    <2>2. FlattenSeq(r) = Cat(FlattenSeq(q), r[Len(q) + 1])
      BY <1>1, <2>1, FlattenLonger
    <2> QED
      BY <1>1, <2>2 DEF r, Cat
  <1> QED
    BY <1>2, <1>3

\* Nothing flattens to nothing.
LEMMA FlattenEmpty == FlattenSeq(<<>>) = <<>>
  BY DEF FlattenSeq

\* A sequence of n + 1 members is n of them with one appended.
LEMMA SplitLast ==
    ASSUME NEW S, NEW n \in Nat, NEW q \in Seq(S), Len(q) = n + 1
    PROVE  /\ SubSeq(q, 1, n) \in Seq(S)
           /\ Len(SubSeq(q, 1, n)) = n
           /\ q[n + 1] \in S
           /\ q = Append(SubSeq(q, 1, n), q[n + 1])
  OBVIOUS

\* Flattening sequences over S yields a sequence over S.
LEMMA FlattenType ==
    ASSUME NEW S, NEW q \in Seq(Seq(S))
    PROVE  FlattenSeq(q) \in Seq(S)
  <1> DEFINE T == {n \in Nat : \A r \in Seq(Seq(S)) : Len(r) = n => FlattenSeq(r) \in Seq(S)}
  <1>1. 0 \in T
    BY FlattenEmpty
  <1>2. ASSUME NEW n \in Nat, n \in T PROVE n + 1 \in T
    <2> SUFFICES ASSUME NEW r \in Seq(Seq(S)), Len(r) = n + 1
                 PROVE  FlattenSeq(r) \in Seq(S)
      OBVIOUS
    <2> DEFINE p == SubSeq(r, 1, n)
               e == r[n + 1]
    <2>1. p \in Seq(Seq(S)) /\ Len(p) = n /\ e \in Seq(S) /\ r = Append(p, e)
      BY SplitLast
    <2> HIDE DEF p, e
    <2>2. FlattenSeq(p) \in Seq(S)
      BY <1>2, <2>1
    <2>3. FlattenSeq(r) = FlattenSeq(p) \o e
      BY <2>1, FlattenAppend
    <2> QED
      BY <2>1, <2>2, <2>3
  <1> HIDE DEF T
  <1>3. Len(q) \in T
    BY <1>1, <1>2, Induction, SMTT(60)
  <1> QED
    BY <1>3 DEF T

\* Flattening distributes over concatenation.
LEMMA FlattenConcat ==
    ASSUME NEW S, NEW p \in Seq(Seq(S)), NEW q \in Seq(Seq(S))
    PROVE  FlattenSeq(p \o q) = FlattenSeq(p) \o FlattenSeq(q)
  <1> DEFINE T == {n \in Nat : \A r \in Seq(Seq(S)) :
                       Len(r) = n => FlattenSeq(p \o r) = FlattenSeq(p) \o FlattenSeq(r)}
  <1>1. 0 \in T
    <2> SUFFICES ASSUME NEW r \in Seq(Seq(S)), Len(r) = 0
                 PROVE  FlattenSeq(p \o r) = FlattenSeq(p) \o FlattenSeq(r)
      OBVIOUS
    <2>1. r = <<>> /\ p \o r = p
      OBVIOUS
    <2>2. FlattenSeq(p) \o <<>> = FlattenSeq(p)
      BY FlattenType
    <2> QED
      BY <2>1, <2>2, FlattenEmpty
  <1>2. ASSUME NEW n \in Nat, n \in T PROVE n + 1 \in T
    <2> SUFFICES ASSUME NEW r \in Seq(Seq(S)), Len(r) = n + 1
                 PROVE  FlattenSeq(p \o r) = FlattenSeq(p) \o FlattenSeq(r)
      OBVIOUS
    <2> DEFINE t == SubSeq(r, 1, n)
               e == r[n + 1]
    <2>1. t \in Seq(Seq(S)) /\ Len(t) = n /\ e \in Seq(S) /\ r = Append(t, e)
      BY SplitLast
    <2> HIDE DEF t, e
    <2>2. FlattenSeq(p \o t) = FlattenSeq(p) \o FlattenSeq(t)
      BY <1>2, <2>1
    <2>3. p \o t \in Seq(Seq(S)) /\ p \o r = Append(p \o t, e)
      BY <2>1
    <2>4. FlattenSeq(p \o r) = FlattenSeq(p \o t) \o e
      BY <2>1, <2>3, FlattenAppend
    <2>5. FlattenSeq(r) = FlattenSeq(t) \o e
      BY <2>1, FlattenAppend
    <2>6. FlattenSeq(p) \in Seq(S) /\ FlattenSeq(t) \in Seq(S)
      BY <2>1, FlattenType
    <2>7. (FlattenSeq(p) \o FlattenSeq(t)) \o e = FlattenSeq(p) \o (FlattenSeq(t) \o e)
      <3> DEFINE fp == FlattenSeq(p)
                 ft == FlattenSeq(t)
      <3>1. fp \in Seq(S) /\ ft \in Seq(S)
        BY <2>6
      <3> HIDE DEF fp, ft
      <3>2. (fp \o ft) \o e = fp \o (ft \o e)
        BY <2>1, <3>1, ConcatAssociative, SMTT(60)
      <3> QED
        BY <3>2 DEF fp, ft
    <2> QED
      BY <2>2, <2>4, <2>5, <2>7, Zenon
  <1> HIDE DEF T
  <1>3. Nat \subseteq T
    BY <1>1, <1>2, Induction
  <1> QED
    BY <1>3 DEF T

-----------------------------------------------------------------------------
(* Chains                                                                  *)

\* A buffer of the pool: its data in its databuf, behind the packet header.
Buffer ==
    {m \in [off : Nat, data : Seq(Bytes), hdr : {0, HdrLen}] :
        Leading(m) >= 0 /\ Trailing(m) >= 0}
Chains == Seq(Buffer)

Datas(c) == [i \in DOMAIN c |-> c[i].data]

\* The fields of a buffer: its data lies inside the block, behind the header.
LEMMA BufferFields ==
    ASSUME NEW m \in Buffer
    PROVE  /\ m.off \in Nat /\ m.data \in Seq(Bytes) /\ m.hdr \in Nat
           /\ Len(m.data) \in 0..BufLen /\ m.off + Len(m.data) <= BufLen /\ m.hdr <= m.off
  BY MbufConstants DEF Buffer, Leading, Trailing

\* What lies inside a block is a buffer.
LEMMA IsBuffer ==
    ASSUME NEW o \in Nat, NEW d \in Seq(Bytes), NEW h \in {0, HdrLen},
           h <= o, o + Len(d) <= BufLen
    PROVE  [off |-> o, data |-> d, hdr |-> h] \in Buffer
  BY MbufConstants DEF Buffer, Leading, Trailing

\* The data of a chain's buffers, in order.
LEMMA DatasType ==
    ASSUME NEW c \in Chains
    PROVE  /\ Datas(c) \in Seq(Seq(Bytes)) /\ Len(Datas(c)) = Len(c)
           /\ \A i \in 1..Len(c) : Datas(c)[i] = c[i].data
  BY BufferFields, SMTT(60) DEF Datas, Chains

\* The bytes of a chain; Size counts them, as dpl_mbuf_len does.
LEMMA FlatType ==
    ASSUME NEW c \in Chains
    PROVE  Flat(c) \in Seq(Bytes) /\ Size(c) \in Nat /\ Size(c) = Len(Flat(c))
  BY DatasType, FlattenType DEF Flat, Size, Datas

\* A sequence that agrees with x and then with y is x \o y.
LEMMA IsConcat ==
    ASSUME NEW S, NEW x \in Seq(S), NEW y \in Seq(S), NEW z \in Seq(S),
           Len(z) = Len(x) + Len(y),
           \A i \in 1..Len(x) : z[i] = x[i],
           \A i \in 1..Len(y) : z[Len(x) + i] = y[i]
    PROVE  z = x \o y
  <1>1. Len(z) = Len(x \o y) /\ x \o y \in Seq(S)
    OBVIOUS
  <1>2. ASSUME NEW i \in 1..Len(z) PROVE z[i] = (x \o y)[i]
    <2>1. CASE i <= Len(x)
      BY <2>1
    <2>2. CASE i > Len(x)
      <3>1. i - Len(x) \in 1..Len(y) /\ Len(x) + (i - Len(x)) = i
        BY <2>2
      <3>2. z[i] = y[i - Len(x)]
        BY <3>1
      <3> QED
        BY <2>2, <3>2
    <2> QED
      BY <2>1, <2>2
  <1> QED
    BY <1>1, <1>2, SeqEqual

\* The data of two chains joined.
LEMMA DatasConcat ==
    ASSUME NEW b \in Chains, NEW c \in Chains
    PROVE  Datas(b \o c) = Datas(b) \o Datas(c)
  <1> DEFINE d == b \o c
             db == Datas(b)
             dc == Datas(c)
             dd == Datas(d)
  <1>1. /\ Len(b) \in Nat /\ Len(c) \in Nat /\ Len(d) = Len(b) + Len(c) /\ d \in Chains
        /\ \A i \in 1..Len(b) : d[i] = b[i]
        /\ \A i \in 1..Len(c) : d[Len(b) + i] = c[i]
    BY DEF Chains
  <1> HIDE DEF d
  <1>2. /\ dd \in Seq(Seq(Bytes)) /\ Len(dd) = Len(b) + Len(c)
        /\ \A i \in 1..Len(b) + Len(c) : dd[i] = d[i].data
    BY <1>1, DatasType
  <1>3. /\ db \in Seq(Seq(Bytes)) /\ dc \in Seq(Seq(Bytes))
        /\ Len(db) = Len(b) /\ Len(dc) = Len(c)
        /\ \A i \in 1..Len(b) : db[i] = b[i].data
        /\ \A i \in 1..Len(c) : dc[i] = c[i].data
    BY DatasType
  <1> HIDE DEF db, dc, dd
  <1>4. ASSUME NEW i \in 1..Len(db) PROVE dd[i] = db[i]
    <2>1. i \in 1..Len(b) /\ i \in 1..Len(b) + Len(c)
      BY <1>1, <1>3
    <2>2. dd[i] = d[i].data /\ db[i] = b[i].data /\ d[i] = b[i]
      BY <1>1, <1>2, <1>3, <2>1
    <2> QED
      BY <2>2
  <1>5. ASSUME NEW i \in 1..Len(dc) PROVE dd[Len(db) + i] = dc[i]
    <2>1. i \in 1..Len(c) /\ Len(b) + i \in 1..Len(b) + Len(c)
      BY <1>1, <1>3
    <2>2. dd[Len(b) + i] = d[Len(b) + i].data
      BY <1>2, <2>1
    <2>3. dc[i] = c[i].data /\ d[Len(b) + i] = c[i]
      BY <1>1, <1>3, <2>1
    <2> QED
      BY <1>3, <2>2, <2>3
  <1>6. dd = db \o dc
    <2>1. Len(dd) = Len(db) + Len(dc)
      BY <1>2, <1>3
    <2>2. db \in Seq(Seq(Bytes)) /\ dc \in Seq(Seq(Bytes)) /\ dd \in Seq(Seq(Bytes))
      BY <1>2, <1>3
    <2> QED
      BY ONLY <2>1, <2>2, <1>4, <1>5, IsConcat
  <1> QED
    BY <1>6 DEF db, dc, dd, d

\* Joining two chains joins their bytes.
LEMMA FlatConcat ==
    ASSUME NEW b \in Chains, NEW c \in Chains
    PROVE  /\ b \o c \in Chains
           /\ Flat(b \o c) = Flat(b) \o Flat(c)
           /\ Size(b \o c) = Size(b) + Size(c)
  <1>1. b \o c \in Chains
    BY DEF Chains
  <1>3. Flat(b \o c) = Flat(b) \o Flat(c)
    BY DatasConcat, DatasType, FlattenConcat, ZenonT(60) DEF Flat, Datas
  <1> QED
    BY <1>1, <1>3, FlatType

\* A chain of one buffer.
LEMMA FlatOne ==
    ASSUME NEW m \in Buffer
    PROVE  /\ <<m>> \in Chains
           /\ Flat(<<m>>) = m.data
           /\ Size(<<m>>) = Len(m.data)
  <1>1. <<m>> \in Chains /\ Len(<<m>>) = 1 /\ <<m>>[1] = m
    BY DEF Chains
  <1>2. Flat(<<m>>) = Datas(<<m>>)[1]
    BY <1>1, DatasType, FlattenOne DEF Flat, Datas
  <1> QED
    BY <1>1, <1>2, DatasType, FlatType

\* The chain without a buffer.
LEMMA FlatNone == Flat(<<>>) = <<>> /\ Size(<<>>) = 0 /\ <<>> \in Chains
  <1>1. Datas(<<>>) = <<>>
    BY DEF Datas
  <1> QED
    BY <1>1, FlattenEmpty DEF Flat, Size, Datas, Chains

\* The same bytes in each make the same bytes.
LEMMA FlatSame ==
    ASSUME NEW b \in Chains, NEW c \in Chains, Len(b) = Len(c),
           \A i \in 1..Len(b) : b[i].data = c[i].data
    PROVE  Flat(b) = Flat(c) /\ Size(b) = Size(c)
  <1>1. Datas(b) = Datas(c)
    <2>1. DOMAIN b = 1..Len(b) /\ DOMAIN c = 1..Len(b)
      BY DEF Chains
    <2> QED
      BY <2>1 DEF Datas
  <1> QED
    BY <1>1 DEF Flat, Size, Datas

\* One buffer more at the end of a chain.
LEMMA FlatAppend ==
    ASSUME NEW c \in Chains, NEW m \in Buffer
    PROVE  /\ Append(c, m) \in Chains
           /\ Flat(Append(c, m)) = Flat(c) \o m.data
           /\ Size(Append(c, m)) = Size(c) + Len(m.data)
  <1>1. Append(c, m) = c \o <<m>>
    BY DEF Chains
  <1> QED
    BY <1>1, FlatOne, FlatConcat

\* The bytes before a buffer.
LEMMA StartStep ==
    ASSUME NEW c \in Chains
    PROVE  /\ Start(c, 1) = 0
           /\ Start(c, Len(c) + 1) = Size(c)
           /\ \A i \in 1..Len(c) + 1 : SubSeq(c, 1, i - 1) \in Chains /\ Start(c, i) \in Nat
           /\ \A i \in 1..Len(c) : Start(c, i + 1) = Start(c, i) + Len(c[i].data)
  <1>1. Start(c, 1) = 0
    <2>1. SubSeq(c, 1, 1 - 1) = <<>>
      BY DEF Chains
    <2> QED
      BY <2>1, FlatNone DEF Start
  <1>2. Start(c, Len(c) + 1) = Size(c)
    <2>1. Len(c) + 1 - 1 = Len(c) /\ SubSeq(c, 1, Len(c)) = c
      BY DEF Chains
    <2>2. Start(c, Len(c) + 1) = Size(SubSeq(c, 1, Len(c) + 1 - 1))
      BY DEF Start
    <2> QED
      BY ONLY <2>1, <2>2
  <1>3. ASSUME NEW i \in 1..Len(c) + 1 PROVE SubSeq(c, 1, i - 1) \in Chains
    BY DEF Chains
  <1>4. ASSUME NEW i \in 1..Len(c) + 1 PROVE Start(c, i) \in Nat
    BY <1>3, FlatType DEF Start
  <1>5. ASSUME NEW i \in 1..Len(c) PROVE Start(c, i + 1) = Start(c, i) + Len(c[i].data)
    <2> DEFINE b == SubSeq(c, 1, i - 1)
    <2>1. SubSeq(c, 1, i + 1 - 1) = Append(b, c[i]) /\ b \in Chains /\ c[i] \in Buffer
      BY DEF Chains
    <2>2. Size(Append(b, c[i])) = Size(b) + Len(c[i].data)
      <3> HIDE DEF b
      <3> QED
        BY <2>1, FlatAppend
    <2>3. Start(c, i + 1) = Size(SubSeq(c, 1, i + 1 - 1)) /\ Start(c, i) = Size(b)
      BY DEF Start
    <2> QED
      BY ONLY <2>1, <2>2, <2>3
  <1> QED
    BY <1>1, <1>2, <1>3, <1>4, <1>5

\* A later buffer does not start before an earlier one.
LEMMA StartMonotonic ==
    ASSUME NEW c \in Chains, NEW i \in 1..Len(c) + 1, NEW j \in i..Len(c) + 1
    PROVE  Start(c, i) <= Start(c, j)
  <1> DEFINE T == {n \in Nat : i + n <= Len(c) + 1 => Start(c, i) <= Start(c, i + n)}
  <1>0. Len(c) \in Nat
    BY DEF Chains
  <1>1. 0 \in T
    BY <1>0, StartStep
  <1>2. ASSUME NEW n \in Nat, n \in T PROVE n + 1 \in T
    <2> SUFFICES ASSUME i + (n + 1) <= Len(c) + 1
                 PROVE  Start(c, i) <= Start(c, i + (n + 1))
      OBVIOUS
    <2>1. i + n \in 1..Len(c) /\ i + (n + 1) = (i + n) + 1 /\ i + n \in 1..Len(c) + 1
          /\ i + (n + 1) \in 1..Len(c) + 1
      BY <1>0
    <2>2. Start(c, i + (n + 1)) = Start(c, i + n) + Len(c[i + n].data)
      BY <2>1, StartStep
    <2>3. Len(c[i + n].data) \in Nat
      BY <2>1, BufferFields DEF Chains
    <2>4. Start(c, i) <= Start(c, i + n)
      BY <1>2, <2>1
    <2>5. Start(c, i) \in Nat /\ Start(c, i + n) \in Nat
      BY <2>1, StartStep
    <2> QED
      BY ONLY <2>2, <2>3, <2>4, <2>5
  <1> HIDE DEF T
  <1>3. Nat \subseteq T
    BY <1>1, <1>2, Induction
  <1>4. j - i \in T /\ i + (j - i) = j
    BY <1>0, <1>3
  <1> QED
    BY <1>0, <1>4 DEF T

\* Every buffer ends inside its chain.
LEMMA StartBounds ==
    ASSUME NEW c \in Chains, NEW i \in 1..Len(c)
    PROVE  /\ Start(c, i) \in Nat /\ Len(c[i].data) \in Nat
           /\ Start(c, i) + Len(c[i].data) <= Size(c)
  <1>0. Len(c) \in Nat /\ i + 1 \in 1..Len(c) + 1 /\ Len(c) + 1 \in i + 1..Len(c) + 1
        /\ i \in 1..Len(c) + 1
    BY DEF Chains
  <1>1. Start(c, i + 1) <= Start(c, Len(c) + 1)
    BY <1>0, StartMonotonic
  <1>2. Len(c[i].data) \in Nat
    BY BufferFields DEF Chains
  <1> QED
    BY <1>0, <1>1, <1>2, StartStep

\* A chain cut between two buffers.
LEMMA FlatSplit ==
    ASSUME NEW c \in Chains, NEW n \in 0..Len(c)
    PROVE  /\ SubSeq(c, 1, n) \in Chains /\ SubSeq(c, n + 1, Len(c)) \in Chains
           /\ Flat(c) = Flat(SubSeq(c, 1, n)) \o Flat(SubSeq(c, n + 1, Len(c)))
           /\ Size(SubSeq(c, 1, n)) = Start(c, n + 1)
           /\ Size(SubSeq(c, n + 1, Len(c))) = Size(c) - Start(c, n + 1)
  <1> DEFINE a == SubSeq(c, 1, n)
             b == SubSeq(c, n + 1, Len(c))
  <1>1. a \in Chains /\ b \in Chains /\ c = a \o b /\ n + 1 - 1 = n
    <2>1. Len(c) \in Nat /\ n \in Nat
      BY DEF Chains
    <2>2. a \in Chains /\ b \in Chains /\ n + 1 - 1 = n
      BY <2>1 DEF Chains
    <2>3. a \o b = SubSeq(c, 1, Len(c))
      <3>1. 1 \in 1..Len(c) + 1 /\ n \in 1 - 1..Len(c) /\ Len(c) \in n..Len(c)
        BY <2>1
      <3> QED
        BY <3>1, ConcatAdjacentSubSeq DEF Chains
    <2> QED
      BY <2>2, <2>3, SubSeqFull DEF Chains
  <1>2. Size(a) = Start(c, n + 1)
    BY <1>1 DEF Start
  <1> HIDE DEF a, b
  <1>3. Flat(c) = Flat(a) \o Flat(b) /\ Size(c) = Size(a) + Size(b)
    BY <1>1, FlatConcat
  <1>4. Size(a) \in Nat /\ Size(b) \in Nat
    BY <1>1, FlatType
  <1> QED
    BY <1>1, <1>2, <1>3, <1>4 DEF a, b

-----------------------------------------------------------------------------
(* A part of a chain, buffer by buffer                                     *)

\* The length and the members of a part of a sequence.
LEMMA SubSeqIs ==
    ASSUME NEW S, NEW x \in Seq(S), NEW m \in Nat \ {0}, NEW n \in Int, n <= Len(x)
    PROVE  /\ SubSeq(x, m, n) \in Seq(S)
           /\ Len(SubSeq(x, m, n)) = IF m <= n THEN n - m + 1 ELSE 0
           /\ \A i \in 1..Len(SubSeq(x, m, n)) : SubSeq(x, m, n)[i] = x[m + i - 1]
  <1>1. \A i \in m..n : x[i] \in S
    OBVIOUS
  <1>2. /\ SubSeq(x, m, n) \in Seq(S)
        /\ Len(SubSeq(x, m, n)) = IF m <= n THEN n - m + 1 ELSE 0
        /\ \A i \in 1..n - m + 1 : SubSeq(x, m, n)[i] = x[m + i - 1]
    BY <1>1, SubSeqProperties
  <1> QED
    BY <1>2

\* A part of x \o y is a part of x and then a part of y.
LEMMA SubSeqOfConcat ==
    ASSUME NEW S, NEW x \in Seq(S), NEW y \in Seq(S), NEW off \in Nat, NEW len \in Nat
    PROVE  SubSeq(x \o y, off + 1, Lesser(Len(x) + Len(y), off + len)) =
               SubSeq(x, off + 1, Lesser(Len(x), off + len))
               \o SubSeq(y, Greater(1, off - Len(x) + 1), Lesser(Len(y), off + len - Len(x)))
  <1> DEFINE z == x \o y
             m == Greater(1, off - Len(x) + 1)
             n == Lesser(Len(y), off + len - Len(x))
             k == Lesser(Len(x), off + len)
             l == Lesser(Len(x) + Len(y), off + len)
             a == SubSeq(x, off + 1, k)
             b == SubSeq(y, m, n)
             c == SubSeq(z, off + 1, l)
  <1>1. /\ z \in Seq(S) /\ Len(z) = Len(x) + Len(y) /\ Len(x) \in Nat /\ Len(y) \in Nat
        /\ \A i \in 1..Len(x) + Len(y) : z[i] = IF i <= Len(x) THEN x[i] ELSE y[i - Len(x)]
    OBVIOUS
  <1> HIDE DEF z
  <1>2. /\ m \in Nat \ {0} /\ n \in Int /\ k \in Nat /\ l \in Nat
        /\ n <= Len(y) /\ k <= Len(x) /\ l <= Len(x) + Len(y)
        /\ m = (IF off <= Len(x) THEN 1 ELSE off - Len(x) + 1)
        /\ n = (IF off + len - Len(x) < Len(y) THEN off + len - Len(x) ELSE Len(y))
        /\ k = (IF off + len < Len(x) THEN off + len ELSE Len(x))
        /\ l = (IF off + len < Len(x) + Len(y) THEN off + len ELSE Len(x) + Len(y))
    <2> DEFINE lx == Len(x)
               ly == Len(y)
    <2>1. lx \in Nat /\ ly \in Nat /\ off \in Nat /\ len \in Nat
      BY <1>1
    <2>2. /\ m = Greater(1, off - lx + 1) /\ n = Lesser(ly, off + len - lx)
          /\ k = Lesser(lx, off + len) /\ l = Lesser(lx + ly, off + len)
      OBVIOUS
    <2> HIDE DEF lx, ly, m, n, k, l
    <2>3. /\ m \in Nat \ {0} /\ n \in Int /\ n <= ly
          /\ m = (IF off <= lx THEN 1 ELSE off - lx + 1)
          /\ n = (IF off + len - lx < ly THEN off + len - lx ELSE ly)
      BY ONLY <2>1, <2>2 DEF Greater, Lesser
    <2>4. /\ k \in Nat /\ l \in Nat /\ k <= lx /\ l <= lx + ly
          /\ k = (IF off + len < lx THEN off + len ELSE lx)
          /\ l = (IF off + len < lx + ly THEN off + len ELSE lx + ly)
      BY ONLY <2>1, <2>2 DEF Lesser
    <2> QED
      BY <2>3, <2>4 DEF lx, ly
  <1> HIDE DEF m, n, k, l
  <1>3. /\ a \in Seq(S) /\ Len(a) = (IF off + 1 <= k THEN k - off ELSE 0)
        /\ \A i \in 1..Len(a) : a[i] = x[off + i]
    <2>1. off + 1 \in Nat \ {0} /\ k \in Int /\ k <= Len(x)
      BY <1>2
    <2>2. /\ a \in Seq(S) /\ Len(a) = (IF off + 1 <= k THEN k - (off + 1) + 1 ELSE 0)
          /\ \A i \in 1..Len(a) : a[i] = x[(off + 1) + i - 1]
      BY <2>1, SubSeqIs
    <2> HIDE DEF a
    <2>3. k - (off + 1) + 1 = k - off /\ \A i \in Int : (off + 1) + i - 1 = off + i
      BY <2>1
    <2> QED
      BY ONLY <2>2, <2>3
  <1>4. /\ b \in Seq(S) /\ Len(b) = (IF m <= n THEN n - m + 1 ELSE 0)
        /\ \A i \in 1..Len(b) : b[i] = y[m + i - 1]
    BY <1>2, SubSeqIs
  <1>5. /\ c \in Seq(S) /\ Len(c) = (IF off + 1 <= l THEN l - off ELSE 0)
        /\ \A i \in 1..Len(c) : c[i] = z[off + i]
    <2>1. off + 1 \in Nat \ {0} /\ l \in Int /\ l <= Len(z)
      BY <1>1, <1>2
    <2>2. /\ c \in Seq(S) /\ Len(c) = (IF off + 1 <= l THEN l - (off + 1) + 1 ELSE 0)
          /\ \A i \in 1..Len(c) : c[i] = z[(off + 1) + i - 1]
      BY <1>1, <2>1, SubSeqIs
    <2> HIDE DEF c
    <2> QED
      BY <1>2, <2>2
  <1> HIDE DEF a, b, c
  <1> DEFINE lx == Len(x)
             ly == Len(y)
             la == Len(a)
             lb == Len(b)
             lc == Len(c)
  <1>10. /\ lx \in Nat /\ ly \in Nat /\ m \in Int /\ n \in Int /\ k \in Int /\ l \in Int
         /\ la = (IF off + 1 <= k THEN k - off ELSE 0)
         /\ lb = (IF m <= n THEN n - m + 1 ELSE 0)
         /\ lc = (IF off + 1 <= l THEN l - off ELSE 0)
         /\ m = (IF off <= lx THEN 1 ELSE off - lx + 1)
         /\ n = (IF off + len - lx < ly THEN off + len - lx ELSE ly)
         /\ k = (IF off + len < lx THEN off + len ELSE lx)
         /\ l = (IF off + len < lx + ly THEN off + len ELSE lx + ly)
    BY <1>1, <1>2, <1>3, <1>4, <1>5
  <1> HIDE DEF lx, ly, la, lb, lc
  <1>11. lc = la + lb /\ la \in Nat /\ lb \in Nat /\ (lb > 0 => off + la = lx + m - 1)
         /\ (lb > 0 => m + lb - 1 <= ly)
    BY ONLY <1>10, off \in Nat, len \in Nat
  <1>6. Len(c) = Len(a) + Len(b)
    BY <1>11 DEF lx, ly, la, lb, lc
  <1>7. ASSUME NEW i \in 1..Len(a) PROVE c[i] = a[i]
    <2>1. Len(a) \in Nat /\ Len(b) \in Nat
      BY <1>3, <1>4
    <2>2. i \in 1..Len(c) /\ off + i \in 1..Len(x) /\ off + i \in 1..Len(x) + Len(y)
      BY <1>1, <1>2, <1>3, <1>6, <2>1, SMTT(60)
    <2>3. c[i] = z[off + i] /\ a[i] = x[off + i]
      BY <1>3, <1>5, <2>2
    <2> QED
      BY <1>1, <2>2, <2>3
  <1>8. ASSUME NEW i \in 1..Len(b) PROVE c[Len(a) + i] = b[i]
    <2>1. Len(a) \in Nat /\ Len(b) \in Nat
      BY <1>3, <1>4
    <2>2. Len(a) + i \in 1..Len(c)
      BY <1>6, <2>1
    <2>3. /\ off + (Len(a) + i) = Len(x) + (m + i - 1)
          /\ off + (Len(a) + i) \in 1..Len(x) + Len(y)
          /\ off + (Len(a) + i) > Len(x)
          /\ off + (Len(a) + i) - Len(x) = m + i - 1
      <3>1. la \in Nat /\ lb \in Nat /\ i \in 1..lb /\ lx \in Nat /\ ly \in Nat /\ m \in Nat
            /\ off + la = lx + m - 1 /\ m + lb - 1 <= ly /\ m >= 1
        <4>1. i \in 1..lb
          BY DEF lb
        <4> QED
          BY ONLY <4>1, <1>10, <1>11, off \in Nat, len \in Nat
      <3>2. /\ off + (la + i) = lx + (m + i - 1) /\ off + (la + i) \in 1..lx + ly
            /\ off + (la + i) > lx /\ off + (la + i) - lx = m + i - 1
        BY ONLY <3>1, off \in Nat
      <3> QED
        BY <3>2 DEF la, lx, ly
    <2>4. c[Len(a) + i] = z[off + (Len(a) + i)] /\ b[i] = y[m + i - 1]
      BY <1>4, <1>5, <2>2
    <2>5. z[off + (Len(a) + i)] = y[off + (Len(a) + i) - Len(x)]
      BY <1>1, <2>3
    <2> QED
      BY <2>3, <2>4, <2>5
  <1>9. c = a \o b
    BY <1>3, <1>4, <1>5, <1>6, <1>7, <1>8, IsConcat
  <1> QED
    BY <1>9 DEF a, b, c, z, m, n, k, l

\* The pieces of a part are the part of the whole.
LEMMA PiecesFlat ==
    ASSUME NEW c \in Chains, NEW q \in Seq(Seq(Bytes)), NEW off \in Nat, NEW len \in Nat,
           Len(q) = Len(c), \A i \in 1..Len(c) : q[i] = Piece(c, i, off, len)
    PROVE  FlattenSeq(q) = SubSeq(Flat(c), off + 1, Lesser(Size(c), off + len))
  <1> DEFINE Whole(r, d) == FlattenSeq(r) = SubSeq(Flat(d), off + 1, Lesser(Size(d), off + len))
             Pieces(r, d) == Len(r) = Len(d) /\ \A i \in 1..Len(d) : r[i] = Piece(d, i, off, len)
             T == {n \in Nat : \A d \in Chains, r \in Seq(Seq(Bytes)) :
                                 Len(d) = n /\ Pieces(r, d) => Whole(r, d)}
  <1>1. 0 \in T
    <2> SUFFICES ASSUME NEW d \in Chains, NEW r \in Seq(Seq(Bytes)), Len(d) = 0, Pieces(r, d)
                 PROVE  Whole(r, d)
      OBVIOUS
    <2>1. d = <<>> /\ r = <<>>
      BY DEF Chains
    <2>2. Lesser(0, off + len) = 0
      BY DEF Lesser
    <2>3. SubSeq(<<>>, off + 1, 0) = <<>>
      OBVIOUS
    <2> QED
      BY <2>1, <2>2, <2>3, FlatNone, FlattenEmpty
  <1>2. ASSUME NEW n \in Nat, n \in T PROVE n + 1 \in T
    <2> SUFFICES ASSUME NEW d \in Chains, NEW r \in Seq(Seq(Bytes)), Len(d) = n + 1,
                        Pieces(r, d)
                 PROVE  Whole(r, d)
      OBVIOUS
    <2> DEFINE e == SubSeq(d, 1, n)
               s == SubSeq(r, 1, n)
               m == d[n + 1]
               p == r[n + 1]
    <2>1. /\ e \in Chains /\ Len(e) = n /\ m \in Buffer /\ d = Append(e, m)
          /\ s \in Seq(Seq(Bytes)) /\ Len(s) = n /\ p \in Seq(Bytes) /\ r = Append(s, p)
      BY SplitLast DEF Chains
    <2>2. \A i \in 1..n : e[i] = d[i] /\ s[i] = r[i] /\ SubSeq(e, 1, i - 1) = SubSeq(d, 1, i - 1)
      BY DEF Chains
    <2>3. \A i \in 1..n : Start(e, i) = Start(d, i)
      BY <2>2 DEF Start
    <2>4. Start(d, n + 1) = Size(e)
      <3>1. n + 1 - 1 = n
        OBVIOUS
      <3> QED
        BY <3>1 DEF Start
    <2> HIDE DEF e, s, m, p
    <2>5. Pieces(s, e)
      <3>1. \A i \in 1..n : r[i] = Piece(d, i, off, len)
        OBVIOUS
      <3>2. \A i \in 1..n : Piece(d, i, off, len) = Piece(e, i, off, len)
        BY <2>2, <2>3 DEF Piece
      <3> QED
        BY <2>1, <2>2, <3>1, <3>2
    <2>6. FlattenSeq(s) = SubSeq(Flat(e), off + 1, Lesser(Size(e), off + len))
      BY <1>2, <2>1, <2>5
    <2>7. p = SubSeq(m.data, Greater(1, off - Size(e) + 1), Lesser(Len(m.data), off + len - Size(e)))
      <3>1. p = Piece(d, n + 1, off, len)
        BY DEF p
      <3>2. m = d[n + 1]
        BY DEF m
      <3> QED
        BY <2>4, <3>1, <3>2 DEF Piece
    <2>8. FlattenSeq(r) = FlattenSeq(s) \o p
      BY <2>1, FlattenAppend
    <2>9. Flat(d) = Flat(e) \o m.data /\ Size(d) = Size(e) + Len(m.data)
      BY <2>1, FlatAppend
    <2>10. SubSeq(Flat(e) \o m.data, off + 1, Lesser(Len(Flat(e)) + Len(m.data), off + len)) =
             SubSeq(Flat(e), off + 1, Lesser(Len(Flat(e)), off + len))
             \o SubSeq(m.data, Greater(1, off - Len(Flat(e)) + 1),
                       Lesser(Len(m.data), off + len - Len(Flat(e))))
      <3> DEFINE x == Flat(e)
                 y == m.data
      <3>1. x \in Seq(Bytes) /\ y \in Seq(Bytes)
        BY <2>1, FlatType, BufferFields
      <3> HIDE DEF x, y
      <3>2. SubSeq(x \o y, off + 1, Lesser(Len(x) + Len(y), off + len)) =
               SubSeq(x, off + 1, Lesser(Len(x), off + len))
               \o SubSeq(y, Greater(1, off - Len(x) + 1), Lesser(Len(y), off + len - Len(x)))
        BY ONLY <3>1, off \in Nat, len \in Nat, SubSeqOfConcat, ZenonT(60)
      <3> QED
        BY <3>2 DEF x, y
    <2>11. Size(e) = Len(Flat(e))
      BY <2>1, FlatType
    <2> QED
      BY <2>6, <2>7, <2>8, <2>9, <2>10, <2>11, Zenon
  <1> HIDE DEF T
  <1>3. Nat \subseteq T
    BY <1>1, <1>2, Induction
  <1>4. Len(c) \in T
    BY <1>3 DEF Chains
  <1> QED
    BY <1>4 DEF T

\* What one buffer contributes to a copy lies inside it.
LEMMA PieceType ==
    ASSUME NEW c \in Chains, NEW i \in 1..Len(c), NEW off \in Nat, NEW len \in Nat
    PROVE  Piece(c, i, off, len) \in Seq(Bytes) /\ Len(Piece(c, i, off, len)) <= Len(c[i].data)
  <1> DEFINE x == c[i].data
             m == Greater(1, off - Start(c, i) + 1)
             n == Lesser(Len(x), off + len - Start(c, i))
  <1>1. x \in Seq(Bytes) /\ Start(c, i) \in Nat
    BY StartBounds, BufferFields DEF Chains
  <1> HIDE DEF x
  <1>2. m \in Nat \ {0} /\ n \in Int /\ n <= Len(x)
    BY <1>1 DEF Greater, Lesser
  <1> HIDE DEF m, n
  <1>3. SubSeq(x, m, n) \in Seq(Bytes) /\ Len(SubSeq(x, m, n)) = IF m <= n THEN n - m + 1 ELSE 0
    BY <1>1, <1>2, SubSeqIs
  <1>4. Len(x) \in Nat /\ Len(SubSeq(x, m, n)) <= Len(x)
    BY <1>1, <1>2, <1>3
  <1> QED
    BY <1>3, <1>4 DEF Piece, x, m, n

\* dpl_mbuf_copydata reads the bytes at the offset, as many as there are.
LEMMA CopyDataFlat ==
    ASSUME NEW c \in Chains, NEW off \in Nat, NEW len \in Nat
    PROVE  CopyData(c, off, len) = SubSeq(Flat(c), off + 1, Lesser(Size(c), off + len))
  <1> DEFINE q == [i \in DOMAIN c |-> Piece(c, i, off, len)]
  <1>1. Len(c) \in Nat /\ DOMAIN c = 1..Len(c)
    BY DEF Chains
  <1>2. q \in Seq(Seq(Bytes)) /\ Len(q) = Len(c)
    <2>1. q \in [1..Len(c) -> Seq(Bytes)]
      BY <1>1, PieceType
    <2> HIDE DEF q
    <2> QED
      BY <1>1, <2>1
  <1>3. \A i \in 1..Len(c) : q[i] = Piece(c, i, off, len)
    BY <1>1
  <1>4. CopyData(c, off, len) = FlattenSeq(q)
    BY DEF CopyData
  <1> HIDE DEF q
  <1>5. FlattenSeq(q) = SubSeq(Flat(c), off + 1, Lesser(Size(c), off + len))
    BY <1>2, <1>3, PiecesFlat
  <1> QED
    BY <1>4, <1>5

\* Records with some fields replaced.
LEMMA BufferExcept ==
    ASSUME NEW m \in Buffer, NEW o, NEW d, NEW h
    PROVE  /\ [m EXCEPT !.data = d] = [off |-> m.off, data |-> d, hdr |-> m.hdr]
           /\ [m EXCEPT !.data = d, !.off = o] = [off |-> o, data |-> d, hdr |-> m.hdr]
           /\ [m EXCEPT !.hdr = h] = [off |-> m.off, data |-> m.data, hdr |-> h]
  <1>1. m \in [off : Nat, data : Seq(Bytes), hdr : {0, HdrLen}]
    BY DEF Buffer
  <1>2. [m EXCEPT !.data = d] = [off |-> m.off, data |-> d, hdr |-> m.hdr]
    BY ONLY <1>1
  <1>3. [m EXCEPT !.data = d, !.off = o] = [off |-> o, data |-> d, hdr |-> m.hdr]
    <2>1. [m EXCEPT !.data = d, !.off = o] = [[m EXCEPT !.data = d] EXCEPT !.off = o]
      OBVIOUS
    <2>2. [[off |-> m.off, data |-> d, hdr |-> m.hdr] EXCEPT !.off = o]
             = [off |-> o, data |-> d, hdr |-> m.hdr]
      BY ONLY TRUE
    <2> QED
      BY ONLY <1>2, <2>1, <2>2, Zenon
  <1>5. [m EXCEPT !.hdr = h] = [off |-> m.off, data |-> m.data, hdr |-> h]
    BY ONLY <1>1
  <1> QED
    BY <1>2, <1>3, <1>5

\* Concatenation of byte strings is associative.
LEMMA ConcatBytes ==
    \A x, y, z \in Seq(Bytes) : (x \o y) \o z = x \o (y \o z)
  BY ConcatAssociative

\* A buffer stays one when its front, its tail or all of its data is cut.
LEMMA HeadBuffer ==
    ASSUME NEW m \in Buffer, NEW cut \in 0..Len(m.data)
    PROVE  /\ [m EXCEPT !.data = <<>>] \in Buffer
           /\ [m EXCEPT !.data = SubSeq(@, cut + 1, Len(@)), !.off = @ + cut] \in Buffer
           /\ [m EXCEPT !.data = SubSeq(@, cut + 1, Len(@)), !.off = @ + cut].data
                 = SubSeq(m.data, cut + 1, Len(m.data))
           /\ [m EXCEPT !.data = SubSeq(@, 1, cut)] \in Buffer
  <1> DEFINE x == m.data
  <1>1. /\ x \in Seq(Bytes) /\ Len(x) \in Nat /\ m.off \in Nat /\ m.hdr \in {0, HdrLen}
        /\ m.off + Len(x) <= BufLen /\ m.hdr <= m.off /\ m = [off |-> m.off, data |-> x, hdr |-> m.hdr]
    BY BufferFields DEF Buffer
  <1> HIDE DEF x
  <1>2. /\ SubSeq(x, cut + 1, Len(x)) \in Seq(Bytes) /\ Len(SubSeq(x, cut + 1, Len(x))) = Len(x) - cut
        /\ SubSeq(x, 1, cut) \in Seq(Bytes) /\ Len(SubSeq(x, 1, cut)) = cut
        /\ cut \in 0..Len(x)
    BY <1>1 DEF x
  <1>3. [off |-> m.off, data |-> <<>>, hdr |-> m.hdr] \in Buffer
    BY <1>1, MbufConstants DEF Buffer, Leading, Trailing
  <1>4. [off |-> m.off + cut, data |-> SubSeq(x, cut + 1, Len(x)), hdr |-> m.hdr] \in Buffer
    BY <1>1, <1>2, MbufConstants, SMTT(60) DEF Buffer, Leading, Trailing
  <1>5. [off |-> m.off, data |-> SubSeq(x, 1, cut), hdr |-> m.hdr] \in Buffer
    BY <1>1, <1>2, MbufConstants DEF Buffer, Leading, Trailing
  <1>6. [m EXCEPT !.data = <<>>] = [off |-> m.off, data |-> <<>>, hdr |-> m.hdr]
    BY BufferExcept
  <1>7. [m EXCEPT !.data = SubSeq(@, cut + 1, Len(@)), !.off = @ + cut] =
           [off |-> m.off + cut, data |-> SubSeq(x, cut + 1, Len(x)), hdr |-> m.hdr]
    BY BufferExcept DEF x
  <1>8. [m EXCEPT !.data = SubSeq(@, 1, cut)] =
           [off |-> m.off, data |-> SubSeq(x, 1, cut), hdr |-> m.hdr]
    BY BufferExcept DEF x
  <1>9. [m EXCEPT !.data = SubSeq(@, cut + 1, Len(@)), !.off = @ + cut].data
            = SubSeq(m.data, cut + 1, Len(m.data))
    BY <1>7 DEF x
  <1> QED
    BY <1>3, <1>4, <1>5, <1>6, <1>7, <1>8, <1>9

\* dpl_mbuf_adj from the head takes n bytes away.
LEMMA TrimmedHeadFlat ==
    ASSUME NEW c \in Chains, NEW n \in Nat
    PROVE  /\ TrimmedHead(c, n) \in Chains /\ Len(TrimmedHead(c, n)) = Len(c)
           /\ Flat(TrimmedHead(c, n)) = SubSeq(Flat(c), n + 1, Size(c))
           /\ \A i \in 1..Len(c) : TrimmedHead(c, n)[i].hdr = c[i].hdr
  <1> DEFINE cut(i) == Lesser(Greater(0, n - Start(c, i)), Len(c[i].data))
             t == TrimmedHead(c, n)
  <1>1. Len(c) \in Nat /\ DOMAIN c = 1..Len(c)
    BY DEF Chains
  <1>2. ASSUME NEW i \in 1..Len(c)
        PROVE  /\ t[i] \in Buffer /\ t[i].hdr = c[i].hdr
               /\ t[i].data = Piece(c, i, n, Size(c))
    <2> DEFINE x == c[i].data
               k == cut(i)
    <2>1. /\ c[i] \in Buffer /\ x \in Seq(Bytes) /\ Len(x) \in Nat /\ Start(c, i) \in Nat
          /\ Start(c, i) + Len(x) <= Size(c)
      BY StartBounds, BufferFields DEF Chains
    <2>2. k \in 0..Len(x) /\ k = IF n - Start(c, i) > Len(x) THEN Len(x)
                                ELSE IF n > Start(c, i) THEN n - Start(c, i) ELSE 0
      BY <2>1 DEF Lesser, Greater
    <2>3. t[i] = IF k = Len(x) THEN [c[i] EXCEPT !.data = <<>>]
                 ELSE [c[i] EXCEPT !.data = SubSeq(@, k + 1, Len(@)), !.off = @ + k]
      BY <1>1 DEF TrimmedHead
    <2>4. Piece(c, i, n, Size(c)) = SubSeq(x, Greater(1, n - Start(c, i) + 1), Lesser(Len(x), n + Size(c) - Start(c, i)))
      BY DEF Piece
    <2>5. Lesser(Len(x), n + Size(c) - Start(c, i)) = Len(x)
      BY <2>1, FlatType DEF Lesser
    <2> HIDE DEF k, x
    <2>6. CASE k = Len(x)
      <3>1. t[i] \in Buffer /\ t[i].hdr = c[i].hdr /\ t[i].data = <<>>
        <4>1. [c[i] EXCEPT !.data = <<>>] \in Buffer
          BY <2>1, <2>2, HeadBuffer DEF x
        <4>2. [c[i] EXCEPT !.data = <<>>] = [off |-> c[i].off, data |-> <<>>, hdr |-> c[i].hdr]
          BY <2>1, BufferExcept
        <4> QED
          BY ONLY <2>3, <2>6, <4>1, <4>2
      <3>2. Greater(1, n - Start(c, i) + 1) \in Int /\ Greater(1, n - Start(c, i) + 1) > Len(x)
        BY <2>1, <2>2, <2>6 DEF Greater
      <3>3. SubSeq(x, Greater(1, n - Start(c, i) + 1), Len(x)) = <<>>
        BY <2>1, <3>2, SubSeqEmpty
      <3> QED
        BY <2>4, <2>5, <3>1, <3>3
    <2>7. CASE k # Len(x)
      <3>1. /\ t[i] \in Buffer /\ t[i].hdr = c[i].hdr
            /\ t[i].data = SubSeq(x, k + 1, Len(x))
        <4>1. [c[i] EXCEPT !.data = SubSeq(@, k + 1, Len(@)), !.off = @ + k] \in Buffer
          BY <2>1, <2>2, HeadBuffer DEF x
        <4> QED
          BY <2>1, <2>3, <2>7, <4>1 DEF Buffer, x
      <3>2. Greater(1, n - Start(c, i) + 1) = k + 1
        BY <2>1, <2>2, <2>7 DEF Greater
      <3> QED
        BY <2>4, <2>5, <3>1, <3>2
    <2> QED
      BY <2>6, <2>7
  <1>3. t \in Chains /\ Len(t) = Len(c)
    <2>1. t = [i \in 1..Len(c) |-> t[i]]
      BY <1>1 DEF TrimmedHead
    <2> HIDE DEF t
    <2>2. t \in [1..Len(c) -> Buffer]
      BY <1>2, <2>1
    <2> QED
      BY <1>1, <2>2 DEF Chains
  <1> HIDE DEF t
  <1>4. Datas(t) \in Seq(Seq(Bytes)) /\ Len(Datas(t)) = Len(c)
        /\ \A i \in 1..Len(c) : Datas(t)[i] = Piece(c, i, n, Size(c))
    BY <1>2, <1>3, DatasType
  <1>5. FlattenSeq(Datas(t)) = SubSeq(Flat(c), n + 1, Lesser(Size(c), n + Size(c)))
    BY <1>4, FlatType, PiecesFlat
  <1>6. Lesser(Size(c), n + Size(c)) = Size(c)
    BY FlatType DEF Lesser
  <1>7. Flat(t) = FlattenSeq(Datas(t))
    BY DEF Flat, Datas
  <1> QED
    BY <1>2, <1>3, <1>5, <1>6, <1>7 DEF t

-----------------------------------------------------------------------------
(* Trimming                                                                *)

\* The first of the indexes in a set, as the walks along a chain find it.
LEMMA LeastIndex ==
    ASSUME NEW n \in Nat, NEW I \in SUBSET (1..n), I # {}
    PROVE  LET e == CHOOSE i \in I : \A j \in I : i <= j
           IN  e \in I /\ \A j \in 1..n : j < e => j \notin I
  <1>1. I \in SUBSET Nat
    OBVIOUS
  <1>2. \E i \in I : \A j \in I : i <= j
    BY <1>1, LeastElement
  <1> DEFINE e == CHOOSE i \in I : \A j \in I : i <= j
  <1>3. e \in I /\ \A j \in I : e <= j
    BY <1>2
  <1> HIDE DEF e
  <1>4. \A j \in 1..n : j < e => j \notin I
    BY <1>3
  <1> QED
    BY <1>3, <1>4 DEF e

\* The first n bytes of x \o y, if they end in y.
LEMMA PrefixOfConcat ==
    ASSUME NEW S, NEW x \in Seq(S), NEW y \in Seq(S), NEW k \in 0..Len(y)
    PROVE  SubSeq(x \o y, 1, Len(x) + k) = x \o SubSeq(y, 1, k)
  <1> DEFINE z == SubSeq(x \o y, 1, Len(x) + k)
             w == SubSeq(y, 1, k)
  <1>1. Len(x) \in Nat /\ Len(y) \in Nat /\ k \in Nat
    OBVIOUS
  <1>2. w \in Seq(S) /\ Len(w) = k /\ \A i \in 1..k : w[i] = y[i]
    OBVIOUS
  <1>3. z \in Seq(S) /\ Len(z) = Len(x) + k
        /\ \A i \in 1..Len(x) + k : z[i] = IF i <= Len(x) THEN x[i] ELSE y[i - Len(x)]
    OBVIOUS
  <1> HIDE DEF z, w
  <1>4. ASSUME NEW i \in 1..Len(x) PROVE z[i] = x[i]
    BY <1>1, <1>3
  <1>5. ASSUME NEW i \in 1..Len(w) PROVE z[Len(x) + i] = w[i]
    <2>1. Len(x) + i \in 1..Len(x) + k /\ ~(Len(x) + i <= Len(x)) /\ Len(x) + i - Len(x) = i
          /\ i \in 1..k
      BY <1>1, <1>2
    <2> QED
      BY <1>2, <1>3, <2>1
  <1>6. z = x \o w
    BY <1>2, <1>3, <1>4, <1>5, IsConcat
  <1> QED
    BY <1>6 DEF z, w

\* dpl_mbuf_adj keeping n bytes of buffer i frees what follows them.
LEMMA KeepFlat ==
    ASSUME NEW c \in Chains, NEW i \in 1..Len(c), NEW n \in 0..Len(c[i].data)
    PROVE  /\ Keep(c, i, n) \in Chains /\ Len(Keep(c, i, n)) = i
           /\ Flat(Keep(c, i, n)) = SubSeq(Flat(c), 1, Start(c, i) + n)
           /\ Keep(c, i, n)[1].hdr = c[1].hdr
  <1> DEFINE a == SubSeq(c, 1, i - 1)
             b == SubSeq(c, i + 1, Len(c))
             m == [c[i] EXCEPT !.data = SubSeq(@, 1, n)]
             d == c[i].data
             k == Append(a, m)
  <1>1. /\ Len(c) \in Nat /\ c[i] \in Buffer /\ d \in Seq(Bytes) /\ Len(d) \in Nat
        /\ n \in 0..Len(d)
    BY BufferFields DEF Chains
  <1>2. m \in Buffer /\ m.data = SubSeq(d, 1, n) /\ m.hdr = c[i].hdr
    <2>1. m \in Buffer
      BY <1>1, HeadBuffer
    <2>2. m = [off |-> c[i].off, data |-> SubSeq(d, 1, n), hdr |-> c[i].hdr]
      BY <1>1, BufferExcept
    <2> HIDE DEF m
    <2> QED
      BY <2>1, <2>2, SMTT(60)
  <1>3. a \in Chains /\ b \in Chains /\ Len(a) = i - 1 /\ c = Append(a, c[i]) \o b
        /\ (i > 1 => a[1] = c[1])
    <2>1. a \in Chains /\ b \in Chains /\ Len(a) = i - 1 /\ (i > 1 => a[1] = c[1])
      BY <1>1 DEF Chains
    <2>2. SubSeq(c, 1, i) = Append(a, c[i])
      BY <1>1 DEF Chains
    <2>3. SubSeq(c, 1, i) \o b = SubSeq(c, 1, Len(c))
      <3>1. 1 \in 1..Len(c) + 1 /\ i \in 1 - 1..Len(c) /\ Len(c) \in i..Len(c)
        BY <1>1
      <3> QED
        BY <3>1, ConcatAdjacentSubSeq DEF Chains
    <2> QED
      BY <2>1, <2>2, <2>3, SubSeqFull DEF Chains
  <1>4. Size(a) = Start(c, i)
    BY DEF Start
  <1> HIDE DEF a, b, m, d
  <1>5. k \in Chains /\ Flat(k) = Flat(a) \o SubSeq(d, 1, n)
    BY <1>2, <1>3, FlatAppend
  <1>6. Flat(c) = (Flat(a) \o d) \o Flat(b)
    <2>1. Append(a, c[i]) \in Chains /\ Flat(Append(a, c[i])) = Flat(a) \o d
      BY <1>1, <1>3, FlatAppend DEF d
    <2>2. Flat(Append(a, c[i]) \o b) = Flat(Append(a, c[i])) \o Flat(b)
      <3> DEFINE e == Append(a, c[i])
      <3> HIDE DEF e
      <3> QED
        BY <1>3, <2>1, FlatConcat DEF e
    <2> QED
      BY ONLY <1>3, <2>1, <2>2, Zenon
  <1>7. SubSeq(Flat(c), 1, Start(c, i) + n) = Flat(a) \o SubSeq(d, 1, n)
    <2> DEFINE x == Flat(a)
               y == Flat(b)
    <2>1. x \in Seq(Bytes) /\ y \in Seq(Bytes) /\ Len(x) = Start(c, i)
      BY <1>3, <1>4, FlatType
    <2> HIDE DEF x, y
    <2>2. SubSeq((x \o d) \o y, 1, Len(x) + n) = SubSeq(x \o d, 1, Len(x) + n)
      BY <1>1, <2>1, SMTT(60)
    <2>3. SubSeq(x \o d, 1, Len(x) + n) = x \o SubSeq(d, 1, n)
      BY <1>1, <2>1, PrefixOfConcat
    <2> QED
      BY <1>6, <2>1, <2>2, <2>3 DEF x, y
  <1>8. Len(k) = i /\ k[1].hdr = c[1].hdr
    <2>1. Len(k) = i /\ (i > 1 => k[1] = a[1]) /\ (i = 1 => k[1] = m)
      BY <1>1, <1>2, <1>3 DEF Chains
    <2> QED
      BY <1>2, <1>3, <2>1
  <1> QED
    BY <1>5, <1>7, <1>8 DEF Keep, a, m

\* The buffer in which the first count bytes end.
LEMMA EndsThere ==
    ASSUME NEW c \in Chains, c # <<>>, NEW count \in Nat, count <= Size(c)
    PROVE  LET ends == {i \in DOMAIN c : Start(c, i) + Len(c[i].data) >= count}
               end == CHOOSE i \in ends : \A j \in ends : i <= j
           IN  /\ ends # {}
               /\ end \in 1..Len(c)
               /\ count - Start(c, end) \in 0..Len(c[end].data)
  <1> DEFINE ends == {i \in DOMAIN c : Start(c, i) + Len(c[i].data) >= count}
             end == CHOOSE i \in ends : \A j \in ends : i <= j
  <1>1. Len(c) \in Nat \ {0} /\ DOMAIN c = 1..Len(c)
    BY DEF Chains
  <1>2. Len(c) \in ends
    <2>1. Start(c, Len(c)) + Len(c[Len(c)].data) = Size(c)
      BY <1>1, StartStep
    <2> QED
      BY <1>1, <2>1
  <1>3. end \in ends /\ \A j \in 1..Len(c) : j < end => j \notin ends
    <2>1. ends \in SUBSET (1..Len(c)) /\ ends # {} /\ Len(c) \in Nat
      BY <1>1, <1>2
    <2> HIDE DEF ends
    <2> QED
      BY <2>1, LeastIndex
  <1>4. end \in 1..Len(c) /\ Start(c, end) + Len(c[end].data) >= count
    BY <1>1, <1>3
  <1>5. Start(c, end) <= count
    <2>1. CASE end = 1
      <3> HIDE DEF end
      <3> QED
        BY <2>1, StartStep
    <2>2. CASE end # 1
      <3> DEFINE p == end - 1
      <3> HIDE DEF end
      <3>1. p \in 1..Len(c) /\ p < end /\ p + 1 = end
        BY <1>4, <2>2
      <3>2. p \notin ends
        BY <1>3, <3>1
      <3>3. ~(Start(c, p) + Len(c[p].data) >= count)
        BY <1>1, <3>1, <3>2
      <3>4. Start(c, p + 1) = Start(c, p) + Len(c[p].data)
            /\ Start(c, p) \in Nat /\ Len(c[p].data) \in Nat
        BY <3>1, StartStep, StartBounds
      <3>5. Start(c, end) = Start(c, p) + Len(c[p].data)
        BY ONLY <3>1, <3>4
      <3> QED
        BY ONLY <3>3, <3>4, <3>5, count \in Nat
    <2> QED
      BY <2>1, <2>2
  <1> HIDE DEF end
  <1>6. count - Start(c, end) \in 0..Len(c[end].data)
    <2>1. Start(c, end) \in Nat /\ Len(c[end].data) \in Nat
      BY <1>4, StartBounds
    <2> QED
      BY <1>4, <1>5, <2>1
  <1> QED
    BY <1>2, <1>4, <1>6 DEF end

\* dpl_mbuf_adj from the tail takes n bytes away, and frees no more than it need.
LEMMA TrimmedTailFlat ==
    ASSUME NEW c \in Chains, c # <<>>, NEW n \in Nat
    PROVE  /\ TrimmedTail(c, n) \in Chains /\ Len(TrimmedTail(c, n)) \in 1..Len(c)
           /\ Flat(TrimmedTail(c, n)) = SubSeq(Flat(c), 1, Size(c) - n)
           /\ TrimmedTail(c, n)[1].hdr = c[1].hdr
  <1> DEFINE last == Len(c[Len(c)].data)
             count == Greater(0, Size(c) - n)
             ends == {i \in DOMAIN c : Start(c, i) + Len(c[i].data) >= count}
             end == CHOOSE i \in ends : \A j \in ends : i <= j
  <1>1. Len(c) \in Nat \ {0} /\ Len(c) \in 1..Len(c)
    BY DEF Chains
  <1>2. /\ Start(c, Len(c)) + last = Size(c) /\ Start(c, Len(c)) \in Nat /\ last \in Nat
        /\ Size(c) \in Nat
    BY <1>1, StartStep, StartBounds, FlatType
  <1>3. CASE last >= n
    <2>1. last - n \in 0..last
      BY <1>2, <1>3
    <2>2. TrimmedTail(c, n) = Keep(c, Len(c), last - n)
      BY <1>3 DEF TrimmedTail
    <2>3. Start(c, Len(c)) + (last - n) = Size(c) - n
      BY <1>2
    <2> QED
      BY <1>1, <2>1, <2>2, <2>3, KeepFlat
  <1>4. CASE ~(last >= n)
    <2>1. TrimmedTail(c, n) = Keep(c, end, count - Start(c, end))
      BY <1>4 DEF TrimmedTail
    <2>2. count \in Nat /\ count <= Size(c)
      BY <1>2 DEF Greater
    <2>3. end \in 1..Len(c) /\ count - Start(c, end) \in 0..Len(c[end].data)
      <3> HIDE DEF count
      <3> QED
        BY <2>2, EndsThere
    <2> HIDE DEF end
    <2>4. /\ Keep(c, end, count - Start(c, end)) \in Chains
          /\ Len(Keep(c, end, count - Start(c, end))) = end
          /\ Flat(Keep(c, end, count - Start(c, end)))
               = SubSeq(Flat(c), 1, Start(c, end) + (count - Start(c, end)))
          /\ Keep(c, end, count - Start(c, end))[1].hdr = c[1].hdr
      <3> DEFINE k == count - Start(c, end)
      <3>1. k \in 0..Len(c[end].data)
        BY <2>3
      <3> HIDE DEF k
      <3>2. /\ Keep(c, end, k) \in Chains /\ Len(Keep(c, end, k)) = end
            /\ Flat(Keep(c, end, k)) = SubSeq(Flat(c), 1, Start(c, end) + k)
            /\ Keep(c, end, k)[1].hdr = c[1].hdr
        BY <2>3, <3>1, KeepFlat
      <3> QED
        BY <3>2 DEF k
    <2>5. Start(c, end) + (count - Start(c, end)) = count
      BY <2>2, <2>3, StartBounds
    <2>6. SubSeq(Flat(c), 1, count) = SubSeq(Flat(c), 1, Size(c) - n)
      <3>1. CASE Size(c) >= n
        <4>1. count = Size(c) - n
          BY <1>2, <3>1 DEF Greater
        <4> QED
          BY <4>1
      <3>2. CASE ~(Size(c) >= n)
        <4>1. count = 0 /\ Size(c) - n < 1 /\ Size(c) - n \in Int
          BY <1>2, <3>2 DEF Greater
        <4>2. SubSeq(Flat(c), 1, 0) = <<>> /\ SubSeq(Flat(c), 1, Size(c) - n) = <<>>
          <5> DEFINE x == Flat(c)
                     k == Size(c) - n
          <5> HIDE DEF x, k
          <5>1. SubSeq(x, 1, 0) = <<>> /\ SubSeq(x, 1, k) = <<>>
            BY <4>1, SubSeqEmpty DEF k
          <5> QED
            BY <5>1 DEF x, k
        <4> QED
          BY <4>1, <4>2
      <3> QED
        BY <3>1, <3>2
    <2> QED
      BY ONLY <2>1, <2>3, <2>4, <2>5, <2>6
  <1> QED
    BY <1>3, <1>4

\* Empty buffers hold no bytes.
LEMMA FlatBlank ==
    ASSUME NEW c \in Chains, \A i \in 1..Len(c) : c[i].data = <<>>
    PROVE  Flat(c) = <<>>
  <1> DEFINE T == {n \in Nat : n <= Len(c) => Start(c, n + 1) = 0}
  <1>0. Len(c) \in Nat
    BY DEF Chains
  <1>1. 0 \in T
    BY StartStep
  <1>2. ASSUME NEW n \in Nat, n \in T PROVE n + 1 \in T
    <2> SUFFICES ASSUME n + 1 <= Len(c) PROVE Start(c, (n + 1) + 1) = 0
      OBVIOUS
    <2>1. n + 1 \in 1..Len(c) /\ n <= Len(c)
      BY <1>0
    <2>2. Start(c, (n + 1) + 1) = Start(c, n + 1) + Len(c[n + 1].data)
      BY <2>1, StartStep
    <2>3. Len(c[n + 1].data) = 0
      BY <2>1
    <2>4. Start(c, n + 1) = 0
      BY <1>2, <2>1
    <2> QED
      BY ONLY <2>2, <2>3, <2>4
  <1> HIDE DEF T
  <1>3. Nat \subseteq T
    BY <1>1, <1>2, Induction
  <1>4. Start(c, Len(c) + 1) = 0
    BY <1>0, <1>3 DEF T
  <1>5. Size(c) = 0
    BY <1>4, StartStep
  <1> QED
    BY <1>5, FlatType

\* dpl_mbuf_trim_front takes no byte away.
LEMMA TrimmedFrontFlat ==
    ASSUME NEW c \in Chains, c # <<>>
    PROVE  /\ TrimmedFront(c) \in Chains /\ Len(TrimmedFront(c)) \in 1..Len(c)
           /\ Flat(TrimmedFront(c)) = Flat(c)
           /\ TrimmedFront(c)[1].hdr = c[1].hdr
  <1> DEFINE full == {i \in 2..Len(c) : c[i].data # <<>>}
             first == CHOOSE i \in full : \A j \in full : i <= j
             rest == SubSeq(c, first, Len(c))
  <1>1. Len(c) \in Nat \ {0} /\ 1 \in 1..Len(c) /\ c[1] \in Buffer
    BY DEF Chains
  <1>2. CASE c[1].data # <<>>
    BY <1>1, <1>2 DEF TrimmedFront
  <1>3. CASE c[1].data = <<>> /\ full = {}
    <2>1. TrimmedFront(c) = <<c[1]>>
      BY <1>3 DEF TrimmedFront
    <2>2. \A i \in 1..Len(c) : c[i].data = <<>>
      BY <1>1, <1>3
    <2>3. Flat(c) = <<>>
      BY <2>2, FlatBlank
    <2>4. <<c[1]>> \in Chains /\ Flat(<<c[1]>>) = <<>>
      BY <1>1, <1>3, FlatOne
    <2>5. Len(<<c[1]>>) = 1 /\ <<c[1]>>[1] = c[1]
      OBVIOUS
    <2> QED
      BY ONLY <1>1, <2>1, <2>3, <2>4, <2>5
  <1>4. CASE c[1].data = <<>> /\ full # {}
    <2>1. first \in full /\ \A j \in 1..Len(c) : j < first => j \notin full
      <3>1. full \in SUBSET (1..Len(c)) /\ Len(c) \in Nat
        BY <1>1
      <3> HIDE DEF full
      <3> QED
        BY <1>4, <3>1, LeastIndex
    <2>2. first \in 2..Len(c) /\ \A j \in 1..first - 1 : c[j].data = <<>>
      <3> HIDE DEF first
      <3>1. first \in 2..Len(c)
        BY <2>1
      <3>2. ASSUME NEW j \in 1..first - 1 PROVE c[j].data = <<>>
        <4>1. CASE j = 1
          BY <1>4, <4>1
        <4>2. CASE j # 1
          BY <1>1, <2>1, <3>1, <4>2
        <4> QED
          BY <4>1, <4>2
      <3> QED
        BY <3>1, <3>2
    <2> DEFINE n == first - 1
    <2>3. n \in 0..Len(c) /\ n + 1 = first
      <3> HIDE DEF first
      <3> QED
        BY <1>1, <2>2
    <2>4. /\ SubSeq(c, 1, n) \in Chains /\ rest \in Chains
          /\ Flat(c) = Flat(SubSeq(c, 1, n)) \o Flat(rest)
      <3> HIDE DEF n, first
      <3> QED
        BY <2>3, FlatSplit
    <2>5. Flat(SubSeq(c, 1, n)) = <<>>
      <3>1. \A i \in 1..Len(SubSeq(c, 1, n)) : SubSeq(c, 1, n)[i].data = <<>>
        <4> HIDE DEF first
        <4> QED
          BY <1>1, <2>2 DEF Chains
      <3> DEFINE p == SubSeq(c, 1, n)
      <3> HIDE DEF p
      <3> QED
        BY <2>4, <3>1, FlatBlank DEF p
    <2>6. Len(rest) = Len(c) - first + 1 /\ Len(rest) \in Nat \ {0} /\ rest[1] \in Buffer
          /\ Len(rest) + 1 <= Len(c)
      <3> HIDE DEF first
      <3> QED
        BY <1>1, <2>2, <2>4 DEF Chains
    <2> HIDE DEF first, rest, n
    <2>7. Flat(rest) = Flat(c)
      BY <2>4, <2>5, FlatType
    <2>8. CASE Leading(rest[1]) >= c[1].hdr
      <3> DEFINE t == [rest EXCEPT ![1].hdr = c[1].hdr]
                 m == [rest[1] EXCEPT !.hdr = c[1].hdr]
      <3>1. TrimmedFront(c) = t
        BY <1>4, <2>8 DEF TrimmedFront, first, rest
      <3>2. m = [off |-> rest[1].off, data |-> rest[1].data, hdr |-> c[1].hdr]
        BY <2>6, BufferExcept
      <3>3. m \in Buffer
        <4>1. /\ rest[1].off \in Nat /\ rest[1].data \in Seq(Bytes) /\ rest[1].hdr \in Nat
              /\ rest[1].off + Len(rest[1].data) <= BufLen
          BY <2>6, BufferFields
        <4>2. c[1].hdr \in {0, HdrLen} /\ c[1].hdr \in Nat
          BY <1>1, BufferFields DEF Buffer
        <4>3. c[1].hdr <= rest[1].off
          BY <2>8, <4>1, <4>2 DEF Leading
        <4> QED
          <5> DEFINE o == rest[1].off
                     d == rest[1].data
                     h == c[1].hdr
          <5>1. o \in Nat /\ d \in Seq(Bytes) /\ h \in {0, HdrLen} /\ h <= o /\ o + Len(d) <= BufLen
            BY <4>1, <4>2, <4>3
          <5> HIDE DEF o, d, h
          <5>2. [off |-> o, data |-> d, hdr |-> h] \in Buffer
            BY <5>1, IsBuffer
          <5> QED
            BY <3>2, <5>2 DEF o, d, h
      <3>4. t = [rest EXCEPT ![1] = m]
        OBVIOUS
      <3> HIDE DEF m, t
      <3>5. t \in Chains /\ Len(t) = Len(rest) /\ t[1] = m
            /\ \A i \in 2..Len(rest) : t[i] = rest[i]
        BY <2>4, <2>6, <3>3, <3>4 DEF Chains
      <3>6. \A i \in 1..Len(rest) : t[i].data = rest[i].data
        BY <3>2, <3>5
      <3>7. Flat(t) = Flat(rest)
        BY <2>4, <3>5, <3>6, FlatSame
      <3> QED
        BY <1>1, <2>6, <2>7, <3>1, <3>2, <3>5, <3>7
    <2>9. CASE ~(Leading(rest[1]) >= c[1].hdr)
      <3>1. TrimmedFront(c) = <<c[1]>> \o rest
        BY <1>4, <2>9 DEF TrimmedFront, first, rest
      <3>2. <<c[1]>> \in Chains /\ Flat(<<c[1]>>) = <<>>
        BY <1>1, <1>4, FlatOne
      <3>3. Len(<<c[1]>> \o rest) = Len(rest) + 1 /\ (<<c[1]>> \o rest)[1] = c[1]
        BY <1>1, <2>4 DEF Chains
      <3> DEFINE p == <<c[1]>>
      <3> HIDE DEF p
      <3>4. p \o rest \in Chains /\ Flat(p \o rest) = Flat(p) \o Flat(rest)
        BY <2>4, <3>2, FlatConcat DEF p
      <3>5. Flat(p) \o Flat(rest) = Flat(c)
        BY <2>7, <3>2, FlatType, SMTT(60) DEF p
      <3> HIDE DEF n
      <3>6. TrimmedFront(c) = p \o rest /\ Len(p \o rest) \in 1..Len(c) /\ (p \o rest)[1] = c[1]
        BY <1>1, <2>6, <3>1, <3>3 DEF p
      <3> QED
        BY ONLY <3>4, <3>5, <3>6, SMTT(60)
    <2> QED
      BY <2>8, <2>9
  <1> QED
    BY <1>2, <1>3, <1>4

-----------------------------------------------------------------------------
(* Cutting bytes into buffers                                              *)

\* A prefix one member longer.
LEMMA PrefixStep ==
    ASSUME NEW S, NEW q \in Seq(S), NEW k \in Nat, k < Len(q)
    PROVE  /\ SubSeq(q, 1, k) \in Seq(S) /\ q[k + 1] \in S
           /\ SubSeq(q, 1, k + 1) = Append(SubSeq(q, 1, k), q[k + 1])
  OBVIOUS

\* Pieces of x that follow each other, flattened, are a prefix of x.
LEMMA CutsFlat ==
    ASSUME NEW S, NEW n \in Nat, NEW x \in Seq(S), NEW q \in Seq(Seq(S)), Len(q) = n,
           NEW b \in [0..n -> 0..Len(x)], b[0] = 0,
           \A i \in 1..n : b[i - 1] <= b[i] /\ q[i] = SubSeq(x, b[i - 1] + 1, b[i])
    PROVE  FlattenSeq(q) = SubSeq(x, 1, b[n])
  <1>0. \A i \in 1..n : b[i - 1] <= b[i] /\ q[i] = SubSeq(x, b[i - 1] + 1, b[i])
    OBVIOUS
  <1> DEFINE T == {k \in Nat : k <= n => FlattenSeq(SubSeq(q, 1, k)) = SubSeq(x, 1, b[k])}
  <1>1. 0 \in T
    <2>1. SubSeq(q, 1, 0) = <<>> /\ SubSeq(x, 1, 0) = <<>>
      OBVIOUS
    <2> QED
      BY <2>1, FlattenEmpty
  <1>2. ASSUME NEW k \in Nat, k \in T PROVE k + 1 \in T
    <2> SUFFICES ASSUME k + 1 <= n
                 PROVE  FlattenSeq(SubSeq(q, 1, k + 1)) = SubSeq(x, 1, b[k + 1])
      OBVIOUS
    <2> DEFINE p == SubSeq(q, 1, k)
               e == q[k + 1]
               i == b[k]
               j == b[k + 1]
    <2>1. p \in Seq(Seq(S)) /\ e \in Seq(S) /\ SubSeq(q, 1, k + 1) = Append(p, e)
      <3>1. k < Len(q)
        OBVIOUS
      <3> QED
        BY <3>1, PrefixStep
    <2>2. FlattenSeq(p) = SubSeq(x, 1, i)
      BY <1>2, SMTT(60)
    <2>3. i \in 0..Len(x) /\ j \in 0..Len(x) /\ i <= j /\ e = SubSeq(x, i + 1, j)
      <3>1. k + 1 \in 1..n /\ k + 1 - 1 = k /\ k \in 0..n /\ k + 1 \in 0..n
        OBVIOUS
      <3>2. b[k + 1 - 1] <= b[k + 1] /\ q[k + 1] = SubSeq(x, b[k + 1 - 1] + 1, b[k + 1])
        <4> DEFINE Q(l) == b[l - 1] <= b[l] /\ q[l] = SubSeq(x, b[l - 1] + 1, b[l])
        <4>1. \A l \in 1..n : Q(l)
          BY <1>0
        <4> HIDE DEF Q
        <4>2. Q(k + 1)
          BY <3>1, <4>1
        <4> QED
          BY <4>2 DEF Q
      <3> QED
        BY <3>1, <3>2
    <2> HIDE DEF p, e, i, j
    <2>4. FlattenSeq(Append(p, e)) = FlattenSeq(p) \o e
      BY <2>1, FlattenAppend
    <2>5. SubSeq(x, 1, i) \o SubSeq(x, i + 1, j) = SubSeq(x, 1, j)
      <3>1. 1 \in 1..Len(x) + 1 /\ i \in 1 - 1..Len(x) /\ j \in i..Len(x)
        BY <2>3
      <3> QED
        BY <3>1, ConcatAdjacentSubSeq
    <2>6. FlattenSeq(SubSeq(q, 1, k + 1)) = SubSeq(x, 1, j)
      BY ONLY <2>1, <2>2, <2>3, <2>4, <2>5, Zenon
    <2> QED
      BY <2>6 DEF j
  <1> HIDE DEF T
  <1>3. Nat \subseteq T
    BY <1>1, <1>2, Induction
  <1>4. FlattenSeq(SubSeq(q, 1, n)) = SubSeq(x, 1, b[n])
    BY <1>3 DEF T
  <1>5. SubSeq(q, 1, n) = q
    BY SubSeqFull
  <1> QED
    BY <1>4, <1>5

\* The least number of blocks of d bytes that hold n bytes.
LEMMA CeilIs ==
    ASSUME NEW n \in Nat, NEW d \in Nat \ {0}
    PROVE  /\ Ceil(n, d) \in Nat
           /\ n <= Ceil(n, d) * d
           /\ \A i \in 1..Ceil(n, d) : (i - 1) * d < n
  <1> DEFINE a == n + d - 1
             k == a \div d
  <1>1. a \in Nat /\ k \in Nat /\ d * k <= a /\ a < d * k + d
    OBVIOUS
  <1> HIDE DEF k
  <1>2. k * d = d * k /\ d * k \in Nat
    BY <1>1
  <1>3. n <= k * d
    BY <1>1, <1>2
  <1>4. ASSUME NEW i \in 1..k PROVE (i - 1) * d < n
    <2> DEFINE j == i - 1
    <2>1. j \in Nat /\ j + 1 <= k /\ j < k
      BY <1>1
    <2> HIDE DEF j
    <2>2. j * d + d <= k * d /\ j * d \in Nat
      BY <1>1, <2>1
    <2>3. j * d < n
      BY <1>1, <1>2, <2>2
    <2> QED
      BY <2>3 DEF j
  <1> QED
    BY <1>1, <1>3, <1>4 DEF Ceil, k

\* A buffer as dpl_mbuf_get hands it out, and one filled with d.
LEMMA FreshBuffer ==
    ASSUME NEW d \in Seq(Bytes), Len(d) <= BufLen
    PROVE  /\ Fresh \in Buffer
           /\ [Fresh EXCEPT !.data = d] = [off |-> 0, data |-> d, hdr |-> 0]
           /\ [Fresh EXCEPT !.data = d] \in Buffer
  <1>0. /\ 0 \in Nat /\ 0 \in {0, HdrLen} /\ <<>> \in Seq(Bytes)
        /\ 0 + Len(<<>>) <= BufLen /\ 0 + Len(d) <= BufLen /\ 0 <= 0
    BY MbufConstants
  <1>1. [off |-> 0, data |-> <<>>, hdr |-> 0] \in Buffer
    BY ONLY <1>0, IsBuffer
  <1>2. Fresh \in Buffer
    BY <1>1 DEF Fresh
  <1>3. [Fresh EXCEPT !.data = d] = [off |-> 0, data |-> d, hdr |-> 0]
    BY <1>2, BufferExcept DEF Fresh
  <1>4. [off |-> 0, data |-> d, hdr |-> 0] \in Buffer
    BY ONLY <1>0, d \in Seq(Bytes), IsBuffer
  <1> QED
    BY <1>2, <1>3, <1>4

\* New buffers filled from the front with as many of the bytes as they hold.
LEMMA FilledFlat ==
    ASSUME NEW x \in Seq(Bytes), NEW n \in Nat, n <= Ceil(Len(x), BufLen)
    PROVE  LET k == [i \in 1..n |-> [Fresh EXCEPT !.data =
                        SubSeq(x, (i - 1) * BufLen + 1, Lesser(i * BufLen, Len(x)))]]
           IN  /\ k \in Chains /\ Len(k) = n
               /\ Flat(k) = SubSeq(x, 1, Lesser(n * BufLen, Len(x)))
  <1> DEFINE bytes(i) == SubSeq(x, (i - 1) * BufLen + 1, Lesser(i * BufLen, Len(x)))
             k == [i \in 1..n |-> [Fresh EXCEPT !.data = bytes(i)]]
             b == [i \in 0..n |-> Lesser(i * BufLen, Len(x))]
  <1>1. BufLen \in Nat \ {0} /\ Len(x) \in Nat
    BY MbufConstants
  <1>2. ASSUME NEW i \in 1..n
        PROVE  /\ (i - 1) * BufLen \in Nat /\ (i - 1) * BufLen < Len(x)
               /\ i * BufLen = (i - 1) * BufLen + BufLen
    <2> DEFINE j == i - 1
    <2>1. j \in Nat /\ i = j + 1 /\ Ceil(Len(x), BufLen) \in Nat /\ i \in 1..Ceil(Len(x), BufLen)
      BY <1>1, CeilIs
    <2>2. (i - 1) * BufLen < Len(x)
      BY <1>1, <2>1, CeilIs
    <2> HIDE DEF j
    <2>3. (j + 1) * BufLen = j * BufLen + BufLen /\ j * BufLen \in Nat
      BY <1>1, <2>1
    <2> QED
      BY <2>1, <2>2, <2>3 DEF j
  <1>3. ASSUME NEW i \in 1..n
        PROVE  bytes(i) \in Seq(Bytes) /\ Len(bytes(i)) <= BufLen
    <2> DEFINE lo == (i - 1) * BufLen
               hi == i * BufLen
    <2>1. lo \in Nat /\ hi = lo + BufLen /\ lo < Len(x)
      BY <1>2
    <2> HIDE DEF lo, hi
    <2>2. lo + 1 \in Nat \ {0} /\ Lesser(hi, Len(x)) \in Int /\ Lesser(hi, Len(x)) <= Len(x)
          /\ Lesser(hi, Len(x)) <= lo + BufLen
      BY <1>1, <2>1 DEF Lesser
    <2> DEFINE e == Lesser(hi, Len(x))
               s == SubSeq(x, lo + 1, e)
    <2> HIDE DEF e
    <2>3. s \in Seq(Bytes) /\ Len(s) = IF lo + 1 <= e THEN e - (lo + 1) + 1 ELSE 0
      BY <2>2, SubSeqIs DEF e
    <2> HIDE DEF s
    <2>4. Len(s) <= BufLen
      BY <1>1, <2>1, <2>2, <2>3 DEF e
    <2> QED
      BY <2>3, <2>4 DEF s, e, lo, hi
  <1>4. ASSUME NEW i \in 1..n
        PROVE  k[i] \in Buffer /\ k[i].data = bytes(i)
    <2> DEFINE d == bytes(i)
    <2>1. d \in Seq(Bytes) /\ Len(d) <= BufLen /\ k[i] = [Fresh EXCEPT !.data = d]
      BY <1>3
    <2> HIDE DEF d, k
    <2>2. k[i] \in Buffer /\ k[i].data = d
      BY <2>1, FreshBuffer
    <2> QED
      BY <2>2 DEF d
  <1>5. k \in Chains /\ Len(k) = n
    <2>1. DOMAIN k = 1..n /\ k = [i \in 1..n |-> k[i]]
      OBVIOUS
    <2> HIDE DEF k
    <2>2. k \in [1..n -> Buffer]
      BY <1>4, <2>1
    <2> QED
      BY <2>2 DEF Chains
  <1>6. /\ b \in [0..n -> 0..Len(x)] /\ b[0] = 0
        /\ \A i \in 1..n : b[i - 1] = (i - 1) * BufLen /\ b[i] = Lesser(i * BufLen, Len(x))
    <2>1. ASSUME NEW i \in 0..n PROVE i * BufLen \in Nat
      BY <1>1
    <2>2. b \in [0..n -> 0..Len(x)]
      BY <1>1, <2>1 DEF Lesser
    <2>3. b[0] = 0
      BY <1>1 DEF Lesser
    <2>4. ASSUME NEW i \in 1..n PROVE b[i - 1] = (i - 1) * BufLen
      <3>1. i - 1 \in 0..n
        OBVIOUS
      <3>2. b[i - 1] = Lesser((i - 1) * BufLen, Len(x))
        BY <3>1
      <3> HIDE DEF b
      <3> QED
        BY <1>1, <1>2, <3>2 DEF Lesser
    <2>5. ASSUME NEW i \in 1..n PROVE b[i] = Lesser(i * BufLen, Len(x))
      <3>1. i \in 0..n
        OBVIOUS
      <3> QED
        BY <3>1
    <2> HIDE DEF b
    <2> QED
      BY <2>2, <2>3, <2>4, <2>5
  <1>7. ASSUME NEW i \in 1..n
        PROVE  b[i - 1] <= b[i] /\ Datas(k)[i] = SubSeq(x, b[i - 1] + 1, b[i])
    <2>1. Datas(k)[i] = bytes(i)
      <3> HIDE DEF k
      <3> QED
        BY <1>4, <1>5, DatasType
    <2>2. b[i - 1] = (i - 1) * BufLen /\ b[i] = Lesser(i * BufLen, Len(x))
      BY <1>6
    <2> HIDE DEF b, k
    <2>3. b[i - 1] <= b[i]
      BY <1>1, <1>2, <2>2 DEF Lesser
    <2> QED
      BY <2>1, <2>2, <2>3
  <1> HIDE DEF b, k
  <1>8. Datas(k) \in Seq(Seq(Bytes)) /\ Len(Datas(k)) = n
    BY <1>5, DatasType
  <1>9. FlattenSeq(Datas(k)) = SubSeq(x, 1, b[n])
    BY <1>6, <1>7, <1>8, CutsFlat, ZenonT(60)
  <1>10. b[n] = Lesser(n * BufLen, Len(x))
    BY <1>1 DEF b
  <1>11. Flat(k) = FlattenSeq(Datas(k))
    BY DEF Flat, Datas
  <1> QED
    BY <1>5, <1>9, <1>10, <1>11 DEF k

\* A part of the rest of x continues the prefix before it.
LEMMA SubSeqOfRest ==
    ASSUME NEW S, NEW x \in Seq(S), NEW s \in 0..Len(x), NEW t \in 0..Len(x) - s
    PROVE  /\ SubSeq(x, s + 1, Len(x)) \in Seq(S)
           /\ Len(SubSeq(x, s + 1, Len(x))) = Len(x) - s
           /\ SubSeq(SubSeq(x, s + 1, Len(x)), 1, t) = SubSeq(x, s + 1, s + t)
           /\ SubSeq(x, 1, s) \o SubSeq(x, s + 1, s + t) = SubSeq(x, 1, s + t)
  <1> DEFINE r == SubSeq(x, s + 1, Len(x))
  <1>1. /\ r \in Seq(S) /\ Len(r) = Len(x) - s
        /\ \A i \in 1..Len(x) - s : r[i] = x[s + i]
    BY SubSeqIs
  <1> HIDE DEF r
  <1> DEFINE a == SubSeq(r, 1, t)
             b == SubSeq(x, s + 1, s + t)
  <1>2. a \in Seq(S) /\ Len(a) = t /\ \A i \in 1..t : a[i] = r[i]
    BY <1>1, SubSeqIs
  <1>3. b \in Seq(S) /\ Len(b) = t /\ \A i \in 1..t : b[i] = x[s + i]
    BY SubSeqIs
  <1> HIDE DEF a, b
  <1>4. ASSUME NEW i \in 1..t PROVE a[i] = b[i]
    <2>1. i \in 1..Len(x) - s
      OBVIOUS
    <2>2. a[i] = r[i] /\ r[i] = x[s + i] /\ b[i] = x[s + i]
      BY <1>1, <1>2, <1>3, <2>1
    <2> QED
      BY <2>2
  <1>5. a = b
    BY <1>2, <1>3, <1>4, SeqEqual
  <1>6. SubSeq(x, 1, s) \o SubSeq(x, s + 1, s + t) = SubSeq(x, 1, s + t)
    <2>1. 1 \in 1..Len(x) + 1 /\ s \in 1 - 1..Len(x) /\ s + t \in s..Len(x)
      OBVIOUS
    <2> QED
      BY <2>1, ConcatAdjacentSubSeq
  <1> QED
    BY <1>1, <1>5, <1>6 DEF a, b, r

\* The last mbuf takes more bytes behind its data.
LEMMA LongerBuffer ==
    ASSUME NEW m \in Buffer, NEW d \in Seq(Bytes), Len(d) <= Trailing(m)
    PROVE  [m EXCEPT !.data = @ \o d] \in Buffer
           /\ [m EXCEPT !.data = @ \o d].data = m.data \o d
           /\ [m EXCEPT !.data = @ \o d].hdr = m.hdr
  <1> DEFINE e == m.data \o d
  <1>1. e \in Seq(Bytes) /\ m.off + Len(e) <= BufLen /\ m.off \in Nat /\ m.hdr <= m.off
        /\ m.hdr \in {0, HdrLen}
    <2>1. m.data \in Seq(Bytes) /\ m.off \in Nat /\ m.hdr <= m.off /\ m.hdr \in {0, HdrLen}
          /\ Len(m.data) \in Nat
      BY BufferFields DEF Buffer
    <2>2. e \in Seq(Bytes) /\ Len(e) = Len(m.data) + Len(d)
      BY <2>1
    <2> HIDE DEF e
    <2>3. Len(d) <= BufLen - m.off - Len(m.data)
      BY DEF Trailing
    <2> QED
      BY <2>1, <2>2, <2>3, MbufConstants
  <1> HIDE DEF e
  <1>2. [off |-> m.off, data |-> e, hdr |-> m.hdr] \in Buffer
    BY <1>1, IsBuffer
  <1>3. [m EXCEPT !.data = e] = [off |-> m.off, data |-> e, hdr |-> m.hdr]
    BY BufferExcept
  <1> QED
    BY <1>2, <1>3 DEF e

\* A chain grows at its last mbuf.
LEMMA LastGrows ==
    ASSUME NEW c \in Chains, c # <<>>, NEW d \in Seq(Bytes), Len(d) <= Trailing(c[Len(c)])
    PROVE  LET g == Append(Front(c), [c[Len(c)] EXCEPT !.data = @ \o d])
           IN  /\ g \in Chains /\ Len(g) = Len(c)
               /\ Flat(g) = Flat(c) \o d
               /\ g[1].hdr = c[1].hdr
  <1> DEFINE n == Len(c) - 1
             front == SubSeq(c, 1, n)
             last == c[Len(c)]
             m == [last EXCEPT !.data = @ \o d]
             g == Append(front, m)
  <1>1. n \in Nat /\ Len(c) = n + 1 /\ c \in Seq(Buffer)
    BY DEF Chains
  <1> HIDE DEF n
  <1>2. front \in Seq(Buffer) /\ Len(front) = n /\ last \in Buffer /\ c = Append(front, last)
    BY <1>1, SplitLast
  <1>3. m \in Buffer /\ m.data = last.data \o d /\ m.hdr = last.hdr
    <2> HIDE DEF last
    <2> QED
      BY <1>2, LongerBuffer DEF last
  <1>4. n > 0 => front[1] = c[1]
    BY <1>1
  <1> HIDE DEF front, last, m
  <1>5. g \in Chains /\ Flat(g) = Flat(front) \o m.data
        /\ Flat(Append(front, last)) = Flat(front) \o last.data
    BY <1>2, <1>3, FlatAppend DEF Chains
  <1>6. Flat(g) = Flat(c) \o d
    <2> DEFINE x == Flat(front)
               y == last.data
    <2>1. x \in Seq(Bytes) /\ y \in Seq(Bytes)
      BY <1>2, FlatType, BufferFields DEF Chains
    <2>2. Flat(g) = x \o (y \o d) /\ Flat(c) = x \o y
      BY <1>2, <1>3, <1>5
    <2> HIDE DEF x, y, g
    <2>3. (x \o y) \o d = x \o (y \o d)
      BY <2>1, ConcatAssociative, SMTT(60)
    <2> QED
      BY <2>2, <2>3
  <1>7. Len(g) = n + 1 /\ g[1].hdr = c[1].hdr
    <2>1. CASE n = 0
      <3>1. g[1] = m /\ c[1] = last /\ Len(g) = n + 1
        BY <1>1, <1>2, <2>1 DEF last
      <3> QED
        BY <1>3, <3>1
    <2>2. CASE n > 0
      <3>1. g[1] = front[1] /\ Len(g) = n + 1
        BY <1>1, <1>2, <1>3, <2>2
      <3> QED
        BY <1>4, <2>2, <3>1
    <2> QED
      BY <1>1, <2>1, <2>2
  <1>8. g = Append(Front(c), [c[Len(c)] EXCEPT !.data = @ \o d])
    BY DEF Front, g, front, m, last, n
  <1> HIDE DEF g
  <1> QED
    BY <1>1, <1>5, <1>6, <1>7, <1>8

-----------------------------------------------------------------------------
(* dpl_mbuf_append                                                         *)

\* dpl_mbuf_append puts the bytes it took behind those of the chain and stops
\* short only when the pool is empty.
LEMMA AppendedFlat ==
    ASSUME NEW c \in Chains, c # <<>>, NEW d \in Seq(Bytes), NEW f \in Nat
    PROVE  LET r == Appended(c, d, f)
           IN  /\ r.c \in Chains /\ Len(r.c) \in Nat \ {0}
               /\ r.free \in Nat /\ Len(r.c) + r.free = Len(c) + f
               /\ r.left \in 0..Len(d) /\ (r.left = 0 \/ r.free = 0)
               /\ Flat(r.c) = Flat(c) \o SubSeq(d, 1, Len(d) - r.left)
               /\ r.c[1].hdr = c[1].hdr
  <1> DEFINE last == c[Len(c)]
             room == Trailing(last)
             s == Lesser(room, Len(d))
             rest == SubSeq(d, s + 1, Len(d))
             blocks == Ceil(Len(rest), BufLen)
             n == Lesser(f, blocks)
             t == Lesser(n * BufLen, Len(rest))
             left == Greater(0, Len(rest) - n * BufLen)
             first == SubSeq(d, 1, s)
             g == Append(Front(c), [last EXCEPT !.data = @ \o first])
             k == [i \in 1..n |-> [Fresh EXCEPT !.data =
                        SubSeq(rest, (i - 1) * BufLen + 1, Lesser(i * BufLen, Len(rest)))]]
  <1>1. BufLen \in Nat \ {0} /\ Len(c) \in Nat \ {0} /\ Len(d) \in Nat /\ last \in Buffer
    BY MbufConstants DEF Chains
  <1>2. room \in Nat
    <2> HIDE DEF last
    <2> QED
      BY <1>1, BufferFields DEF Trailing
  <1> HIDE DEF room
  <1>3. s \in 0..Len(d) /\ s <= room
    BY <1>1, <1>2 DEF Lesser
  <1> HIDE DEF s
  <1>4. first \in Seq(Bytes) /\ Len(first) = s
    BY <1>3, SubSeqIs
  <1>5. rest \in Seq(Bytes) /\ Len(rest) = Len(d) - s
    BY <1>3, SubSeqIs
  <1> HIDE DEF first, rest
  <1>6. blocks \in Nat /\ Len(rest) <= blocks * BufLen
    <2> DEFINE l == Len(rest)
    <2>1. l \in Nat
      BY <1>5
    <2> HIDE DEF l
    <2>2. Ceil(l, BufLen) \in Nat /\ l <= Ceil(l, BufLen) * BufLen
      BY <1>1, <2>1, CeilIs
    <2> QED
      BY <2>2 DEF l
  <1> HIDE DEF blocks
  <1>7. n \in Nat /\ n <= blocks /\ n <= f /\ (n = blocks \/ n = f)
    BY <1>6 DEF Lesser
  <1> HIDE DEF n
  <1>8. n * BufLen \in Nat
    BY <1>1, <1>7
  <1>9. t \in 0..Len(rest) /\ left \in 0..Len(d) /\ s + t = Len(d) - left
        /\ (n = blocks => left = 0)
    BY <1>1, <1>3, <1>5, <1>6, <1>8, SMTT(60) DEF Lesser, Greater
  <1>10. g \in Chains /\ Len(g) = Len(c) /\ Flat(g) = Flat(c) \o first /\ g[1].hdr = c[1].hdr
    <2>1. Len(first) <= Trailing(c[Len(c)])
      BY <1>3, <1>4 DEF room
    <2> QED
      BY <1>4, <2>1, LastGrows
  <1>11. k \in Chains /\ Len(k) = n /\ Flat(k) = SubSeq(rest, 1, t)
    <2>1. n <= Ceil(Len(rest), BufLen)
      BY <1>7 DEF blocks
    <2> QED
      BY <1>5, <1>7, <2>1, FilledFlat
  <1> HIDE DEF g, k, t, left
  <1>12. g \o k \in Chains /\ Flat(g \o k) = Flat(g) \o Flat(k)
    BY <1>10, <1>11, FlatConcat
  <1>13. Flat(g \o k) = Flat(c) \o SubSeq(d, 1, Len(d) - left)
    <2>1. /\ SubSeq(rest, 1, t) = SubSeq(d, s + 1, s + t)
          /\ first \o SubSeq(d, s + 1, s + t) = SubSeq(d, 1, s + t)
      <3>1. t \in 0..Len(d) - s
        BY <1>5, <1>9
      <3> QED
        BY <1>3, <3>1, SubSeqOfRest DEF rest, first
    <2> DEFINE x == Flat(c)
               y == SubSeq(d, s + 1, s + t)
    <2>2. x \in Seq(Bytes) /\ y \in Seq(Bytes)
      <3>1. SubSeq(rest, 1, t) \in Seq(Bytes)
        BY <1>5, <1>9, SubSeqIs
      <3> QED
        BY <2>1, <3>1, FlatType
    <2>3. Flat(g \o k) = (x \o first) \o y
      BY <1>10, <1>11, <1>12, <2>1
    <2> HIDE DEF x, y
    <2>4. (x \o first) \o y = x \o (first \o y)
      BY <1>4, <2>2, ConcatAssociative, SMTT(60)
    <2>5. first \o y = SubSeq(d, 1, Len(d) - left)
      BY <1>9, <2>1 DEF y
    <2> QED
      BY <2>3, <2>4, <2>5 DEF x
  <1>14. Len(g \o k) = Len(c) + n /\ (g \o k)[1] = g[1]
    <2>1. g \in Seq(Buffer) /\ k \in Seq(Buffer) /\ 1 \in 1..Len(g) + Len(k) /\ 1 <= Len(g)
      BY <1>1, <1>7, <1>10, <1>11 DEF Chains
    <2>2. Len(g \o k) = Len(g) + Len(k) /\ (g \o k)[1] = g[1]
      BY <2>1, ConcatProperties
    <2> QED
      BY <1>10, <1>11, <2>2
  <1>15. Appended(c, d, f) = [c |-> g \o k, free |-> f - n, left |-> left]
    BY DEF Appended, g, k, left, n, blocks, first, rest, s, room
  <1> DEFINE gk == g \o k
             r == Appended(c, d, f)
  <1>16. r.c = gk /\ r.free = f - n /\ r.left = left
    BY <1>15
  <1>17. gk \in Chains /\ Len(gk) = Len(c) + n /\ gk[1].hdr = c[1].hdr
         /\ Flat(gk) = Flat(c) \o SubSeq(d, 1, Len(d) - left)
    BY <1>10, <1>12, <1>13, <1>14
  <1> HIDE DEF gk, r
  <1>18. /\ r.c \in Chains /\ Len(r.c) \in Nat \ {0}
         /\ r.free \in Nat /\ Len(r.c) + r.free = Len(c) + f
         /\ r.left \in 0..Len(d) /\ (r.left = 0 \/ r.free = 0)
    <2>1. Len(c) + n \in Nat \ {0} /\ f - n \in Nat /\ Len(c) + n + (f - n) = Len(c) + f
          /\ (left = 0 \/ f - n = 0)
      BY <1>1, <1>7, <1>9
    <2> QED
      BY <1>9, <1>16, <1>17, <2>1
  <1>19. Flat(r.c) = Flat(c) \o SubSeq(d, 1, Len(d) - r.left) /\ r.c[1].hdr = c[1].hdr
    BY <1>16, <1>17
  <1> QED
    BY <1>18, <1>19 DEF r

-----------------------------------------------------------------------------
(* The bytes of a chain at their offsets                                   *)

\* A byte of y in x \o y.
LEMMA ByteBehind ==
    ASSUME NEW S, NEW x \in Seq(S), NEW y \in Seq(S), NEW j \in 1..Len(y)
    PROVE  (x \o y)[Len(x) + j] = y[j]
  <1> DEFINE k == Len(x) + j
  <1>1. k \in 1..Len(x) + Len(y) /\ ~(k <= Len(x)) /\ k - Len(x) = j
    OBVIOUS
  <1> HIDE DEF k
  <1>2. (x \o y)[k] = IF k <= Len(x) THEN x[k] ELSE y[k - Len(x)]
    BY <1>1, ConcatProperties
  <1> QED
    BY <1>1, <1>2 DEF k

\* Byte j of buffer i is the chain's byte Start(c, i) + j.
LEMMA ByteAt ==
    ASSUME NEW c \in Chains, NEW i \in 1..Len(c), NEW j \in 1..Len(c[i].data)
    PROVE  Flat(c)[Start(c, i) + j] = c[i].data[j]
  <1> DEFINE before == SubSeq(c, 1, i - 1)
             to == SubSeq(c, 1, i)
             after == SubSeq(c, i + 1, Len(c))
             x == Flat(before)
             y == c[i].data
             z == Flat(after)
  <1>1. c \in Seq(Buffer) /\ Len(c) \in Nat /\ i - 1 \in Nat /\ i - 1 < Len(c) /\ i - 1 + 1 = i
    BY DEF Chains
  <1>2. before \in Chains /\ c[i] \in Buffer /\ to = Append(before, c[i])
    <2> DEFINE k == i - 1
    <2>1. k \in Nat /\ k < Len(c) /\ k + 1 = i
      BY <1>1
    <2> HIDE DEF k
    <2>2. SubSeq(c, 1, k) \in Seq(Buffer) /\ c[k + 1] \in Buffer
          /\ SubSeq(c, 1, k + 1) = Append(SubSeq(c, 1, k), c[k + 1])
      BY <1>1, <2>1, PrefixStep
    <2> QED
      BY <2>1, <2>2 DEF Chains, k
  <1> HIDE DEF before, to
  <1>3. Flat(to) = x \o y
    BY <1>2, FlatAppend
  <1>4. Flat(c) = Flat(to) \o z /\ after \in Chains
    BY <1>1, FlatSplit DEF to
  <1>5. x \in Seq(Bytes) /\ y \in Seq(Bytes) /\ z \in Seq(Bytes) /\ Len(x) = Start(c, i)
    BY <1>2, <1>4, FlatType, BufferFields DEF Start, before
  <1>6. j \in 1..Len(y)
    OBVIOUS
  <1> HIDE DEF x, y, z
  <1>7. ((x \o y) \o z)[Len(x) + j] = y[j]
    <2>1. x \o y \in Seq(Bytes) /\ Len(x \o y) = Len(x) + Len(y) /\ (x \o y)[Len(x) + j] = y[j]
      BY ONLY <1>5, <1>6, ConcatProperties, ByteBehind, ZenonT(60)
    <2> DEFINE xy == x \o y
    <2> HIDE DEF xy
    <2>2. xy \in Seq(Bytes) /\ Len(x) + j \in 1..Len(xy)
      BY <1>5, <1>6, <2>1, SMTT(60) DEF xy
    <2>3. (xy \o z)[Len(x) + j] = xy[Len(x) + j]
      BY <1>5, <2>2
    <2> QED
      BY <2>1, <2>3 DEF xy
  <1> QED
    BY <1>3, <1>4, <1>5, <1>7 DEF y

\* Bytes of the range of len bytes from off that lie before mbuf i.
Before(c, i, off, len) == Greater(0, Lesser(Start(c, i), off + len) - off)

\* What buffer i contributes to the bytes off + 1 .. off + len of its chain.
LEMMA PieceSlice ==
    ASSUME NEW c \in Chains, NEW i \in 1..Len(c), NEW off \in Nat, NEW len \in Nat
    PROVE  LET a == Before(c, i, off, len)
               b == Before(c, i + 1, off, len)
           IN  /\ a \in Nat /\ b \in Nat /\ a <= b
               /\ a = 0 \/ off + a <= Size(c)
               /\ b = 0 \/ off + b <= Size(c)
               /\ Piece(c, i, off, len) \in Seq(Bytes)
               /\ Len(Piece(c, i, off, len)) = b - a
               /\ \A j \in 1..b - a : Piece(c, i, off, len)[j] = Flat(c)[off + a + j]
  <1> DEFINE st == Start(c, i)
             data == c[i].data
             L == Len(data)
             a == Before(c, i, off, len)
             b == Before(c, i + 1, off, len)
             p == Piece(c, i, off, len)
             lo == Greater(1, off - st + 1)
             hi == Lesser(L, off + len - st)
  <1>1. st \in Nat /\ L \in Nat /\ data \in Seq(Bytes) /\ Start(c, i + 1) = st + L
        /\ st + L <= Size(c) /\ Size(c) \in Nat
    BY StartStep, StartBounds, FlatType, BufferFields DEF Chains
  <1>2. \A j \in 1..L : Flat(c)[st + j] = data[j]
    BY ByteAt
  <1>3. p = SubSeq(data, lo, hi)
    BY DEF Piece
  <1>4. a = Greater(0, Lesser(st, off + len) - off) /\ b = Greater(0, Lesser(st + L, off + len) - off)
    BY <1>1 DEF Before
  <1> HIDE DEF st, data, L, a, b, p
  <1>5. lo \in Nat \ {0} /\ hi \in Int /\ hi <= L
    BY <1>1 DEF Greater, Lesser
  <1>6. /\ a \in Nat /\ b \in Nat /\ a <= b
        /\ a = 0 \/ off + a <= Size(c)
        /\ b = 0 \/ off + b <= Size(c)
        /\ b - a = IF lo <= hi THEN hi - lo + 1 ELSE 0
        /\ lo <= hi => st + lo = off + a + 1
    BY <1>1, <1>4 DEF Greater, Lesser
  <1> HIDE DEF lo, hi
  <1>7. p \in Seq(Bytes) /\ Len(p) = (IF lo <= hi THEN hi - lo + 1 ELSE 0)
        /\ \A j \in 1..Len(p) : p[j] = data[lo + j - 1]
    <2>1. hi <= Len(data)
      BY <1>5 DEF L
    <2>2. /\ SubSeq(data, lo, hi) \in Seq(Bytes)
          /\ Len(SubSeq(data, lo, hi)) = (IF lo <= hi THEN hi - lo + 1 ELSE 0)
          /\ \A j \in 1..Len(SubSeq(data, lo, hi)) : SubSeq(data, lo, hi)[j] = data[lo + j - 1]
      <3>1. data \in Seq(Bytes) /\ lo \in Nat \ {0} /\ hi \in Int /\ hi <= Len(data)
        BY <1>1, <1>5, <2>1
      <3> QED
        BY ONLY <3>1, SubSeqIs
    <2> QED
      BY <1>3, <2>2, Zenon
  <1>8. Len(p) = b - a
    BY <1>6, <1>7
  <1>9. ASSUME NEW j \in 1..b - a PROVE p[j] = Flat(c)[off + a + j]
    <2>1. lo <= hi
      BY <1>6
    <2>2. lo + j - 1 \in 1..L /\ st + (lo + j - 1) = off + a + j
      BY <1>1, <1>5, <1>6, <2>1
    <2>3. j \in 1..Len(p)
      BY <1>8
    <2>4. p[j] = data[lo + j - 1] /\ data[lo + j - 1] = Flat(c)[st + (lo + j - 1)]
      BY <1>2, <1>7, <2>2, <2>3
    <2> QED
      BY <2>2, <2>4
  <1> QED
    BY <1>6, <1>7, <1>8, <1>9 DEF a, b, p

\* A slice of x and the bytes that follow it make a longer slice.
LEMMA SliceGrows ==
    ASSUME NEW S, NEW x \in Seq(S), NEW off \in Nat, NEW a \in Nat, NEW p \in Seq(S),
           NEW m \in 0..Len(p), a = 0 \/ off + a <= Len(x), a + m = 0 \/ off + (a + m) <= Len(x),
           \A j \in 1..m : p[j] = x[off + a + j]
    PROVE  /\ SubSeq(x, off + 1, off + a) \in Seq(S) /\ SubSeq(p, 1, m) \in Seq(S)
           /\ SubSeq(x, off + 1, off + (a + m)) = SubSeq(x, off + 1, off + a) \o SubSeq(p, 1, m)
           /\ Len(SubSeq(x, off + 1, off + (a + m))) = a + m
  <1> DEFINE Slice(n) == SubSeq(x, off + 1, off + n)
  <1>1. ASSUME NEW n \in Nat, n = 0 \/ off + n <= Len(x)
        PROVE  /\ Slice(n) \in Seq(S) /\ Len(Slice(n)) = n
               /\ \A j \in 1..n : Slice(n)[j] = x[off + j]
    <2>1. CASE n = 0
      BY <2>1
    <2>2. CASE off + n <= Len(x)
      <3>1. off + 1 \in Nat \ {0} /\ off + n \in Int
        OBVIOUS
      <3>2. /\ Slice(n) \in Seq(S)
            /\ Len(Slice(n)) = IF off + 1 <= off + n THEN off + n - (off + 1) + 1 ELSE 0
            /\ \A j \in 1..Len(Slice(n)) : Slice(n)[j] = x[off + 1 + j - 1]
        BY ONLY x \in Seq(S), <2>2, <3>1, SubSeqIs
      <3>3. Len(Slice(n)) = n
        BY <3>2
      <3>4. \A j \in 1..n : off + 1 + j - 1 = off + j
        OBVIOUS
      <3> HIDE DEF Slice
      <3> QED
        BY <3>2, <3>3, <3>4
    <2> QED
      BY <1>1, <2>1, <2>2
  <1> HIDE DEF Slice
  <1>2. /\ Slice(a) \in Seq(S) /\ Len(Slice(a)) = a
        /\ \A j \in 1..a : Slice(a)[j] = x[off + j]
    BY <1>1
  <1>3. /\ Slice(a + m) \in Seq(S) /\ Len(Slice(a + m)) = a + m
        /\ \A j \in 1..a + m : Slice(a + m)[j] = x[off + j]
    <2>1. a + m \in Nat
      OBVIOUS
    <2> QED
      BY <1>1, <2>1
  <1> DEFINE q == SubSeq(p, 1, m)
  <1>4. q \in Seq(S) /\ Len(q) = m /\ \A j \in 1..m : q[j] = p[j]
    BY SubSeqIs
  <1> DEFINE u == Slice(a)
             v == Slice(a + m)
  <1> HIDE DEF q, u, v
  <1>5. ASSUME NEW j \in 1..Len(u) PROVE v[j] = u[j]
    <2>1. j \in 1..a /\ j \in 1..a + m
      BY <1>2 DEF u
    <2>2. u[j] = x[off + j] /\ v[j] = x[off + j]
      BY <1>2, <1>3, <2>1 DEF u, v
    <2> QED
      BY <2>2
  <1>6. ASSUME NEW j \in 1..Len(q) PROVE v[Len(u) + j] = q[j]
    <2>1. a + j \in 1..a + m /\ j \in 1..m /\ off + (a + j) = off + a + j
      BY <1>4
    <2>2. v[a + j] = x[off + (a + j)] /\ q[j] = p[j] /\ p[j] = x[off + a + j]
      BY <1>3, <1>4, <2>1 DEF v
    <2> QED
      BY <1>2, <2>1, <2>2 DEF u
  <1>7. v = u \o q
    <2>1. u \in Seq(S) /\ v \in Seq(S) /\ Len(v) = Len(u) + Len(q)
      BY <1>2, <1>3, <1>4 DEF u, v
    <2> QED
      BY ONLY <1>4, <1>5, <1>6, <2>1, IsConcat
  <1> QED
    BY <1>2, <1>3, <1>4, <1>7 DEF u, v, q, Slice

-----------------------------------------------------------------------------
(* dpl_mbuf_appendfrom                                                     *)

\* One piece more, unless one did not fit.
More(r, src, i, off, len) ==
    IF r.left > 0 THEN r ELSE Appended(r.c, Piece(src, i, off, len), r.free)
None(c, f) == [c |-> c, free |-> f, left |-> 0]

IsUpto(g, c, src, off, len, f, n) ==
    g = [i \in 0..n |-> IF i = 0 THEN None(c, f) ELSE More(g[i - 1], src, i, off, len)]

\* What the recursive definition of the copy says at one place.
LEMMA UptoAt ==
    ASSUME NEW c, NEW src, NEW off, NEW len, NEW f, NEW n, NEW g,
           IsUpto(g, c, src, off, len, f, n), NEW i \in 0..n
    PROVE  g[i] = IF i = 0 THEN None(c, f) ELSE More(g[i - 1], src, i, off, len)
  <1> DEFINE h == [j \in 0..n |-> IF j = 0 THEN None(c, f) ELSE More(g[j - 1], src, j, off, len)]
  <1>1. h[i] = IF i = 0 THEN None(c, f) ELSE More(g[i - 1], src, i, off, len)
    OBVIOUS
  <1>2. g = h
    BY DEF IsUpto
  <1> HIDE DEF h
  <1> QED
    BY <1>1, <1>2

\* The copy of n buffers, one by one, exists.
LEMMA UptoExists ==
    ASSUME NEW c, NEW src, NEW off, NEW len, NEW f, NEW n \in Nat
    PROVE  \E g : IsUpto(g, c, src, off, len, f, n)
  <1> DEFINE T == {k \in Nat : \E g : IsUpto(g, c, src, off, len, f, k)}
  <1>1. 0 \in T
    <2> DEFINE g == [i \in 0..0 |-> None(c, f)]
    <2>1. g = [i \in 0..0 |-> IF i = 0 THEN None(c, f) ELSE More(g[i - 1], src, i, off, len)]
      OBVIOUS
    <2> HIDE DEF g
    <2>2. IsUpto(g, c, src, off, len, f, 0)
      BY <2>1 DEF IsUpto
    <2> QED
      BY <2>2
  <1>2. ASSUME NEW k \in Nat, k \in T PROVE k + 1 \in T
    <2>1. PICK g : IsUpto(g, c, src, off, len, f, k)
      BY <1>2
    <2> DEFINE h == [i \in 0..k + 1 |-> IF i <= k THEN g[i] ELSE More(g[k], src, k + 1, off, len)]
    <2>2. \A i \in 0..k + 1 : h[i] = IF i = 0 THEN None(c, f) ELSE More(h[i - 1], src, i, off, len)
      <3> TAKE i \in 0..k + 1
      <3>1. CASE i <= k
        <4>1. g[i] = IF i = 0 THEN None(c, f) ELSE More(g[i - 1], src, i, off, len)
          BY <2>1, <3>1, UptoAt
        <4>2. h[i] = g[i] /\ (i # 0 => h[i - 1] = g[i - 1])
          BY <3>1
        <4> HIDE DEF h
        <4> QED
          BY <4>1, <4>2
      <3>2. CASE i = k + 1
        <4>1. h[i] = More(g[k], src, k + 1, off, len) /\ h[i - 1] = g[k] /\ i # 0
          BY <3>2
        <4> HIDE DEF h
        <4> QED
          BY <3>2, <4>1
      <3> QED
        BY <3>1, <3>2
    <2> HIDE DEF h
    <2>3. DOMAIN h = 0..k + 1 /\ h = [i \in 0..k + 1 |-> h[i]]
      BY DEF h
    <2>4. IsUpto(h, c, src, off, len, f, k + 1)
      BY <2>2, <2>3 DEF IsUpto
    <2> QED
      BY <2>4
  <1> HIDE DEF T
  <1>3. n \in T
    BY <1>1, <1>2, Induction
  <1> QED
    BY <1>3 DEF T

\* AppendedFrom copies every buffer of src, or none if it has no byte at off.
LEMMA AppendedFromIs ==
    ASSUME NEW c, NEW src \in Chains, NEW off, NEW len, NEW f
    PROVE  \E g : /\ IsUpto(g, c, src, off, len, f, Len(src))
                  /\ AppendedFrom(c, src, off, len, f) =
                         g[IF Off(src, off) = 0 THEN 0 ELSE Len(src)]
  <1> DEFINE g == CHOOSE g : IsUpto(g, c, src, off, len, f, Len(src))
  <1>1. IsUpto(g, c, src, off, len, f, Len(src))
    <2>1. Len(src) \in Nat
      BY DEF Chains
    <2> QED
      BY <2>1, UptoExists
  <1>2. AppendedFrom(c, src, off, len, f) = g[IF Off(src, off) = 0 THEN 0 ELSE Len(src)]
    BY DEF AppendedFrom, IsUpto, More, None
  <1> QED
    BY <1>1, <1>2

\* What holds after the first k pieces.
Reached(r, c, src, off, len, f, k) ==
    /\ r.c \in Chains /\ Len(r.c) \in Nat \ {0} /\ r.c[1].hdr = c[1].hdr
    /\ r.free \in Nat /\ Len(r.c) + r.free = Len(c) + f
    /\ r.left \in Nat /\ (r.left > 0 => r.free = 0)
    /\ \E n \in Nat : /\ n = 0 \/ off + n <= Size(src)
                      /\ Size(r.c) = Size(c) + n
                      /\ Flat(r.c) = Flat(c) \o SubSeq(Flat(src), off + 1, off + n)
                      /\ r.left = 0 => n = Before(src, k + 1, off, len)

\* Before the first buffer nothing is copied.
LEMMA ReachedNone ==
    ASSUME NEW c \in Chains, c # <<>>, NEW src \in Chains, NEW off \in Nat, NEW len \in Nat,
           NEW f \in Nat
    PROVE  Reached(None(c, f), c, src, off, len, f, 0)
  <1> DEFINE r == None(c, f)
  <1>1. r.c = c /\ r.free = f /\ r.left = 0 /\ Len(c) \in Nat \ {0}
    BY DEF None, Chains
  <1>2. Before(src, 0 + 1, off, len) = 0
    <2>1. Start(src, 0 + 1) = 0
      BY StartStep
    <2> QED
      BY <2>1 DEF Before, Greater, Lesser
  <1>3. Flat(c) = Flat(c) \o SubSeq(Flat(src), off + 1, off + 0) /\ Size(c) = Size(c) + 0
    <2> DEFINE x == Flat(c)
               y == Flat(src)
    <2>1. x \in Seq(Bytes) /\ y \in Seq(Bytes) /\ Size(c) \in Nat
      BY FlatType
    <2> HIDE DEF x, y
    <2>2. SubSeq(y, off + 1, off + 0) = <<>>
      BY <2>1
    <2>3. x \o <<>> = x
      BY <2>1
    <2> QED
      BY <2>1, <2>2, <2>3 DEF x, y
  <1> HIDE DEF r
  <1>4. r.left \in Nat /\ ~(r.left > 0)
    BY <1>1
  <1>5. Reached(r, c, src, off, len, f, 0)
    <2>1. \E n \in Nat : /\ n = 0 \/ off + n <= Size(src)
                         /\ Size(r.c) = Size(c) + n
                         /\ Flat(r.c) = Flat(c) \o SubSeq(Flat(src), off + 1, off + n)
                         /\ r.left = 0 => n = Before(src, 0 + 1, off, len)
      <3>1. /\ 0 = 0 \/ off + 0 <= Size(src)
            /\ Size(r.c) = Size(c) + 0
            /\ Flat(r.c) = Flat(c) \o SubSeq(Flat(src), off + 1, off + 0)
            /\ r.left = 0 => 0 = Before(src, 0 + 1, off, len)
        BY <1>1, <1>2, <1>3
      <3>2. 0 \in Nat
        OBVIOUS
      <3> QED
        BY ONLY <3>1, <3>2, Zenon
    <2> QED
      BY <1>1, <1>4, <2>1 DEF Reached
  <1> QED
    BY <1>5 DEF r

\* One buffer more continues the copy where the last one ended.
LEMMA ReachedMore ==
    ASSUME NEW c \in Chains, c # <<>>, NEW src \in Chains, NEW off \in Nat, NEW len \in Nat,
           NEW f \in Nat, NEW k \in Nat, k < Len(src), NEW r, Reached(r, c, src, off, len, f, k)
    PROVE  Reached(More(r, src, k + 1, off, len), c, src, off, len, f, k + 1)
  <1>1. PICK n \in Nat : /\ n = 0 \/ off + n <= Size(src)
                         /\ Size(r.c) = Size(c) + n
                         /\ Flat(r.c) = Flat(c) \o SubSeq(Flat(src), off + 1, off + n)
                         /\ r.left = 0 => n = Before(src, k + 1, off, len)
    BY DEF Reached
  <1>2. /\ r.c \in Chains /\ Len(r.c) \in Nat \ {0} /\ r.c[1].hdr = c[1].hdr
        /\ r.free \in Nat /\ Len(r.c) + r.free = Len(c) + f
        /\ r.left \in Nat /\ (r.left > 0 => r.free = 0)
    BY DEF Reached
  <1>3. CASE r.left > 0
    <2>1. More(r, src, k + 1, off, len) = r
      BY <1>3 DEF More
    <2>2. r.left # 0
      BY <1>3
    <2>3. \E l \in Nat : /\ l = 0 \/ off + l <= Size(src)
                         /\ Size(r.c) = Size(c) + l
                         /\ Flat(r.c) = Flat(c) \o SubSeq(Flat(src), off + 1, off + l)
                         /\ r.left = 0 => l = Before(src, k + 1 + 1, off, len)
      BY <1>1, <2>2
    <2>4. Reached(r, c, src, off, len, f, k + 1)
      BY <1>2, <2>3 DEF Reached
    <2> QED
      BY <2>1, <2>4
  <1>4. CASE r.left = 0
    <2> DEFINE p == Piece(src, k + 1, off, len)
               a == Before(src, k + 1, off, len)
               b == Before(src, k + 1 + 1, off, len)
               t == Appended(r.c, p, r.free)
               m == Len(p) - t.left
               x == Flat(src)
    <2>1. /\ a \in Nat /\ b \in Nat /\ a <= b
          /\ a = 0 \/ off + a <= Size(src)
          /\ b = 0 \/ off + b <= Size(src)
          /\ p \in Seq(Bytes) /\ Len(p) = b - a
          /\ \A j \in 1..b - a : p[j] = x[off + a + j]
      <3>1. k + 1 \in 1..Len(src)
        BY DEF Chains
      <3> QED
        BY <3>1, PieceSlice
    <2>2. n = a /\ x \in Seq(Bytes) /\ Size(src) = Len(x)
      BY <1>1, <1>4, FlatType
    <2>3. More(r, src, k + 1, off, len) = t
      BY <1>2, <1>4 DEF More
    <2> HIDE DEF p, a, b, x
    <2>4. /\ t.c \in Chains /\ Len(t.c) \in Nat \ {0}
          /\ t.free \in Nat /\ Len(t.c) + t.free = Len(r.c) + r.free
          /\ t.left \in 0..Len(p) /\ (t.left = 0 \/ t.free = 0)
          /\ Flat(t.c) = Flat(r.c) \o SubSeq(p, 1, Len(p) - t.left)
          /\ t.c[1].hdr = r.c[1].hdr
      <3> DEFINE rc == r.c
                 rf == r.free
      <3>1. rc \in Chains /\ rc # <<>> /\ rf \in Nat /\ p \in Seq(Bytes)
        BY <1>2, <2>1
      <3> HIDE DEF rc, rf
      <3> DEFINE tt == Appended(rc, p, rf)
      <3>2. /\ tt.c \in Chains /\ Len(tt.c) \in Nat \ {0}
            /\ tt.free \in Nat /\ Len(tt.c) + tt.free = Len(rc) + rf
            /\ tt.left \in 0..Len(p) /\ (tt.left = 0 \/ tt.free = 0)
            /\ Flat(tt.c) = Flat(rc) \o SubSeq(p, 1, Len(p) - tt.left)
            /\ tt.c[1].hdr = rc[1].hdr
        BY <3>1, AppendedFlat, ZenonT(60)
      <3> QED
        BY <3>2 DEF rc, rf
    <2> HIDE DEF t
    <2>5. m \in 0..Len(p) /\ a + m \in Nat /\ (a + m = 0 \/ off + (a + m) <= Len(x))
          /\ (t.left = 0 => a + m = b)
      <3> DEFINE l == t.left
                 z == Len(x)
      <3>1. l \in 0..b - a /\ (a = 0 \/ off + a <= z) /\ (b = 0 \/ off + b <= z) /\ z \in Nat
        BY <2>1, <2>2, <2>4
      <3>2. m = b - a - l /\ Len(p) = b - a
        BY <2>1
      <3> HIDE DEF l, m, z
      <3>0. off \in Nat /\ a \in Nat /\ b \in Nat /\ a <= b
        BY <2>1
      <3>3. m \in 0..b - a /\ a + m \in Nat /\ (a + m = 0 \/ off + (a + m) <= z)
            /\ (l = 0 => a + m = b)
        BY ONLY <3>0, <3>1, <3>2
      <3> QED
        BY <3>2, <3>3 DEF l, z
    <2> HIDE DEF m
    <2>6. /\ SubSeq(x, off + 1, off + a) \in Seq(Bytes) /\ SubSeq(p, 1, m) \in Seq(Bytes)
          /\ SubSeq(x, off + 1, off + (a + m)) = SubSeq(x, off + 1, off + a) \o SubSeq(p, 1, m)
          /\ Len(SubSeq(x, off + 1, off + (a + m))) = a + m
      <3>1. \A j \in 1..m : p[j] = x[off + a + j]
        <4>1. \A j \in 1..m : j \in 1..b - a
          BY <2>1, <2>5
        <4> QED
          BY <2>1, <4>1
      <3>2. a = 0 \/ off + a <= Len(x)
        BY <2>1, <2>2
      <3>3. off \in Nat /\ a \in Nat /\ x \in Seq(Bytes) /\ p \in Seq(Bytes) /\ m \in 0..Len(p)
            /\ (a + m = 0 \/ off + (a + m) <= Len(x))
        BY <2>1, <2>2, <2>5
      <3> QED
        BY ONLY <3>1, <3>2, <3>3, SliceGrows, SMTT(90)
    <2>7. Flat(t.c) = Flat(c) \o SubSeq(x, off + 1, off + (a + m))
      <3> DEFINE y == Flat(c)
                 u == SubSeq(x, off + 1, off + a)
                 v == SubSeq(p, 1, m)
      <3>1. y \in Seq(Bytes) /\ u \in Seq(Bytes) /\ v \in Seq(Bytes)
        BY <2>6, FlatType
      <3>2. Flat(t.c) = (y \o u) \o v
        BY <1>1, <2>2, <2>4 DEF m, x
      <3> HIDE DEF y, u, v
      <3>3. (y \o u) \o v = y \o (u \o v)
        BY <3>1, ConcatAssociative, SMTT(60)
      <3> QED
        BY <2>6, <3>2, <3>3 DEF y, u, v
    <2>8. Size(t.c) = Size(c) + (a + m)
      <3> DEFINE y == Flat(c)
                 w == SubSeq(x, off + 1, off + (a + m))
                 tc == t.c
      <3>1. y \in Seq(Bytes) /\ w \in Seq(Bytes) /\ Size(c) = Len(y) /\ Len(w) = a + m
        <4>1. SubSeq(x, off + 1, off + a) \o SubSeq(p, 1, m) \in Seq(Bytes)
          BY <2>6, ConcatProperties
        <4> QED
          BY <2>6, <4>1, FlatType
      <3>2. tc \in Chains /\ Flat(tc) = y \o w
        BY <2>4, <2>7
      <3> HIDE DEF y, w, tc
      <3>3. Size(tc) = Len(y \o w)
        BY <3>2, FlatType
      <3> QED
        BY <3>1, <3>3 DEF tc
    <2>9. \E l \in Nat : /\ l = 0 \/ off + l <= Size(src)
                         /\ Size(t.c) = Size(c) + l
                         /\ Flat(t.c) = Flat(c) \o SubSeq(Flat(src), off + 1, off + l)
                         /\ t.left = 0 => l = Before(src, k + 1 + 1, off, len)
      <3> DEFINE l == a + m
      <3>1. /\ l \in Nat /\ (l = 0 \/ off + l <= Size(src))
            /\ Size(t.c) = Size(c) + l
            /\ Flat(t.c) = Flat(c) \o SubSeq(Flat(src), off + 1, off + l)
            /\ t.left = 0 => l = Before(src, k + 1 + 1, off, len)
        BY <2>2, <2>5, <2>7, <2>8 DEF x, b
      <3> HIDE DEF l
      <3> QED
        BY <3>1
    <2>10. t.left \in Nat /\ (t.left > 0 => t.free = 0)
      BY <2>1, <2>4, SMTT(60)
    <2>11. t.c[1].hdr = c[1].hdr /\ Len(t.c) + t.free = Len(c) + f
      BY <1>2, <2>4
    <2>12. Reached(t, c, src, off, len, f, k + 1)
      BY <2>4, <2>9, <2>10, <2>11 DEF Reached
    <2> QED
      BY <2>3, <2>12
  <1> QED
    BY <1>2, <1>3, <1>4

-----------------------------------------------------------------------------
(* dpl_mbuf_off                                                            *)

\* Some buffer holds the byte at an offset below the chain's length.
LEMMA HoldsOffset ==
    ASSUME NEW c \in Chains, NEW off \in Nat, off < Size(c)
    PROVE  \E i \in 1..Len(c) : Start(c, i) <= off /\ off < Start(c, i) + Len(c[i].data)
  <1> DEFINE T == {i \in 1..Len(c) : off < Start(c, i + 1)}
  <1>1. Len(c) \in Nat /\ Size(c) \in Nat
    BY FlatType DEF Chains
  <1>2. Len(c) \in T
    <2>1. Len(c) # 0
      <3> SUFFICES ASSUME Len(c) = 0 PROVE FALSE
        OBVIOUS
      <3>1. c = <<>>
        BY DEF Chains
      <3> QED
        BY <3>1, FlatNone
    <2>2. Start(c, Len(c) + 1) = Size(c)
      BY StartStep
    <2> QED
      BY <1>1, <2>1, <2>2
  <1>3. PICK i \in T : \A m \in T : i <= m
    <2>1. T \in SUBSET Nat /\ T # {}
      BY <1>1, <1>2
    <2> HIDE DEF T
    <2> QED
      BY <2>1, LeastElement
  <1>4. i \in 1..Len(c) /\ off < Start(c, i + 1) /\ Start(c, i + 1) = Start(c, i) + Len(c[i].data)
    BY StartStep
  <1>5. Start(c, i) <= off
    <2>1. CASE i = 1
      <3>1. Start(c, 1) = 0
        BY StartStep
      <3> QED
        BY <2>1, <3>1
    <2>2. CASE i # 1
      <3> DEFINE j == i - 1
      <3>1. j \in 1..Len(c) /\ j < i /\ j + 1 = i
        BY <1>1, <1>4, <2>2
      <3> HIDE DEF j
      <3>2. j \notin T
        <4>1. ~(i <= j)
          BY <1>4, <3>1
        <4> HIDE DEF T
        <4> QED
          BY <1>3, <4>1
      <3>3. ~(off < Start(c, i))
        BY <3>1, <3>2
      <3>4. Start(c, i) \in Nat
        BY <1>4, StartBounds
      <3> QED
        BY <3>3, <3>4
    <2> QED
      BY <2>1, <2>2
  <1> QED
    BY <1>4, <1>5

\* dpl_mbuf_off finds the buffer of an offset, and there the chain's byte.
LEMMA OffIs ==
    ASSUME NEW c \in Chains, c # <<>>, NEW off \in Nat
    PROVE  LET i == Off(c, off)
           IN  /\ i \in 0..Len(c) /\ (i = 0) = (off > Size(c))
               /\ i > 0 /\ off < Size(c) => c[i].data[off - Start(c, i) + 1] = Flat(c)[off + 1]
  <1> DEFINE Q(i) == /\ Start(c, i) <= off
                     /\ off < Start(c, i) + Len(c[i].data) \/ (off = Size(c) /\ i = Len(c))
             holds == {i \in 1..Len(c) : Q(i)}
             least == CHOOSE i \in holds : \A j \in holds : i <= j
             o == Off(c, off)
  <1>0. off \in Int /\ Size(c) \in Int
    BY FlatType
  <1>1. Len(c) \in Nat \ {0} /\ Size(c) \in Nat /\ DOMAIN c = 1..Len(c)
    BY FlatType DEF Chains
  <1>2. o = IF holds = {} THEN 0 ELSE least
    BY <1>1 DEF Off
  <1>3. ASSUME NEW i \in 1..Len(c), Q(i) PROVE ~(off > Size(c))
    <2> DEFINE st == Start(c, i)
               l == Len(c[i].data)
    <2>1. st \in Nat /\ l \in Nat /\ st + l <= Size(c)
      BY StartBounds
    <2>2. st <= off /\ (off < st + l \/ (off = Size(c) /\ i = Len(c)))
      BY <1>3
    <2> HIDE DEF st, l
    <2> QED
      BY ONLY <1>0, <2>1, <2>2
  <1>4. ASSUME ~(off > Size(c)) PROVE \E i \in 1..Len(c) : Q(i)
    <2>1. CASE off < Size(c)
      <3>1. PICK i \in 1..Len(c) : Start(c, i) <= off /\ off < Start(c, i) + Len(c[i].data)
        BY <2>1, HoldsOffset
      <3> QED
        BY <3>1
    <2>2. CASE off = Size(c)
      <3> DEFINE i == Len(c)
      <3>1. i \in 1..Len(c)
        BY <1>1
      <3>2. Start(c, i) \in Nat /\ Len(c[i].data) \in Nat /\ Start(c, i) + Len(c[i].data) <= Size(c)
        BY <3>1, StartBounds
      <3>3. Start(c, i) <= off
        BY <1>1, <2>2, <3>2
      <3>4. Q(i)
        BY <2>2, <3>3
      <3> HIDE DEF i, Q
      <3> QED
        BY ONLY <3>1, <3>4
    <2>3. off < Size(c) \/ off = Size(c)
      BY ONLY <1>0, <1>4
    <2> QED
      BY <2>1, <2>2, <2>3
  <1>5. holds # {} => least \in holds
    <2>1. holds \in SUBSET (1..Len(c))
      OBVIOUS
    <2> HIDE DEF holds
    <2> QED
      BY <1>1, <2>1, LeastIndex
  <1> HIDE DEF least, o
  <1>6. o \in 0..Len(c) /\ (o = 0) = (off > Size(c))
    <2>1. holds = {} <=> off > Size(c)
      BY <1>3, <1>4
    <2>2. holds # {} => least \in 1..Len(c)
      BY <1>5
    <2> HIDE DEF holds
    <2> QED
      BY <1>1, <1>2, <2>1, <2>2
  <1>7. ASSUME o > 0, off < Size(c) PROVE c[o].data[off - Start(c, o) + 1] = Flat(c)[off + 1]
    <2>1. o \in holds
      <3> HIDE DEF holds
      <3> QED
        BY <1>2, <1>5, <1>7
    <2>2. o \in 1..Len(c) /\ Start(c, o) <= off
          /\ (off < Start(c, o) + Len(c[o].data) \/ (off = Size(c) /\ o = Len(c)))
      BY <2>1
    <2> DEFINE j == off - Start(c, o) + 1
    <2>3. Start(c, o) \in Nat /\ Len(c[o].data) \in Nat
      BY <2>2, StartBounds
    <2>4. j \in 1..Len(c[o].data) /\ Start(c, o) + j = off + 1
      <3> DEFINE st == Start(c, o)
                 l == Len(c[o].data)
      <3>1. st \in Nat /\ l \in Nat /\ st <= off /\ off < st + l /\ j = off - st + 1
        <4>1. off < Start(c, o) + Len(c[o].data)
          BY ONLY <1>0, <1>7, <2>2
        <4> QED
          BY <2>2, <2>3, <4>1
      <3> HIDE DEF st, l, j
      <3>2. j \in 1..l /\ st + j = off + 1
        BY <1>0, <3>1
      <3> QED
        BY <3>2 DEF st, l
    <2> HIDE DEF j
    <2>5. Flat(c)[Start(c, o) + j] = c[o].data[j]
      BY <2>2, <2>4, ByteAt
    <2> QED
      BY <2>4, <2>5 DEF j
  <1> QED
    BY <1>6, <1>7 DEF o

FromFlat(c, src, off, len, f) ==
    LET r == AppendedFrom(c, src, off, len, f)
        n == Size(r.c) - Size(c)
    IN  /\ r.c \in Chains /\ Len(r.c) \in Nat \ {0} /\ r.c[1].hdr = c[1].hdr
        /\ r.free \in Nat /\ Len(r.c) + r.free = Len(c) + f
        /\ r.left \in Nat /\ n \in Nat
        /\ Flat(r.c) = Flat(c) \o SubSeq(Flat(src), off + 1, off + n)
        /\ n = Greater(0, Lesser(len, Size(src) - off)) \/ r.free = 0

\* dpl_mbuf_appendfrom copies the bytes off + 1 .. off + len of src in order.
LEMMA AppendedFromFlat ==
    ASSUME NEW c \in Chains, c # <<>>, NEW src \in Chains, src # <<>>,
           NEW off \in Nat, NEW len \in Nat, NEW f \in Nat
    PROVE  FromFlat(c, src, off, len, f)
  <1> DEFINE r == AppendedFrom(c, src, off, len, f)
             m == IF Off(src, off) = 0 THEN 0 ELSE Len(src)
  <1>1. PICK g : IsUpto(g, c, src, off, len, f, Len(src)) /\ r = g[m]
    BY AppendedFromIs
  <1>2. Len(src) \in Nat /\ Size(src) \in Nat /\ Size(c) \in Nat
    BY FlatType DEF Chains
  <1>3. Reached(g[0], c, src, off, len, f, 0)
    <2>1. 0 \in 0..Len(src)
      BY <1>2
    <2>2. g[0] = None(c, f)
      BY <1>1, <2>1, UptoAt
    <2> QED
      BY <2>2, ReachedNone
  <1> DEFINE T == {k \in Nat : k <= Len(src) => Reached(g[k], c, src, off, len, f, k)}
  <1>4. ASSUME NEW k \in Nat, k \in T PROVE k + 1 \in T
    <2> SUFFICES ASSUME k + 1 <= Len(src) PROVE Reached(g[k + 1], c, src, off, len, f, k + 1)
      OBVIOUS
    <2>1. k + 1 \in 0..Len(src) /\ k + 1 - 1 = k /\ k + 1 # 0 /\ k < Len(src)
      BY <1>2
    <2>2. g[k + 1] = IF k + 1 = 0 THEN None(c, f) ELSE More(g[k + 1 - 1], src, k + 1, off, len)
      BY <1>1, <2>1, UptoAt
    <2>3. g[k + 1] = More(g[k], src, k + 1, off, len)
      BY <2>1, <2>2
    <2>4. Reached(g[k], c, src, off, len, f, k)
      BY <1>2, <1>4, <2>1
    <2> QED
      BY <2>1, <2>3, <2>4, ReachedMore
  <1>5. 0 \in T
    BY <1>3
  <1> HIDE DEF T
  <1>6. Nat \subseteq T
    BY <1>4, <1>5, Induction
  <1>7. Reached(r, c, src, off, len, f, m)
    <2>1. m \in Nat /\ m <= Len(src)
      BY <1>2
    <2>2. m \in T
      BY <1>6, <2>1
    <2> QED
      BY <1>1, <2>1, <2>2 DEF T
  <1>8. Before(src, m + 1, off, len) = Greater(0, Lesser(len, Size(src) - off))
    <2>1. CASE Off(src, off) = 0
      <3>1. off > Size(src)
        BY <2>1, OffIs
      <3>2. Start(src, m + 1) = 0
        BY <2>1, StartStep
      <3> HIDE DEF m
      <3> QED
        BY <1>2, <3>1, <3>2 DEF Before, Greater, Lesser
    <2>2. CASE Off(src, off) # 0
      <3>1. Start(src, m + 1) = Size(src)
        BY <2>2, StartStep
      <3> HIDE DEF m
      <3> QED
        BY <1>2, <3>1 DEF Before, Greater, Lesser
    <2> QED
      BY <2>1, <2>2
  <1> HIDE DEF r, m
  <1>9. PICK n \in Nat : /\ n = 0 \/ off + n <= Size(src)
                         /\ Size(r.c) = Size(c) + n
                         /\ Flat(r.c) = Flat(c) \o SubSeq(Flat(src), off + 1, off + n)
                         /\ r.left = 0 => n = Before(src, m + 1, off, len)
    BY <1>7 DEF Reached
  <1>10. /\ r.c \in Chains /\ Len(r.c) \in Nat \ {0} /\ r.c[1].hdr = c[1].hdr
         /\ r.free \in Nat /\ Len(r.c) + r.free = Len(c) + f
         /\ r.left \in Nat /\ (r.left > 0 => r.free = 0)
    BY <1>7 DEF Reached
  <1>11. Size(r.c) - Size(c) = n
    BY <1>2, <1>9
  <1>12. n = Greater(0, Lesser(len, Size(src) - off)) \/ r.free = 0
    BY <1>8, <1>9, <1>10
  <1> QED
    BY <1>9, <1>10, <1>11, <1>12 DEF r, FromFlat

-----------------------------------------------------------------------------
(* dpl_mbuf_prepend                                                        *)

\* A chain is its first buffer and the rest.
LEMMA HeadTail ==
    ASSUME NEW c \in Chains, c # <<>>
    PROVE  /\ c[1] \in Buffer /\ Tail(c) \in Chains /\ Len(c) = 1 + Len(Tail(c))
           /\ Flat(c) = c[1].data \o Flat(Tail(c))
           /\ \A i \in 1..Len(Tail(c)) : Tail(c)[i] = c[i + 1]
  <1> DEFINE m == c[1]
             t == Tail(c)
             o == <<m>>
  <1>1. m \in Buffer /\ t \in Seq(Buffer) /\ Len(c) = 1 + Len(t) /\ c = o \o t
        /\ \A i \in 1..Len(t) : t[i] = c[i + 1]
    BY DEF Chains
  <1> HIDE DEF m, t
  <1>2. o \in Chains /\ Flat(o) = m.data /\ t \in Chains
    BY <1>1, FlatOne DEF Chains
  <1> HIDE DEF o
  <1>3. Flat(o \o t) = Flat(o) \o Flat(t)
    BY <1>2, FlatConcat
  <1> QED
    BY <1>1, <1>2, <1>3 DEF m, t

\* A head in front of a tail.
LEMMA HeadFlat ==
    ASSUME NEW m \in Buffer, NEW t \in Chains
    PROVE  /\ <<m>> \o t \in Chains /\ Len(<<m>> \o t) = 1 + Len(t) /\ (<<m>> \o t)[1] = m
           /\ Flat(<<m>> \o t) = m.data \o Flat(t)
  <1> DEFINE o == <<m>>
  <1>1. o \in Chains /\ Flat(o) = m.data /\ Len(o) = 1 /\ o[1] = m
    BY FlatOne
  <1> HIDE DEF o
  <1>2. o \o t \in Chains /\ Flat(o \o t) = Flat(o) \o Flat(t)
    BY <1>1, FlatConcat
  <1>3. Len(o \o t) = 1 + Len(t) /\ (o \o t)[1] = o[1]
    <2>1. o \in Seq(Buffer) /\ t \in Seq(Buffer) /\ 1 \in 1..Len(o) + Len(t)
      BY <1>1 DEF Chains
    <2>2. /\ Len(o \o t) = Len(o) + Len(t)
          /\ (o \o t)[1] = IF 1 <= Len(o) THEN o[1] ELSE t[1 - Len(o)]
      BY ONLY <2>1, ConcatProperties
    <2> QED
      BY <1>1, <2>2
  <1> QED
    BY <1>1, <1>2, <1>3 DEF o

\* Cutting L bytes from the end into blocks of room bytes leaves at most one
\* that is not full, the first.
LEMMA CeilCuts ==
    ASSUME NEW L \in Nat, NEW room \in Nat \ {0}
    PROVE  LET n == Ceil(L, room)
           IN  /\ n \in Nat
               /\ \A i \in 0..n : L - (n - i) * room \in Int
               /\ L - (n - 0) * room <= 0 /\ L - (n - n) * room = L
               /\ \A i \in 1..n : L - (n - i) * room > 0
               /\ \A i \in 1..n : L - (n - i + 1) * room = L - (n - i) * room - room
               /\ \A i \in 0..n : L - (n - i) * room <= L
  <1> DEFINE n == Ceil(L, room)
  <1>1. n \in Nat /\ L <= n * room /\ \A i \in 1..n : (i - 1) * room < L
    BY CeilIs
  <1> HIDE DEF n
  <1>2. ASSUME NEW i \in 0..n PROVE (n - i) * room \in Nat
    <2>1. n - i \in Nat
      BY <1>1
    <2> QED
      BY <2>1
  <1>3. n - 0 = n /\ n - n = 0 /\ 0 * room = 0
    BY <1>1
  <1>4. ASSUME NEW i \in 1..n PROVE (n - i) * room < L
    <2> DEFINE j == n - i + 1
    <2>1. j \in 1..n /\ j - 1 = n - i
      BY <1>1
    <2> HIDE DEF j
    <2>2. (j - 1) * room < L
      BY <1>1, <2>1
    <2> QED
      BY <2>1, <2>2
  <1>5. ASSUME NEW i \in 1..n PROVE (n - i + 1) * room = (n - i) * room + room
    <2> DEFINE j == n - i
    <2>1. j \in Nat
      BY <1>1
    <2> HIDE DEF j
    <2>2. (j + 1) * room = j * room + room
      BY <2>1
    <2> QED
      BY <2>2 DEF j
  <1>6. n * room \in Nat
    BY <1>1
  <1>7. \A i \in 0..n : L - (n - i) * room \in Int /\ L - (n - i) * room <= L
    BY <1>2
  <1>8. L - (n - 0) * room <= 0 /\ L - (n - n) * room = L
    BY <1>1, <1>3, <1>6
  <1>9. \A i \in 1..n : L - (n - i) * room > 0
    <2> TAKE i \in 1..n
    <2>1. i \in 0..n
      OBVIOUS
    <2>2. (n - i) * room \in Nat /\ (n - i) * room < L
      BY <1>2, <1>4, <2>1
    <2> QED
      BY <2>2
  <1>10. \A i \in 1..n : L - (n - i + 1) * room = L - (n - i) * room - room
    <2> TAKE i \in 1..n
    <2>1. i \in 0..n
      OBVIOUS
    <2>2. (n - i) * room \in Nat /\ (n - i + 1) * room = (n - i) * room + room
      BY <1>2, <1>5, <2>1
    <2> QED
      BY <2>2
  <1> QED
    BY <1>1, <1>7, <1>8, <1>9, <1>10 DEF n

\* New heads filled from the back: the first one may have space left.
LEMMA NewHeads ==
    ASSUME NEW x \in Seq(Bytes), NEW h \in {0, HdrLen}
    PROVE  LET room == BufLen - h
               n == Ceil(Len(x), room)
               bytes(i) == SubSeq(x, Greater(1, Len(x) - (n - i + 1) * room + 1),
                                  Len(x) - (n - i) * room)
               k == [i \in 1..n |-> [off |-> BufLen - Len(bytes(i)), data |-> bytes(i),
                                     hdr |-> IF i = 1 THEN h ELSE 0]]
           IN  /\ n \in Nat /\ k \in Chains /\ Len(k) = n /\ Flat(k) = x
               /\ n > 0 => k[1].hdr = h
  <1> DEFINE room == BufLen - h
             L == Len(x)
             n == Ceil(L, room)
             at(i) == L - (n - i) * room
             b == [i \in 0..n |-> Greater(0, at(i))]
             bytes(i) == SubSeq(x, Greater(1, L - (n - i + 1) * room + 1), at(i))
             m(i) == [off |-> BufLen - Len(bytes(i)), data |-> bytes(i),
                      hdr |-> IF i = 1 THEN h ELSE 0]
             k == [i \in 1..n |-> m(i)]
  <1>1. L \in Nat /\ room \in Nat \ {0} /\ h \in Nat /\ h + room = BufLen /\ BufLen \in Nat
    BY MbufConstants
  <1> HIDE DEF room, L
  <1>2. /\ n \in Nat
        /\ \A i \in 0..n : at(i) \in Int
        /\ at(0) <= 0 /\ at(n) = L
        /\ \A i \in 1..n : at(i) > 0
        /\ \A i \in 1..n : L - (n - i + 1) * room = at(i) - room
        /\ \A i \in 0..n : at(i) <= L
    BY <1>1, CeilCuts
  <1>3. ASSUME NEW i \in 1..n PROVE at(i - 1) = at(i) - room
    <2>1. n - (i - 1) = n - i + 1
      BY <1>2
    <2> QED
      BY <1>2, <2>1
  <1> HIDE DEF n, at
  <1>4. b \in [0..n -> 0..L] /\ b[0] = 0 /\ b[n] = L
    <2>1. 0 \in 0..n /\ n \in 0..n
      BY <1>2
    <2>2. \A i \in 0..n : Greater(0, at(i)) \in 0..L
      BY <1>1, <1>2 DEF Greater
    <2>3. Greater(0, at(0)) = 0 /\ Greater(0, at(n)) = L
      BY <1>1, <1>2, <2>1 DEF Greater
    <2> QED
      BY <2>1, <2>2, <2>3
  <1>5. ASSUME NEW i \in 1..n
        PROVE  /\ b[i - 1] <= b[i] /\ bytes(i) = SubSeq(x, b[i - 1] + 1, b[i])
               /\ bytes(i) \in Seq(Bytes) /\ Len(bytes(i)) <= room
    <2>1. i \in 0..n /\ i - 1 \in 0..n
      BY <1>2
    <2>2. b[i - 1] = Greater(0, at(i - 1)) /\ b[i] = Greater(0, at(i))
      BY <2>1
    <2> HIDE DEF b
    <2> DEFINE y == at(i)
    <2>3. y \in Int /\ y > 0 /\ y <= L /\ at(i - 1) = y - room
      BY <1>2, <1>3, <2>1
    <2>4. bytes(i) = SubSeq(x, Greater(1, y - room + 1), y)
      BY <1>2
    <2> HIDE DEF y, bytes
    <2> DEFINE lo == b[i - 1]
    <2>5. lo \in Nat /\ lo <= y /\ b[i] = y /\ Greater(1, y - room + 1) = lo + 1 /\ y - lo <= room
      BY <1>1, <2>2, <2>3 DEF Greater, y
    <2> HIDE DEF lo
    <2>6. bytes(i) = SubSeq(x, lo + 1, y)
      BY <2>4, <2>5
    <2>7. SubSeq(x, lo + 1, y) \in Seq(Bytes) /\ Len(SubSeq(x, lo + 1, y)) <= room
      <3>1. lo + 1 \in Nat \ {0} /\ y \in Int /\ y <= Len(x)
        BY <2>3, <2>5 DEF L
      <3>2. /\ SubSeq(x, lo + 1, y) \in Seq(Bytes)
            /\ Len(SubSeq(x, lo + 1, y)) = IF lo + 1 <= y THEN y - (lo + 1) + 1 ELSE 0
        BY <3>1, SubSeqIs
      <3>3. (IF lo + 1 <= y THEN y - (lo + 1) + 1 ELSE 0) <= room
        BY <1>1, <2>3, <2>5
      <3> QED
        BY <3>2, <3>3
    <2> QED
      BY <2>5, <2>6, <2>7 DEF lo
  <1> HIDE DEF bytes
  <1>6. ASSUME NEW i \in 1..n PROVE m(i) \in Buffer
    <2> DEFINE y == bytes(i)
               l == Len(y)
               z == IF i = 1 THEN h ELSE 0
    <2>1. y \in Seq(Bytes) /\ l \in Nat /\ l <= room
      <3>1. y \in Seq(Bytes) /\ Len(y) <= room
        BY <1>5, Zenon
      <3> HIDE DEF y
      <3> QED
        BY <3>1
    <2>2. z \in {0, HdrLen} /\ z <= h /\ z \in Nat
      BY <1>1
    <2> HIDE DEF z
    <2>3. BufLen - l \in Nat /\ z <= BufLen - l /\ BufLen - l + l <= BufLen
      BY <1>1, <2>1, <2>2
    <2> HIDE DEF y
    <2>4. [off |-> BufLen - l, data |-> y, hdr |-> z] \in Buffer
      BY <2>1, <2>2, <2>3, IsBuffer
    <2> QED
      BY <2>4 DEF y, z
  <1>7. \A i \in 1..n : m(i).data = bytes(i) /\ m(i).hdr = IF i = 1 THEN h ELSE 0
    OBVIOUS
  <1> HIDE DEF m
  <1>8. k \in Chains /\ Len(k) = n /\ \A i \in 1..n : k[i] = m(i)
    BY <1>2, <1>6 DEF Chains
  <1> HIDE DEF k
  <1>9. Flat(k) = x
    <2> DEFINE q == Datas(k)
    <2>1. q \in Seq(Seq(Bytes)) /\ Len(q) = n /\ \A i \in 1..n : q[i] = bytes(i)
      BY <1>7, <1>8, DatasType, SMTT(60)
    <2> HIDE DEF q, b
    <2>2. FlattenSeq(q) = SubSeq(x, 1, b[n])
      <3>1. \A i \in 1..n : b[i - 1] <= b[i] /\ q[i] = SubSeq(x, b[i - 1] + 1, b[i])
        BY <1>5, <2>1
      <3>2. b \in [0..n -> 0..Len(x)] /\ b[0] = 0 /\ n \in Nat
        BY <1>2, <1>4 DEF L
      <3> QED
        BY ONLY x \in Seq(Bytes), <2>1, <3>1, <3>2, CutsFlat, ZenonT(60)
    <2>3. SubSeq(x, 1, Len(x)) = x
      BY SubSeqFull
    <2> QED
      BY <1>4, <2>2, <2>3 DEF q, L, Flat, Datas
  <1>10. n > 0 => k[1].hdr = h
    <2>1. n > 0 => 1 \in 1..n
      BY <1>2
    <2> QED
      BY <1>7, <1>8, <2>1
  <1>11. n \in Nat /\ k \in Chains /\ Len(k) = n /\ Flat(k) = x /\ (n > 0 => k[1].hdr = h)
    BY <1>2, <1>8, <1>9, <1>10
  <1> QED
    BY <1>11 DEF k, m, bytes, at, n, room, L

\* The head takes bytes in the space before its data.
Filled(m, d, s, z) == [m EXCEPT !.off = @ - s, !.data = d \o @, !.hdr = z]

\* A buffer filled downwards from its first byte.
LEMMA HeadPrepends ==
    ASSUME NEW m \in Buffer, NEW d \in Seq(Bytes), NEW s \in Nat, s = Len(d), s <= Leading(m),
           NEW z \in {0, m.hdr}
    PROVE  LET head == Filled(m, d, s, z)
           IN  head \in Buffer /\ head.data = d \o m.data /\ head.hdr = z
  <1> DEFINE e == d \o m.data
             o == m.off - s
  <1>1. /\ m.off \in Nat /\ m.data \in Seq(Bytes) /\ m.hdr \in Nat /\ m.hdr \in {0, HdrLen}
        /\ Len(m.data) \in Nat /\ m.off + Len(m.data) <= BufLen /\ s <= m.off - m.hdr
        /\ BufLen \in Nat
    BY BufferFields, MbufConstants DEF Buffer, Leading
  <1>2. e \in Seq(Bytes) /\ Len(e) = s + Len(m.data)
    BY <1>1
  <1> HIDE DEF e
  <1>3. o \in Nat /\ z <= o /\ o + Len(e) <= BufLen /\ z \in {0, HdrLen}
    <2>1. z \in Nat /\ z <= m.hdr /\ z \in {0, HdrLen}
      BY <1>1
    <2> DEFINE mo == m.off
               mh == m.hdr
               ml == Len(m.data)
               el == Len(e)
    <2>2. s \in Nat /\ o = mo - s /\ mo \in Nat /\ mh \in Nat /\ ml \in Nat /\ mo + ml <= BufLen
          /\ s <= mo - mh /\ BufLen \in Nat /\ el = s + ml /\ z \in Nat /\ z <= mh
      BY <1>1, <1>2, <2>1
    <2> HIDE DEF o, mo, mh, ml, el
    <2>3. o \in Nat /\ z <= o /\ o + el <= BufLen
      BY ONLY <2>2
    <2> QED
      BY <2>1, <2>3 DEF el
  <1> HIDE DEF o
  <1>4. [off |-> o, data |-> e, hdr |-> z] \in Buffer
    BY <1>2, <1>3, IsBuffer
  <1>5. m \in Buffer
    OBVIOUS
  <1>6. [m EXCEPT !.off = o, !.data = e, !.hdr = z] = [off |-> o, data |-> e, hdr |-> z]
    <2>0. m \in [off : Nat, data : Seq(Bytes), hdr : {0, HdrLen}]
      BY <1>5 DEF Buffer
    <2>1. [m EXCEPT !.off = o, !.data = e, !.hdr = z]
             = [[[m EXCEPT !.off = o] EXCEPT !.data = e] EXCEPT !.hdr = z]
      OBVIOUS
    <2>2. [m EXCEPT !.off = o] = [off |-> o, data |-> m.data, hdr |-> m.hdr]
      BY ONLY <2>0
    <2>3. [[off |-> o, data |-> m.data, hdr |-> m.hdr] EXCEPT !.data = e]
             = [off |-> o, data |-> e, hdr |-> m.hdr]
      BY ONLY TRUE
    <2>4. [[off |-> o, data |-> e, hdr |-> m.hdr] EXCEPT !.hdr = z]
             = [off |-> o, data |-> e, hdr |-> z]
      BY ONLY TRUE
    <2> QED
      BY ONLY <2>1, <2>2, <2>3, <2>4, Zenon
  <1> QED
    BY <1>4, <1>6 DEF e, o, Filled

\* dpl_mbuf_prepend puts d in front of the chain, or frees the chain.
LEMMA PrependedFlat ==
    ASSUME NEW c \in Chains, c # <<>>, NEW d \in Seq(Bytes), NEW f \in Nat
    PROVE  LET r == Prepended(c, d, f)
           IN  \/ r.c = <<>> /\ r.free = f + Len(c)
               \/ /\ r.c \in Chains /\ Len(r.c) \in Nat \ {0} /\ r.c[1].hdr = c[1].hdr
                  /\ r.free \in Nat /\ Len(r.c) + r.free = Len(c) + f
                  /\ Flat(r.c) = d \o Flat(c)
  <1> DEFINE one == c[1]
             h == one.hdr
             s == Lesser(Len(d), Leading(one))
             rest == SubSeq(d, 1, Len(d) - s)
             near == SubSeq(d, Len(d) - s + 1, Len(d))
             room == BufLen - h
             n == Ceil(Len(rest), room)
             z == IF n > 0 THEN 0 ELSE one.hdr
             head == [one EXCEPT !.off = @ - s, !.data = near \o @, !.hdr = z]
             bytes(i) == SubSeq(rest, Greater(1, Len(rest) - (n - i + 1) * room + 1),
                                Len(rest) - (n - i) * room)
             k == [i \in 1..n |-> [off |-> BufLen - Len(bytes(i)), data |-> bytes(i),
                                   hdr |-> IF i = 1 THEN h ELSE 0]]
             t == Tail(c)
             ht == <<head>> \o t
             new == k \o ht
             flat == k \o <<head>> \o t
             r == Prepended(c, d, f)
  <1>1. one \in Buffer /\ t \in Chains /\ Len(c) = 1 + Len(t) /\ Flat(c) = one.data \o Flat(t)
    BY HeadTail
  <1>2. r = IF n > f THEN [c |-> <<>>, free |-> f + Len(c)] ELSE [c |-> flat, free |-> f - n]
    BY DEF Prepended
  <1> HIDE DEF one, t, r
  <1>3. h \in {0, HdrLen} /\ h \in Nat /\ Leading(one) \in Nat /\ Len(d) \in Nat
    BY <1>1, BufferFields DEF Buffer, Leading
  <1> HIDE DEF h
  <1>4. s \in 0..Len(d) /\ s <= Leading(one)
    BY <1>3 DEF Lesser
  <1> HIDE DEF s
  <1>5. rest \in Seq(Bytes) /\ near \in Seq(Bytes) /\ Len(near) = s /\ rest \o near = d
    <2> DEFINE e == Len(d) - s
    <2>1. e \in 0..Len(d) /\ Len(d) - e = s /\ e \in 1 - 1..Len(d) /\ 1 \in 1..Len(d) + 1
          /\ Len(d) \in e..Len(d)
      BY <1>3, <1>4
    <2> HIDE DEF e
    <2>2. SubSeq(d, 1, e) \in Seq(Bytes) /\ SubSeq(d, e + 1, Len(d)) \in Seq(Bytes)
          /\ Len(SubSeq(d, e + 1, Len(d))) = s
      BY <2>1, SubSeqIs
    <2>3. SubSeq(d, 1, e) \o SubSeq(d, e + 1, Len(d)) = SubSeq(d, 1, Len(d))
      BY <2>1, ConcatAdjacentSubSeq
    <2>4. SubSeq(d, 1, Len(d)) = d
      BY SubSeqFull
    <2> QED
      BY <2>2, <2>3, <2>4 DEF e
  <1> HIDE DEF rest, near
  <1>6. n \in Nat /\ k \in Chains /\ Len(k) = n /\ Flat(k) = rest /\ (n > 0 => k[1].hdr = h)
    BY <1>3, <1>5, NewHeads
  <1> HIDE DEF n, k
  <1>7. head \in Buffer /\ head.data = near \o one.data /\ head.hdr = z
    <2>1. z \in {0, one.hdr}
      OBVIOUS
    <2> HIDE DEF z
    <2>2. s \in Nat /\ s = Len(near) /\ s <= Leading(one) /\ near \in Seq(Bytes)
      BY <1>4, <1>5
    <2>3. one \in Buffer
      BY <1>1
    <2> QED
      <3> HIDE DEF head
      <3>1. head = Filled(one, near, s, z)
        BY DEF head, Filled
      <3> QED
        BY ONLY <2>1, <2>2, <2>3, <3>1, HeadPrepends, SMTT(60)
  <1> HIDE DEF head
  <1>8. ht \in Chains /\ Len(ht) = Len(c) /\ ht[1] = head /\ Flat(ht) = head.data \o Flat(t)
    BY <1>1, <1>7, HeadFlat
  <1>14. flat = new
    <2> DEFINE o == <<head>>
    <2>1. k \in Seq(Buffer) /\ o \in Seq(Buffer) /\ t \in Seq(Buffer)
      BY <1>1, <1>6, <1>7 DEF Chains
    <2> HIDE DEF o
    <2>2. (k \o o) \o t = k \o (o \o t)
      BY ONLY <2>1, ConcatAssociative
    <2> QED
      BY <2>2 DEF o
  <1> HIDE DEF ht, flat
  <1>9. new \in Chains /\ Flat(new) = rest \o Flat(ht)
    BY <1>6, <1>8, FlatConcat
  <1>10. Flat(new) = d \o Flat(c)
    <2> DEFINE u == one.data
               v == Flat(t)
    <2>1. u \in Seq(Bytes) /\ v \in Seq(Bytes)
      BY <1>1, FlatType, BufferFields
    <2>2. Flat(new) = rest \o ((near \o u) \o v) /\ Flat(c) = u \o v
      BY <1>1, <1>7, <1>8, <1>9
    <2> HIDE DEF u, v
    <2>6. near \in Seq(Bytes) /\ rest \in Seq(Bytes)
      BY <1>5
    <2>3. (near \o u) \o v = near \o (u \o v)
      BY ONLY <2>1, <2>6, ConcatBytes, ZenonT(60)
    <2> DEFINE w == u \o v
    <2>4. w \in Seq(Bytes)
      BY <2>1
    <2> HIDE DEF w
    <2>5. rest \o (near \o w) = (rest \o near) \o w
      BY ONLY <2>6, <2>4, ConcatAssociative, SMTT(60)
    <2> QED
      BY <1>5, <2>2, <2>3, <2>5 DEF w
  <1>11. Len(new) = n + Len(c) /\ new[1].hdr = h
    <2>1. k \in Seq(Buffer) /\ ht \in Seq(Buffer) /\ Len(c) \in Nat \ {0}
      BY <1>6, <1>8 DEF Chains
    <2>2. 1 \in 1..Len(k) + Len(ht)
      BY <1>6, <1>8, <2>1
    <2>3. /\ Len(new) = Len(k) + Len(ht)
          /\ new[1] = IF 1 <= Len(k) THEN k[1] ELSE ht[1 - Len(k)]
      BY ONLY <2>1, <2>2, ConcatProperties DEF new
    <2>4. CASE n = 0
      <3>1. 1 - Len(k) = 1 /\ ~(1 <= Len(k)) /\ z = h
        BY <1>6, <2>4 DEF h
      <3> QED
        BY <1>6, <1>7, <1>8, <2>3, <3>1
    <2>5. CASE n > 0
      <3>1. 1 <= Len(k)
        BY <1>6, <2>5
      <3> QED
        BY <1>6, <1>8, <2>3, <2>5, <3>1
    <2> QED
      BY <1>6, <2>4, <2>5
  <1> HIDE DEF new
  <1>12. CASE n > f
    <2>1. r.c = <<>> /\ r.free = f + Len(c)
      BY <1>2, <1>12
    <2> QED
      BY <2>1 DEF r
  <1>13. CASE ~(n > f)
    <2>1. r.c = new /\ r.free = f - n
      BY <1>2, <1>13, <1>14
    <2>2. Len(c) \in Nat \ {0}
      BY DEF Chains
    <2>3. n + Len(c) \in Nat \ {0} /\ f - n \in Nat /\ n + Len(c) + (f - n) = Len(c) + f
      BY <1>6, <1>13, <2>2
    <2>4. /\ r.c \in Chains /\ Len(r.c) \in Nat \ {0} /\ r.c[1].hdr = c[1].hdr
          /\ r.free \in Nat /\ Len(r.c) + r.free = Len(c) + f
          /\ Flat(r.c) = d \o Flat(c)
      BY <1>9, <1>10, <1>11, <2>1, <2>3 DEF h, one
    <2> QED
      BY <2>4 DEF r
  <1> QED
    BY <1>12, <1>13

-----------------------------------------------------------------------------
(* dpl_mbuf_pullup                                                         *)

\* The prefix of x \o y as long as x is x.
LEMMA PrefixIs ==
    ASSUME NEW S, NEW x \in Seq(S), NEW y \in Seq(S)
    PROVE  SubSeq(x \o y, 1, Len(x)) = x
  <1>1. 0 \in 0..Len(y) /\ SubSeq(y, 1, 0) = <<>> /\ Len(x) + 0 = Len(x) /\ x \o <<>> = x
    OBVIOUS
  <1>2. SubSeq(x \o y, 1, Len(x) + 0) = x \o SubSeq(y, 1, 0)
    BY <1>1, PrefixOfConcat
  <1> QED
    BY <1>1, <1>2

\* The chain around its mbuf e.
LEMMA FlatAround ==
    ASSUME NEW c \in Chains, NEW e \in 1..Len(c)
    PROVE  /\ c[e] \in Buffer
           /\ SubSeq(c, 1, e - 1) \in Chains /\ SubSeq(c, e + 1, Len(c)) \in Chains
           /\ Len(SubSeq(c, e + 1, Len(c))) = Len(c) - e
           /\ Len(Flat(SubSeq(c, 1, e - 1))) = Start(c, e)
           /\ Flat(c) = (Flat(SubSeq(c, 1, e - 1)) \o c[e].data) \o Flat(SubSeq(c, e + 1, Len(c)))
  <1> DEFINE before == SubSeq(c, 1, e - 1)
             to == SubSeq(c, 1, e)
             after == SubSeq(c, e + 1, Len(c))
  <1>1. c \in Seq(Buffer) /\ Len(c) \in Nat
    BY DEF Chains
  <1>2. before \in Chains /\ c[e] \in Buffer /\ to = Append(before, c[e])
    <2> DEFINE k == e - 1
    <2>1. k \in Nat /\ k < Len(c) /\ k + 1 = e
      BY <1>1
    <2> HIDE DEF k
    <2>2. SubSeq(c, 1, k) \in Seq(Buffer) /\ c[k + 1] \in Buffer
          /\ SubSeq(c, 1, k + 1) = Append(SubSeq(c, 1, k), c[k + 1])
      BY <1>1, <2>1, PrefixStep
    <2> QED
      BY <2>1, <2>2 DEF Chains, k
  <1> HIDE DEF before, to
  <1>3. Flat(to) = Flat(before) \o c[e].data
    BY <1>2, FlatAppend
  <1>4. Flat(c) = Flat(to) \o Flat(after) /\ after \in Chains
    BY <1>1, FlatSplit DEF to
  <1>5. Len(Flat(before)) = Start(c, e)
    BY <1>2, FlatType DEF Start, before
  <1>6. Len(after) = Len(c) - e
    BY <1>1
  <1> QED
    BY <1>2, <1>3, <1>4, <1>5, <1>6 DEF before

\* What stays behind when the first bytes are taken out of the chain.
Drained(c, e, cut) ==
    IF cut = Len(c[e].data) THEN SubSeq(c, e + 1, Len(c))
    ELSE <<[c[e] EXCEPT !.data = SubSeq(@, cut + 1, Len(@)), !.off = @ + cut]>>
         \o SubSeq(c, e + 1, Len(c))

\* What dpl_mbuf_pullup leaves of the chain it moves need bytes from.
LEMMA DrainedFlat ==
    ASSUME NEW c \in Chains, NEW need \in Nat, NEW e \in 1..Len(c), NEW cut,
           cut = need - Start(c, e), cut \in 0..Len(c[e].data)
    PROVE  /\ Drained(c, e, cut) \in Chains
           /\ Len(Drained(c, e, cut)) \in Nat /\ Len(Drained(c, e, cut)) <= Len(c)
           /\ SubSeq(Flat(c), 1, need) \in Seq(Bytes) /\ Len(SubSeq(Flat(c), 1, need)) = need
           /\ Flat(c) = SubSeq(Flat(c), 1, need) \o Flat(Drained(c, e, cut))
  <1> DEFINE m == c[e]
             x == Flat(SubSeq(c, 1, e - 1))
             d == m.data
             after == SubSeq(c, e + 1, Len(c))
             z == Flat(after)
             d1 == SubSeq(d, 1, cut)
             d2 == SubSeq(d, cut + 1, Len(d))
             p == x \o d1
             r == d2 \o z
             rest == Drained(c, e, cut)
             m2 == [m EXCEPT !.data = SubSeq(@, cut + 1, Len(@)), !.off = @ + cut]
  <1>1. /\ m \in Buffer /\ SubSeq(c, 1, e - 1) \in Chains /\ after \in Chains
        /\ Len(after) = Len(c) - e /\ Len(x) = Start(c, e) /\ Flat(c) = (x \o d) \o z
    BY FlatAround
  <1>2. x \in Seq(Bytes) /\ d \in Seq(Bytes) /\ z \in Seq(Bytes) /\ cut \in 0..Len(d)
        /\ Start(c, e) \in Nat /\ Len(c) \in Nat
    <2>1. x \in Seq(Bytes) /\ z \in Seq(Bytes)
      BY <1>1, FlatType
    <2>2. d \in Seq(Bytes)
      BY <1>1, BufferFields
    <2>3. Start(c, e) \in Nat
      BY StartBounds
    <2>4. Len(c) \in Nat /\ cut \in 0..Len(d)
      BY DEF Chains
    <2> QED
      BY ONLY <2>1, <2>2, <2>3, <2>4
  <1>3. m2 \in Buffer /\ m2.data = d2
    <2> HIDE DEF m
    <2>1. m2 \in Buffer
      BY <1>1, <1>2, HeadBuffer, ZenonT(60)
    <2>2. m2.data = SubSeq(m.data, cut + 1, Len(m.data))
      BY <1>1, <1>2, HeadBuffer
    <2> QED
      BY <2>1, <2>2, SMTT(60)
  <1>4. rest = IF cut = Len(d) THEN after ELSE <<m2>> \o after
    BY DEF Drained
  <1> HIDE DEF m, x, d, after, z, m2, rest
  <1>5. d1 \in Seq(Bytes) /\ Len(d1) = cut /\ d2 \in Seq(Bytes) /\ d1 \o d2 = d
    <2>1. 1 \in 1..Len(d) + 1 /\ cut \in 1 - 1..Len(d) /\ Len(d) \in cut..Len(d)
          /\ cut + 1 \in Nat \ {0} /\ Len(d) \in Int /\ cut \in Int /\ cut <= Len(d)
      BY <1>2
    <2>2. d1 \o d2 = SubSeq(d, 1, Len(d))
      BY <1>2, <2>1, ConcatAdjacentSubSeq
    <2>3. SubSeq(d, 1, Len(d)) = d
      BY <1>2, SubSeqFull
    <2>4. d1 \in Seq(Bytes) /\ Len(d1) = (IF 1 <= cut THEN cut - 1 + 1 ELSE 0)
          /\ d2 \in Seq(Bytes)
      BY <1>2, <2>1, SubSeqIs, SMTT(60)
    <2> HIDE DEF d1, d2
    <2>6. d1 \o d2 = d
      BY ONLY <2>2, <2>3, Zenon
    <2>7. Len(d1) = cut
      <3> DEFINE l == Len(d1)
      <3>1. l = (IF 1 <= cut THEN cut - 1 + 1 ELSE 0) /\ cut \in Nat
        BY <1>2, <2>4
      <3> HIDE DEF l
      <3>2. l = cut
        BY ONLY <3>1
      <3> QED
        BY <3>2 DEF l
    <2> QED
      BY ONLY <2>4, <2>6, <2>7, Zenon
  <1>6. cut = Len(d) => d2 = <<>>
    BY <1>2
  <1> HIDE DEF d1, d2
  <1>7. rest \in Chains /\ Flat(rest) = r /\ Len(rest) \in Nat /\ Len(rest) <= Len(c)
    <2>1. CASE cut = Len(d)
      <3>1. rest = after /\ d2 = <<>> /\ <<>> \o z = z
        BY <1>2, <1>4, <1>6, <2>1
      <3>2. Flat(rest) = r
        BY <3>1 DEF z
      <3> QED
        BY <1>1, <1>2, <3>1, <3>2
    <2>2. CASE cut # Len(d)
      <3>1. rest = <<m2>> \o after
        BY <1>4, <2>2
      <3>2. <<m2>> \o after \in Chains /\ Len(<<m2>> \o after) = 1 + Len(after)
            /\ Flat(<<m2>> \o after) = m2.data \o Flat(after)
        BY <1>1, <1>3, HeadFlat
      <3>3. 1 + Len(after) \in Nat /\ 1 + Len(after) <= Len(c)
        BY <1>1, <1>2
      <3> QED
        BY <1>3, <3>1, <3>2, <3>3 DEF z
    <2> QED
      BY <2>1, <2>2
  <1>8. p \in Seq(Bytes) /\ Len(p) = need /\ r \in Seq(Bytes)
    <2>1. p \in Seq(Bytes) /\ Len(p) = Len(x) + Len(d1) /\ r \in Seq(Bytes)
      BY <1>2, <1>5, SMTT(60)
    <2>2. Len(x) + Len(d1) = need
      BY <1>1, <1>2, <1>5, SMTT(60)
    <2> QED
      BY <2>1, <2>2
  <1>9. Flat(c) = p \o r
    <2>1. (x \o (d1 \o d2)) \o z = ((x \o d1) \o d2) \o z
      BY <1>2, <1>5, ConcatBytes, ZenonT(60)
    <2>2. (p \o d2) \o z = p \o (d2 \o z)
      <3> HIDE DEF p
      <3>1. p \in Seq(Bytes) /\ d2 \in Seq(Bytes) /\ z \in Seq(Bytes)
        BY <1>2, <1>5, <1>8
      <3> QED
        BY ONLY <3>1, ConcatBytes
    <2> QED
      BY <1>1, <1>5, <2>1, <2>2
  <1> HIDE DEF p, r
  <1>10. SubSeq(p \o r, 1, Len(p)) = p
    BY <1>8, PrefixIs
  <1> QED
    BY <1>7, <1>8, <1>9, <1>10 DEF rest

\* A buffer that ends at need or later shows that the chain is that long.
LEMMA EndsBeyond ==
    ASSUME NEW c \in Chains, NEW need \in Int, NEW e \in 1..Len(c),
           Start(c, e) + Len(c[e].data) >= need
    PROVE  need <= Size(c)
  <1> DEFINE st == Start(c, e)
             l == Len(c[e].data)
  <1>1. st \in Nat /\ l \in Nat /\ st + l <= Size(c) /\ Size(c) \in Nat
    BY StartBounds, FlatType
  <1>2. st + l >= need
    OBVIOUS
  <1> HIDE DEF st, l
  <1> QED
    BY <1>1, <1>2

\* The bytes from the chain behind go to the buffer in front.
Moved(to, from, need, e, cut) ==
    <<[to EXCEPT !.data = @ \o SubSeq(Flat(from), 1, need)]>> \o Drained(from, e, cut)

\* dpl_mbuf_pullup's moves keep the bytes in order.
LEMMA MovedFlat ==
    ASSUME NEW to \in Buffer, NEW from \in Chains, NEW need \in Nat, NEW e \in 1..Len(from),
           NEW cut, cut = need - Start(from, e), cut \in 0..Len(from[e].data),
           need <= Trailing(to)
    PROVE  LET c == Moved(to, from, need, e, cut)
           IN  /\ c \in Chains /\ Len(c) \in Nat \ {0} /\ Len(c) <= 1 + Len(from)
               /\ c[1].hdr = to.hdr /\ Len(c[1].data) = Len(to.data) + need
               /\ Flat(c) = to.data \o Flat(from)
  <1> DEFINE taken == SubSeq(Flat(from), 1, need)
             rest == Drained(from, e, cut)
             m == [to EXCEPT !.data = @ \o taken]
             c == <<m>> \o rest
             y == Flat(rest)
             x == to.data
  <1>1. /\ rest \in Chains /\ Len(rest) \in Nat /\ Len(rest) <= Len(from)
        /\ taken \in Seq(Bytes) /\ Len(taken) = need /\ Flat(from) = taken \o Flat(rest)
    BY DrainedFlat
  <1> HIDE DEF taken, rest
  <1>2. m \in Buffer /\ m.data = x \o taken /\ m.hdr = to.hdr
    BY <1>1, LongerBuffer
  <1> HIDE DEF m
  <1>3. c \in Chains /\ Len(c) = 1 + Len(rest) /\ c[1] = m /\ Flat(c) = m.data \o y
    BY <1>1, <1>2, HeadFlat
  <1> HIDE DEF c
  <1>4. x \in Seq(Bytes) /\ y \in Seq(Bytes) /\ Len(from) \in Nat
    BY <1>1, FlatType, BufferFields DEF Chains
  <1>5. Flat(c) = (x \o taken) \o y /\ Flat(from) = taken \o y
    BY <1>1, <1>2, <1>3
  <1> HIDE DEF x, y
  <1>6. (x \o taken) \o y = x \o (taken \o y)
    BY <1>1, <1>4, ConcatBytes
  <1>7. Len(c) \in Nat \ {0} /\ Len(c) <= 1 + Len(from)
    BY <1>1, <1>3, <1>4
  <1>8. Len(c[1].data) = Len(x) + need
    <2>0. x \in Seq(Bytes) /\ taken \in Seq(Bytes)
      BY <1>1, <1>4
    <2>1. Len(x \o taken) = Len(x) + Len(taken)
      BY ONLY <2>0, ConcatProperties
    <2> QED
      BY <1>1, <1>2, <1>3, <2>1
  <1> QED
    BY <1>2, <1>3, <1>5, <1>6, <1>7, <1>8 DEF c, m, rest, taken, x, Moved

\* dpl_mbuf_pullup keeps the chain's bytes, the first len of them in its first
\* buffer; or it frees the chain, for want of bytes, of a buffer or of room.
LEMMA PulledUpFlat ==
    ASSUME NEW c \in Chains, c # <<>>, NEW len \in Nat, NEW f \in Nat
    PROVE  LET r == PulledUp(c, len, f)
           IN  \/ /\ r.c = <<>> /\ r.free = Len(c) + f
                  /\ len > Size(c) \/ f = 0 \/ len > BufLen - c[1].hdr
               \/ /\ r.c \in Chains /\ Len(r.c) \in Nat \ {0} /\ r.c[1].hdr = c[1].hdr
                  /\ r.free \in Nat /\ Len(r.c) + r.free = Len(c) + f
                  /\ Flat(r.c) = Flat(c) /\ Len(r.c[1].data) >= len
  <1> DEFINE one == c[1]
             inHead == Len(one.data) + Trailing(one) >= len /\ Len(c) > 1
             to == IF inHead THEN one ELSE [off |-> one.hdr, data |-> <<>>, hdr |-> one.hdr]
             from == IF inHead THEN Tail(c) ELSE c
             need == len - Len(to.data)
             ends == {i \in DOMAIN from : Start(from, i) + Len(from[i].data) >= need}
             end == CHOOSE i \in ends : \A j \in ends : i <= j
             cut == need - Start(from, end)
             taken == SubSeq(Flat(from), 1, need)
             m == [to EXCEPT !.data = @ \o taken]
             rest == Drained(from, end, cut)
             whole == Len(c) + f
             c2 == <<m>> \o rest
             r == PulledUp(c, len, f)
             fail == ends = {} \/ (~inHead /\ (f = 0 \/ len > BufLen - one.hdr))
  <1>1. r = IF Len(one.data) >= len THEN [c |-> c, free |-> f]
            ELSE IF fail THEN [c |-> <<>>, free |-> whole]
            ELSE [c |-> c2, free |-> whole - Len(c2)]
    BY DEF PulledUp, Drained
  <1>2. one \in Buffer /\ Tail(c) \in Chains /\ Len(c) = 1 + Len(Tail(c))
        /\ Flat(c) = one.data \o Flat(Tail(c)) /\ Len(c) \in Nat \ {0} /\ Len(Tail(c)) \in Nat
    BY HeadTail DEF Chains
  <1> HIDE DEF one, r
  <1>3. /\ one.data \in Seq(Bytes) /\ Len(one.data) \in Nat /\ one.hdr \in Nat
        /\ one.hdr \in {0, HdrLen} /\ one.hdr <= BufLen /\ Trailing(one) \in Nat
    BY <1>2, BufferFields, MbufConstants, SMTT(60) DEF Buffer, Trailing
  <1>4. CASE Len(one.data) >= len
    <2>1. r.c = c /\ r.free = f
      BY <1>1, <1>4, Zenon
    <2>2. /\ r.c \in Chains /\ Len(r.c) \in Nat \ {0} /\ r.c[1].hdr = c[1].hdr
          /\ r.free \in Nat /\ Len(r.c) + r.free = Len(c) + f
          /\ Flat(r.c) = Flat(c) /\ Len(r.c[1].data) >= len
      BY <1>2, <1>4, <2>1 DEF one
    <2> QED
      BY <2>2 DEF r
  <1>5. ASSUME Len(one.data) < len
        PROVE  /\ to \in Buffer /\ to.hdr = one.hdr /\ from \in Chains /\ from # <<>>
               /\ Flat(c) = to.data \o Flat(from) /\ need \in Nat
               /\ Len(to.data) \in Nat /\ Len(to.data) + need = len
               /\ Len(to.data) + Size(from) = Size(c)
               /\ inHead => need <= Trailing(to) /\ 1 + Len(from) = Len(c)
               /\ ~inHead => Trailing(to) = BufLen - one.hdr /\ need = len /\ from = c
    <2>1. CASE inHead
      <3>0. to = one /\ from = Tail(c)
        BY <2>1
      <3>1. to = one /\ from = Tail(c) /\ Len(from) > 0 /\ 1 + Len(from) = Len(c)
            /\ from \in Seq(Buffer)
        <4>1. Len(c) > 1
          BY <2>1
        <4> HIDE DEF to, from, inHead
        <4> QED
          BY <1>2, <3>0, <4>1 DEF Chains
      <3>2. need \in Nat /\ Len(one.data) + need = len /\ need <= Trailing(one)
        BY <1>3, <1>5, <2>1, <3>1
      <3>3. from # <<>>
        <4> HIDE DEF from
        <4>1. Len(<<>>) = 0 /\ ~(0 > 0)
          OBVIOUS
        <4> QED
          BY ONLY <3>1, <4>1, Zenon
      <3>4. Len(one.data) + Size(from) = Size(c)
        <4> DEFINE u == one.data
                   v == Flat(from)
        <4>1. u \in Seq(Bytes) /\ v \in Seq(Bytes) /\ Size(from) = Len(v) /\ Size(c) = Len(u \o v)
          BY <1>2, <1>3, <3>1, FlatType, Zenon
        <4> HIDE DEF u, v
        <4>2. Len(u \o v) = Len(u) + Len(v)
          BY ONLY <4>1, ConcatProperties
        <4> QED
          BY <4>1, <4>2, SMTT(60) DEF u
      <3> HIDE DEF to, from, need
      <3> QED
        BY <1>2, <1>3, <2>1, <3>1, <3>2, <3>3, <3>4, Zenon
    <2>2. CASE ~inHead
      <3>1. to = [off |-> one.hdr, data |-> <<>>, hdr |-> one.hdr] /\ from = c
        BY <2>2
      <3>2. to \in Buffer
        <4> DEFINE h == one.hdr
        <4>1. h \in Nat /\ h \in {0, HdrLen} /\ <<>> \in Seq(Bytes) /\ h <= h
              /\ h + Len(<<>>) <= BufLen
          BY <1>3, MbufConstants
        <4> HIDE DEF h
        <4>2. [off |-> h, data |-> <<>>, hdr |-> h] \in Buffer
          BY ONLY <4>1, IsBuffer
        <4> QED
          BY <3>1, <4>2 DEF h
      <3>3. to.data = <<>> /\ to.hdr = one.hdr /\ Len(to.data) = 0 /\ Trailing(to) = BufLen - one.hdr
        BY <1>3, <3>1, MbufConstants DEF Trailing
      <3>4. need = len
        BY <3>3
      <3>5. <<>> \o Flat(c) = Flat(c) /\ Size(c) \in Nat
        BY FlatType
      <3>6. Flat(c) = to.data \o Flat(from) /\ Len(to.data) + need = len
            /\ Len(to.data) + Size(from) = Size(c)
        <4> HIDE DEF to, from, need
        <4>1. Flat(c) = to.data \o Flat(from)
          BY ONLY <3>1, <3>3, <3>5, Zenon
        <4>2. Len(to.data) + need = len
          BY <3>3, <3>4
        <4>3. Len(to.data) + Size(from) = Size(c)
          BY <3>1, <3>3, <3>5
        <4> QED
          BY <4>1, <4>2, <4>3
      <3>7. from # <<>> /\ from \in Chains /\ need \in Nat /\ Len(to.data) \in Nat
        <4> HIDE DEF to, from, need
        <4> QED
          BY <3>1, <3>3, <3>4
      <3> HIDE DEF to, from, need
      <3> QED
        BY ONLY <2>2, <3>1, <3>2, <3>3, <3>4, <3>6, <3>7
    <2> QED
      BY <2>1, <2>2, Zenon
  <1>6. CASE Len(one.data) < len /\ fail
    <2>1. r.c = <<>> /\ r.free = Len(c) + f
      <3>1. ~(Len(one.data) >= len)
        BY <1>3, <1>6
      <3> HIDE DEF fail, c2
      <3> QED
        BY <1>1, <1>6, <3>1
    <2>2. len > Size(c) \/ f = 0 \/ len > BufLen - one.hdr
      <3>1. CASE ends = {}
        <4>1. need > Size(from)
          <5>1. need \in Nat /\ from \in Chains /\ from # <<>> /\ Size(from) \in Nat
            BY <1>5, <1>6, FlatType
          <5> HIDE DEF need, from
          <5>2. need <= Size(from) => ends # {}
            BY <5>1, EndsThere
          <5> QED
            BY <3>1, <5>1, <5>2
        <4>2. need \in Nat /\ Len(to.data) \in Nat /\ Len(to.data) + need = len
              /\ Len(to.data) + Size(from) = Size(c) /\ Size(from) \in Nat /\ Size(c) \in Nat
          BY <1>5, <1>6, FlatType
        <4> HIDE DEF need, from, to
        <4>3. len > Size(c)
          BY <4>1, <4>2
        <4> QED
          BY <4>3
      <3>2. CASE ~inHead /\ (f = 0 \/ len > BufLen - one.hdr)
        BY <3>2
      <3> QED
        BY <1>6, <3>1, <3>2
    <2> QED
      BY <2>1, <2>2 DEF one, r
  <1>7. CASE Len(one.data) < len /\ ~fail
    <2>1. r.c = c2 /\ r.free = whole - Len(c2)
      <3>1. ~(Len(one.data) >= len)
        BY <1>3, <1>7
      <3> HIDE DEF fail, c2, whole
      <3> QED
        BY <1>1, <1>7, <3>1
    <2>2. /\ to \in Buffer /\ to.hdr = one.hdr /\ from \in Chains /\ from # <<>>
          /\ Flat(c) = to.data \o Flat(from) /\ need \in Nat
          /\ Len(to.data) \in Nat /\ Len(to.data) + need = len
          /\ need <= Trailing(to) /\ 1 + Len(from) <= whole
      <3>1. inHead => need <= Trailing(to) /\ 1 + Len(from) = Len(c)
        BY <1>5, <1>7
      <3>2. ~inHead => Trailing(to) = BufLen - one.hdr /\ need = len /\ from = c
        BY <1>5, <1>7
      <3>3. ~inHead => ~(f = 0 \/ len > BufLen - one.hdr)
        BY <1>7
      <3>4. need <= Trailing(to) /\ 1 + Len(from) <= whole
        <4> HIDE DEF inHead, need, to, from
        <4>1. BufLen - one.hdr \in Nat
          BY <1>3, MbufConstants
        <4>2. CASE inHead
          BY <1>2, <3>1, <4>2
        <4>3. CASE ~inHead
          <5>1. f >= 1 /\ len <= BufLen - one.hdr
            BY <3>3, <4>1, <4>3
          <5> QED
            BY <1>2, <3>2, <4>1, <4>3, <5>1
        <4> QED
          BY <4>2, <4>3
      <3> QED
        BY <1>5, <1>7, <3>4
    <2>3. ends # {}
      BY <1>7
    <2> HIDE DEF to, need, from, inHead
    <2>4. need <= Size(from)
      <3>1. PICK i \in 1..Len(from) : Start(from, i) + Len(from[i].data) >= need
        BY <2>2, <2>3 DEF Chains
      <3> QED
        BY <2>2, <3>1, EndsBeyond
    <2>5. end \in 1..Len(from) /\ cut \in 0..Len(from[end].data) /\ cut = need - Start(from, end)
      BY <2>2, <2>4, EndsThere
    <2> HIDE DEF end, cut
    <2>6. /\ c2 \in Chains /\ Len(c2) \in Nat \ {0} /\ Len(c2) <= 1 + Len(from)
          /\ c2[1].hdr = to.hdr /\ Len(c2[1].data) = Len(to.data) + need
          /\ Flat(c2) = to.data \o Flat(from)
      <3>1. c2 = Moved(to, from, need, end, cut)
        BY DEF Moved
      <3>2. to \in Buffer /\ from \in Chains /\ need \in Nat /\ need <= Trailing(to)
        BY <2>2
      <3> DEFINE p == Moved(to, from, need, end, cut)
      <3>3. /\ p \in Chains /\ Len(p) \in Nat \ {0} /\ Len(p) <= 1 + Len(from)
            /\ p[1].hdr = to.hdr /\ Len(p[1].data) = Len(to.data) + need
            /\ Flat(p) = to.data \o Flat(from)
        BY ONLY <2>5, <3>2, MovedFlat, SMTT(60)
      <3> HIDE DEF c2, p
      <3>4. c2 = p
        BY <3>1 DEF p
      <3> QED
        BY ONLY <3>3, <3>4
    <2> HIDE DEF c2
    <2>7. Len(from) \in Nat /\ whole \in Nat
      BY <1>2, <2>2 DEF Chains
    <2>8. whole - Len(c2) \in Nat /\ Len(c2) + (whole - Len(c2)) = Len(c) + f
      BY <1>2, <2>2, <2>6, <2>7
    <2>9. Len(c2[1].data) >= len
      BY <2>2, <2>6
    <2>10. /\ r.c \in Chains /\ Len(r.c) \in Nat \ {0} /\ r.c[1].hdr = c[1].hdr
           /\ r.free \in Nat /\ Len(r.c) + r.free = Len(c) + f
           /\ Flat(r.c) = Flat(c) /\ Len(r.c[1].data) >= len
      <3> HIDE DEF whole
      <3> QED
        BY <2>1, <2>2, <2>6, <2>8, <2>9 DEF one
    <2> QED
      BY <2>10 DEF r
  <1> HIDE DEF fail
  <1> QED
    BY <1>3, <1>4, <1>6, <1>7

-----------------------------------------------------------------------------
(* dpl_mbuf_copyinto                                                       *)

\* Chains whose buffers are equally long are equally long.
LEMMA SizeSame ==
    ASSUME NEW b \in Chains, NEW c \in Chains, Len(b) = Len(c),
           \A i \in 1..Len(c) : Len(b[i].data) = Len(c[i].data)
    PROVE  Size(b) = Size(c)
  <1> DEFINE T == {i \in Nat : i <= Len(c) => Start(b, i + 1) = Start(c, i + 1)}
  <1>0. Len(c) \in Nat
    BY DEF Chains
  <1>1. 0 \in T
    <2>1. Start(b, 0 + 1) = 0 /\ Start(c, 0 + 1) = 0
      BY StartStep
    <2> QED
      BY <2>1
  <1>2. ASSUME NEW i \in Nat, i \in T PROVE i + 1 \in T
    <2> SUFFICES ASSUME i + 1 <= Len(c) PROVE Start(b, i + 1 + 1) = Start(c, i + 1 + 1)
      OBVIOUS
    <2>1. i + 1 \in 1..Len(c) /\ i <= Len(c)
      BY <1>0
    <2>2. Start(b, i + 1) = Start(c, i + 1)
      BY <1>2, <2>1
    <2>3. /\ Start(b, i + 1 + 1) = Start(b, i + 1) + Len(b[i + 1].data)
          /\ Start(c, i + 1 + 1) = Start(c, i + 1) + Len(c[i + 1].data)
      BY <2>1, StartStep
    <2>4. Len(b[i + 1].data) = Len(c[i + 1].data)
      BY <2>1
    <2> QED
      BY <2>2, <2>3, <2>4
  <1> HIDE DEF T
  <1>3. Len(c) \in T
    BY <1>0, <1>1, <1>2, Induction
  <1>4. Start(b, Len(c) + 1) = Start(c, Len(c) + 1)
    BY <1>0, <1>3 DEF T
  <1> QED
    BY <1>4, StartStep

\* dpl_mbuf_copyinto's overwriting leaves every buffer its length.
LEMMA OverwrittenFlat ==
    ASSUME NEW c \in Chains, NEW off \in Nat, NEW d \in Seq(Bytes)
    PROVE  /\ Overwritten(c, off, d) \in Chains /\ Len(Overwritten(c, off, d)) = Len(c)
           /\ Size(Overwritten(c, off, d)) = Size(c)
           /\ \A i \in 1..Len(c) : Overwritten(c, off, d)[i].hdr = c[i].hdr
  <1> DEFINE at(i, j) == Start(c, i) + j - off
             new(i) == [j \in DOMAIN c[i].data |->
                           IF at(i, j) \in DOMAIN d THEN d[at(i, j)] ELSE c[i].data[j]]
             m(i) == [c[i] EXCEPT !.data = new(i)]
             b == Overwritten(c, off, d)
  <1>0. Len(c) \in Nat /\ DOMAIN c = 1..Len(c)
    BY DEF Chains
  <1>1. b = [i \in 1..Len(c) |-> m(i)]
    BY <1>0 DEF Overwritten
  <1>2. ASSUME NEW i \in 1..Len(c)
        PROVE  m(i) \in Buffer /\ Len(m(i).data) = Len(c[i].data) /\ m(i).hdr = c[i].hdr
    <2> DEFINE e == c[i]
               x == e.data
               y == new(i)
    <2>1. e \in Buffer
      BY DEF Chains
    <2> HIDE DEF e
    <2>2. /\ x \in Seq(Bytes) /\ e.off \in Nat /\ e.hdr \in {0, HdrLen} /\ e.hdr <= e.off
          /\ e.off + Len(x) <= BufLen /\ Len(x) \in Nat
      BY <2>1, BufferFields DEF Buffer
    <2> HIDE DEF x
    <2>3. y = [j \in 1..Len(x) |-> IF at(i, j) \in DOMAIN d THEN d[at(i, j)] ELSE x[j]]
      BY <2>2 DEF e, x
    <2>4. ASSUME NEW j \in 1..Len(x)
          PROVE  (IF at(i, j) \in DOMAIN d THEN d[at(i, j)] ELSE x[j]) \in Bytes
      <3> DEFINE p == at(i, j)
      <3> HIDE DEF p
      <3>1. x[j] \in Bytes
        BY <2>2
      <3>2. p \in DOMAIN d => d[p] \in Bytes
        OBVIOUS
      <3> QED
        BY <3>1, <3>2 DEF p
    <2> HIDE DEF at, y
    <2>5. y \in [1..Len(x) -> Bytes]
      BY <2>3, <2>4
    <2>6. y \in Seq(Bytes) /\ Len(y) = Len(x)
      BY <2>2, <2>5, SMTT(60)
    <2>7. [off |-> e.off, data |-> y, hdr |-> e.hdr] \in Buffer
      BY <2>2, <2>6, IsBuffer
    <2>8. [e EXCEPT !.data = y] = [off |-> e.off, data |-> y, hdr |-> e.hdr]
      BY <2>1, BufferExcept
    <2>9. [e EXCEPT !.data = y] \in Buffer /\ Len([e EXCEPT !.data = y].data) = Len(x)
          /\ [e EXCEPT !.data = y].hdr = e.hdr
      BY <2>6, <2>7, <2>8
    <2> QED
      BY <2>9 DEF e, x, y
  <1> HIDE DEF m, b
  <1>3. b \in Chains /\ Len(b) = Len(c) /\ \A i \in 1..Len(c) : b[i] = m(i)
    BY <1>0, <1>1, <1>2 DEF Chains
  <1>4. \A i \in 1..Len(c) : Len(b[i].data) = Len(c[i].data) /\ b[i].hdr = c[i].hdr
    BY <1>2, <1>3
  <1>5. Size(b) = Size(c)
    BY <1>3, <1>4, SizeSame
  <1> QED
    BY <1>3, <1>4, <1>5 DEF b

-----------------------------------------------------------------------------
(* Sums over a finite set                                                  *)

\* A set that holds {} and s, whenever it holds s less any one member, holds
\* every subset of a finite set.
LEMMA FiniteInduction ==
    ASSUME NEW S, IsFiniteSet(S), NEW T, {} \in T,
           \A s \in SUBSET S : s # {} /\ (\A x \in s : s \ {x} \in T) => s \in T
    PROVE  SUBSET S \subseteq T
  <1> DEFINE N == {n \in Nat : \A s \in SUBSET S : Cardinality(s) = n => s \in T}
  <1>1. \A s \in SUBSET S : IsFiniteSet(s) /\ Cardinality(s) \in Nat
    BY FS_Subset, FS_CardinalityType
  <1>2. 0 \in N
    BY <1>1, FS_EmptySet
  <1>3. ASSUME NEW n \in Nat, n \in N PROVE n + 1 \in N
    <2> SUFFICES ASSUME NEW s \in SUBSET S, Cardinality(s) = n + 1 PROVE s \in T
      OBVIOUS
    <2>1. s # {}
      <3>1. Cardinality({}) = 0 /\ n + 1 # 0
        BY FS_EmptySet
      <3> QED
        BY <3>1
    <2>2. ASSUME NEW x \in s PROVE s \ {x} \in T
      <3>1. Cardinality(s \ {x}) = n
        BY <1>1, FS_RemoveElement
      <3> QED
        BY <1>3, <3>1
    <2> QED
      BY <2>1, <2>2
  <1> HIDE DEF N
  <1>4. Nat \subseteq N
    BY <1>2, <1>3, Induction
  <1> QED
    BY <1>1, <1>4 DEF N

\* As many units for each element as the function says.
Units(f, s) == {p \in s \X Nat : p[2] \in 1..f[p[1]]}
Total(f, s) == Cardinality(Units(f, s))

\* The pairs that count f over s, those of x set apart.
LEMMA UnitsStep ==
    ASSUME NEW S, NEW f \in [S -> Nat], NEW s \in SUBSET S, NEW x \in s
    PROVE  /\ Units(f, s) = Units(f, s \ {x}) \cup ({x} \X (1..f[x]))
           /\ Units(f, s \ {x}) \cap ({x} \X (1..f[x])) = {}
  BY DEF Units

\* There are finitely many of them.
LEMMA UnitsFinite ==
    ASSUME NEW S, IsFiniteSet(S), NEW f \in [S -> Nat], NEW s \in SUBSET S
    PROVE  IsFiniteSet(Units(f, s))
  <1> DEFINE T == {t \in SUBSET S : IsFiniteSet(Units(f, t))}
  <1>1. {} \in T
    <2>1. Units(f, {}) = {}
      BY DEF Units
    <2> QED
      BY <2>1, FS_EmptySet
  <1>2. ASSUME NEW t \in SUBSET S, t # {}, \A x \in t : t \ {x} \in T PROVE t \in T
    <2>1. PICK x \in t : TRUE
      BY <1>2
    <2>2. IsFiniteSet(Units(f, t \ {x}))
      BY <1>2
    <2>3. IsFiniteSet({x} \X (1..f[x]))
      <3>1. f[x] \in Int /\ 1 \in Int
        OBVIOUS
      <3>2. IsFiniteSet(1..f[x])
        BY <3>1, FS_Interval
      <3>3. IsFiniteSet({x})
        BY FS_Singleton
      <3> QED
        BY <3>2, <3>3, FS_Product
    <2>4. Units(f, t) = Units(f, t \ {x}) \cup ({x} \X (1..f[x]))
      BY UnitsStep
    <2>5. IsFiniteSet(Units(f, t))
      <3> DEFINE a == Units(f, t \ {x})
                 b == {x} \X (1..f[x])
      <3>1. IsFiniteSet(a) /\ IsFiniteSet(b) /\ Units(f, t) = a \cup b
        BY <2>2, <2>3, <2>4
      <3> HIDE DEF a, b
      <3>2. IsFiniteSet(a \cup b)
        BY <3>1, FS_Union
      <3> QED
        BY <3>1, <3>2
    <2> QED
      BY <2>5
  <1> HIDE DEF T
  <1>3. SUBSET S \subseteq T
    BY <1>1, <1>2, FiniteInduction
  <1> QED
    BY <1>3 DEF T

\* Total obeys the recursion of a sum.
LEMMA TotalStep ==
    ASSUME NEW S, IsFiniteSet(S), NEW f \in [S -> Nat], NEW s \in SUBSET S, NEW x \in s
    PROVE  /\ Total(f, s \ {x}) \in Nat /\ f[x] \in Nat
           /\ Total(f, s) = f[x] + Total(f, s \ {x})
  <1> DEFINE a == Units(f, s \ {x})
             b == {x} \X (1..f[x])
  <1>1. f[x] \in Nat
    OBVIOUS
  <1>2. IsFiniteSet(b) /\ Cardinality(b) = f[x]
    <2>1. IsFiniteSet(1..f[x]) /\ Cardinality(1..f[x]) = f[x]
      BY <1>1, FS_Interval
    <2>2. IsFiniteSet({x}) /\ Cardinality({x}) = 1
      BY FS_Singleton
    <2>3. IsFiniteSet(b) /\ Cardinality(b) = Cardinality({x}) * Cardinality(1..f[x])
      BY <2>1, <2>2, FS_Product
    <2> QED
      BY <1>1, <2>1, <2>2, <2>3
  <1>3. IsFiniteSet(a) /\ Cardinality(a) \in Nat
    BY UnitsFinite, FS_CardinalityType
  <1>4. Units(f, s) = a \cup b /\ a \cap b = {}
    BY UnitsStep
  <1> HIDE DEF a, b
  <1>5. Cardinality(a \cup b) = Cardinality(a) + Cardinality(b)
    <2>1. Cardinality(a \cup b) = Cardinality(a) + Cardinality(b) - Cardinality(a \cap b)
      BY <1>2, <1>3, FS_Union
    <2>2. Cardinality(a \cap b) = 0
      BY <1>4, FS_EmptySet
    <2> QED
      BY <1>1, <1>2, <1>3, <2>1, <2>2
  <1> QED
    BY <1>1, <1>2, <1>3, <1>4, <1>5 DEF Total, a

IsSum(g, f, S) ==
    g = [s \in SUBSET S |->
           IF s = {} THEN 0
           ELSE f[CHOOSE x \in s : TRUE] + g[s \ {CHOOSE x \in s : TRUE}]]

\* What the library's FoldFunction(+, 0, f) is by definition.
LEMMA FoldIsSum ==
    ASSUME NEW S, NEW f \in [S -> Nat]
    PROVE  FoldFunction(+, 0, f) = (CHOOSE g : IsSum(g, f, S))[S]
  BY DEF FoldFunction, FoldFunctionOnSet, MapThenFoldSet, IsSum

\* Total is a solution of that recursion.
LEMMA TotalIsSum ==
    ASSUME NEW S, IsFiniteSet(S), NEW f \in [S -> Nat]
    PROVE  IsSum([s \in SUBSET S |-> Total(f, s)], f, S)
  <1> DEFINE g == [s \in SUBSET S |-> Total(f, s)]
             h == [s \in SUBSET S |->
                     IF s = {} THEN 0
                     ELSE f[CHOOSE x \in s : TRUE] + g[s \ {CHOOSE x \in s : TRUE}]]
  <1>1. ASSUME NEW s \in SUBSET S PROVE g[s] = h[s]
    <2>1. CASE s = {}
      <3>1. Units(f, {}) = {}
        BY DEF Units
      <3>2. Total(f, s) = 0
        BY <2>1, <3>1, FS_EmptySet DEF Total
      <3> QED
        BY <2>1, <3>2
    <2>2. CASE s # {}
      <3> DEFINE x == CHOOSE x \in s : TRUE
      <3>1. x \in s
        BY <2>2
      <3>2. h[s] = f[x] + g[s \ {x}]
        BY <2>2
      <3> HIDE DEF x
      <3>3. Total(f, s) = f[x] + Total(f, s \ {x})
        BY <3>1, TotalStep
      <3>4. g[s] = Total(f, s) /\ g[s \ {x}] = Total(f, s \ {x})
        BY <3>1
      <3> HIDE DEF g, h
      <3> QED
        BY <3>2, <3>3, <3>4
    <2> QED
      BY <2>1, <2>2
  <1>2. g = h
    <2>1. g = [s \in SUBSET S |-> g[s]] /\ h = [s \in SUBSET S |-> h[s]]
      OBVIOUS
    <2> HIDE DEF g, h
    <2> QED
      BY <1>1, <2>1
  <1> QED
    BY <1>2 DEF IsSum

\* The recursion has one solution at most.
LEMMA SumUnique ==
    ASSUME NEW S, IsFiniteSet(S), NEW f \in [S -> Nat], NEW g, IsSum(g, f, S),
           NEW h, IsSum(h, f, S)
    PROVE  g[S] = h[S]
  <1> DEFINE T == {s \in SUBSET S : g[s] = h[s]}
  <1>0. ASSUME NEW k, IsSum(k, f, S), NEW s \in SUBSET S
        PROVE  k[s] = IF s = {} THEN 0
                      ELSE f[CHOOSE x \in s : TRUE] + k[s \ {CHOOSE x \in s : TRUE}]
    <2> DEFINE l == [t \in SUBSET S |->
                        IF t = {} THEN 0
                        ELSE f[CHOOSE x \in t : TRUE] + k[t \ {CHOOSE x \in t : TRUE}]]
    <2>1. l[s] = IF s = {} THEN 0
                 ELSE f[CHOOSE x \in s : TRUE] + k[s \ {CHOOSE x \in s : TRUE}]
      OBVIOUS
    <2>2. k = l
      BY <1>0 DEF IsSum
    <2> HIDE DEF l
    <2> QED
      BY <2>1, <2>2
  <1>1. {} \in T
    <2>1. {} \in SUBSET S
      OBVIOUS
    <2>2. g[{}] = 0 /\ h[{}] = 0
      BY <1>0, <2>1
    <2> QED
      BY <2>1, <2>2
  <1>2. ASSUME NEW s \in SUBSET S, s # {}, \A x \in s : s \ {x} \in T PROVE s \in T
    <2> DEFINE x == CHOOSE x \in s : TRUE
    <2>1. x \in s
      BY <1>2
    <2>2. g[s] = f[x] + g[s \ {x}] /\ h[s] = f[x] + h[s \ {x}]
      BY <1>0, <1>2
    <2> HIDE DEF x
    <2>3. g[s \ {x}] = h[s \ {x}]
      BY <1>2, <2>1
    <2> QED
      BY <2>2, <2>3
  <1> HIDE DEF T
  <1>3. SUBSET S \subseteq T
    BY <1>1, <1>2, FiniteInduction
  <1> QED
    BY <1>3 DEF T

\* The library's sum of a function over a finite set is Total.
LEMMA FoldIsTotal ==
    ASSUME NEW S, IsFiniteSet(S), NEW f \in [S -> Nat]
    PROVE  FoldFunction(+, 0, f) = Total(f, S)
  <1> DEFINE t == [s \in SUBSET S |-> Total(f, s)]
             g == CHOOSE g : IsSum(g, f, S)
  <1>1. IsSum(t, f, S)
    BY TotalIsSum
  <1>2. t[S] = Total(f, S)
    OBVIOUS
  <1> HIDE DEF t
  <1>3. IsSum(g, f, S)
    BY <1>1
  <1>4. g[S] = t[S]
    <2> HIDE DEF g
    <2> QED
      BY <1>1, <1>3, SumUnique
  <1> QED
    BY <1>2, <1>4, FoldIsSum

\* The sum changes by what its elements x and y change.
LEMMA TotalChanges ==
    ASSUME NEW S, IsFiniteSet(S), NEW f \in [S -> Nat], NEW g \in [S -> Nat],
           NEW x \in S, NEW y \in S, x # y, \A z \in S \ {x, y} : f[z] = g[z]
    PROVE  /\ Total(f, S) \in Nat /\ Total(g, S) \in Nat
           /\ f[x] + f[y] <= Total(f, S)
           /\ Total(g, S) = Total(f, S) - f[x] - f[y] + g[x] + g[y]
  <1> DEFINE s == S \ {x}
             t == s \ {y}
  <1>1. s \in SUBSET S /\ y \in s /\ S \in SUBSET S
    OBVIOUS
  <1>2. Units(f, t) = Units(g, t)
    BY DEF Units
  <1>3. Total(f, t) = Total(g, t)
    BY <1>2 DEF Total
  <1>4. /\ Total(f, s) \in Nat /\ f[x] \in Nat /\ Total(f, S) = f[x] + Total(f, s)
        /\ Total(g, s) \in Nat /\ g[x] \in Nat /\ Total(g, S) = g[x] + Total(g, s)
    BY <1>1, TotalStep
  <1>5. /\ Total(f, t) \in Nat /\ f[y] \in Nat /\ Total(f, s) = f[y] + Total(f, t)
        /\ Total(g, t) \in Nat /\ g[y] \in Nat /\ Total(g, s) = g[y] + Total(g, t)
    BY <1>1, TotalStep
  <1> HIDE DEF s, t
  <1> QED
    BY <1>3, <1>4, <1>5

\* A sum changes by what f changes at x.
LEMMA TotalChangesOne ==
    ASSUME NEW S, IsFiniteSet(S), NEW f \in [S -> Nat], NEW g \in [S -> Nat],
           NEW x \in S, \A z \in S \ {x} : f[z] = g[z]
    PROVE  /\ Total(f, S) \in Nat /\ Total(g, S) \in Nat
           /\ f[x] <= Total(f, S)
           /\ Total(g, S) = Total(f, S) - f[x] + g[x]
  <1> DEFINE s == S \ {x}
  <1>1. S \in SUBSET S
    OBVIOUS
  <1>2. Units(f, s) = Units(g, s)
    BY DEF Units
  <1>3. Total(f, s) = Total(g, s)
    BY <1>2 DEF Total
  <1>4. /\ Total(f, s) \in Nat /\ f[x] \in Nat /\ Total(f, S) = f[x] + Total(f, s)
        /\ Total(g, s) \in Nat /\ g[x] \in Nat /\ Total(g, S) = g[x] + Total(g, s)
    BY <1>1, TotalStep
  <1> HIDE DEF s
  <1> QED
    BY <1>3, <1>4

-----------------------------------------------------------------------------
(* The invariant                                                           *)

Lens(ch) == [h \in Handles |-> Len(ch[h])]

\* free buffers and the chains make up the pool
Balanced(ch, free) ==
    ch \in [Handles -> Chains] /\ free \in Nat /\ free + Total(Lens(ch), Handles) = Blocks

ChainsInv(ch, free, len, sh) ==
    /\ Balanced(ch, free) /\ len \in [Handles -> Int]
    /\ \A h \in Handles : IsPkthdr(ch[h]) /\ h \notin sh => len[h] = Size(ch[h])

MbufInv == ChainsInv(chain, num_free, omp_len, short)

\* A chain holds at most a block of bytes per buffer.
LEMMA SizeBound ==
    ASSUME NEW c \in Chains
    PROVE  Size(c) \in Nat /\ Size(c) <= Len(c) * BufLen
  <1> DEFINE T == {i \in Nat : i <= Len(c) => Start(c, i + 1) <= i * BufLen}
  <1>0. Len(c) \in Nat /\ BufLen \in Nat
    BY MbufConstants DEF Chains
  <1>1. 0 \in T
    <2>1. Start(c, 0 + 1) = 0
      BY StartStep
    <2>2. 0 * BufLen = 0
      BY <1>0
    <2> QED
      BY <2>1, <2>2
  <1>2. ASSUME NEW i \in Nat, i \in T PROVE i + 1 \in T
    <2> SUFFICES ASSUME i + 1 <= Len(c) PROVE Start(c, i + 1 + 1) <= (i + 1) * BufLen
      OBVIOUS
    <2> DEFINE st == Start(c, i + 1)
               l == Len(c[i + 1].data)
    <2>1. i + 1 \in 1..Len(c) /\ i <= Len(c)
      BY <1>0
    <2>2. st <= i * BufLen /\ st \in Nat /\ Start(c, i + 1 + 1) = st + l
      BY <1>2, <2>1, StartStep, StartBounds
    <2>3. l \in Nat /\ l <= BufLen
      <3>1. c[i + 1] \in Buffer
        BY <2>1 DEF Chains
      <3> QED
        BY <1>0, <3>1, BufferFields
    <2>4. (i + 1) * BufLen = i * BufLen + BufLen /\ i * BufLen \in Nat
      BY <1>0
    <2> HIDE DEF st, l
    <2> QED
      BY <1>0, <2>2, <2>3, <2>4
  <1> HIDE DEF T
  <1>3. Len(c) \in T
    BY <1>0, <1>1, <1>2, Induction
  <1>4. Start(c, Len(c) + 1) <= Len(c) * BufLen
    BY <1>0, <1>3 DEF T
  <1> QED
    BY <1>4, StartStep, FlatType

\* A chain of the pool's buffers is shorter than the 16 bits of omp_len can count.
LEMMA FewBuffers ==
    ASSUME NEW c \in Chains, Len(c) <= Blocks
    PROVE  Size(c) \in Nat /\ Size(c) < 65536 /\ Size(c) % 65536 = Size(c)
  <1>1. Size(c) \in Nat /\ Size(c) <= Len(c) * BufLen
    BY SizeBound
  <1>2. Len(c) * BufLen <= Blocks * BufLen /\ Len(c) * BufLen \in Nat /\ Blocks * BufLen \in Nat
    <2>1. Len(c) \in Nat /\ Blocks \in Nat /\ BufLen \in Nat
      BY MbufConstants DEF Chains
    <2> DEFINE n == Len(c)
    <2>2. n \in Nat /\ n <= Blocks
      BY <2>1
    <2> HIDE DEF n
    <2>3. n * BufLen <= Blocks * BufLen /\ n * BufLen \in Nat /\ Blocks * BufLen \in Nat
      BY <2>1, <2>2
    <2> QED
      BY <2>3 DEF n
  <1>3. Blocks * BufLen < 65536
    BY SmallPool
  <1>4. Size(c) \in Nat /\ Size(c) < 65536
    <2> DEFINE s == Size(c)
               a == Len(c) * BufLen
               b == Blocks * BufLen
    <2>1. s \in Nat /\ s <= a /\ a <= b /\ a \in Nat /\ b \in Nat /\ b < 65536
      BY <1>1, <1>2, <1>3
    <2> HIDE DEF s, a, b
    <2>2. s \in Nat /\ s < 65536
      BY ONLY <2>1
    <2> QED
      BY <2>2 DEF s
  <1> HIDE DEF Size
  <1> QED
    <2> DEFINE s == Size(c)
    <2>1. s \in Nat /\ s < 65536
      BY <1>4
    <2> HIDE DEF s
    <2>2. s % 65536 = s
      BY ONLY <2>1
    <2> QED
      BY <2>1, <2>2 DEF s

\* One chain changes, and the buffers it gains are taken from the pool.
LEMMA OneChanges ==
    ASSUME NEW ch, NEW free, Balanced(ch, free),
           NEW h \in Handles, NEW c \in Chains, NEW free2 \in Nat,
           Len(c) + free2 = Len(ch[h]) + free,
           NEW ch2, ch2 = [ch EXCEPT ![h] = c]
    PROVE  Balanced(ch2, free2) /\ Len(c) <= Blocks
  <1>0. ch \in [Handles -> Chains] /\ free \in Nat /\ free + Total(Lens(ch), Handles) = Blocks
    BY DEF Balanced
  <1> DEFINE f == Lens(ch)
             g == Lens(ch2)
  <1>1. ch2 \in [Handles -> Chains] /\ ch2[h] = c /\ \A k \in Handles \ {h} : ch2[k] = ch[k]
    BY <1>0
  <1>2. f \in [Handles -> Nat] /\ g \in [Handles -> Nat] /\ f[h] = Len(ch[h]) /\ g[h] = Len(c)
        /\ \A k \in Handles \ {h} : f[k] = g[k]
    <2>1. \A k \in Handles : Len(ch[k]) \in Nat /\ Len(ch2[k]) \in Nat
      BY <1>0, <1>1 DEF Chains
    <2> QED
      BY <1>0, <1>1, <2>1 DEF Lens
  <1> HIDE DEF f, g
  <1>3. /\ Total(f, Handles) \in Nat /\ Total(g, Handles) \in Nat
        /\ f[h] <= Total(f, Handles)
        /\ Total(g, Handles) = Total(f, Handles) - f[h] + g[h]
    BY <1>2, MbufConstants, TotalChangesOne
  <1>4. Len(c) \in Nat /\ Len(ch[h]) \in Nat /\ free + Total(f, Handles) = Blocks
    BY <1>0 DEF Chains, f
  <1>5. free2 + Total(g, Handles) = Blocks /\ Len(c) <= Blocks
    <2> DEFINE tf == Total(f, Handles)
               tg == Total(g, Handles)
               lc == Len(c)
               lh == Len(ch[h])
    <2>1. /\ tf \in Nat /\ tg \in Nat /\ lc \in Nat /\ lh \in Nat /\ lh <= tf
          /\ tg = tf - lh + lc /\ free + tf = Blocks
      BY <1>2, <1>3, <1>4
    <2>2. lc + free2 = lh + free /\ free \in Nat /\ free2 \in Nat
      BY <1>0
    <2> HIDE DEF tf, tg, lc, lh
    <2>3. free2 + tg = Blocks /\ lc <= Blocks
      BY ONLY <2>1, <2>2
    <2> QED
      BY <2>3 DEF tg, lc
  <1> QED
    BY <1>1, <1>5 DEF g, Balanced

\* Two of them change.
LEMMA TwoChange ==
    ASSUME NEW ch, NEW free, Balanced(ch, free),
           NEW h \in Handles, NEW g \in Handles, h # g,
           NEW c \in Chains, NEW e \in Chains, NEW free2 \in Nat,
           Len(c) + Len(e) + free2 = Len(ch[h]) + Len(ch[g]) + free,
           NEW ch2, ch2 = [ch EXCEPT ![g] = e, ![h] = c]
    PROVE  Balanced(ch2, free2) /\ Len(c) <= Blocks /\ Len(e) <= Blocks
  <1>a. ch \in [Handles -> Chains] /\ free \in Nat /\ free + Total(Lens(ch), Handles) = Blocks
    BY DEF Balanced
  <1> DEFINE p == Lens(ch)
             q == Lens(ch2)
  <1>1. ch2 \in [Handles -> Chains] /\ ch2[h] = c /\ ch2[g] = e
        /\ \A k \in Handles \ {h, g} : ch2[k] = ch[k]
    BY <1>a
  <1>2. /\ p \in [Handles -> Nat] /\ q \in [Handles -> Nat]
        /\ p[h] = Len(ch[h]) /\ q[h] = Len(c) /\ p[g] = Len(ch[g]) /\ q[g] = Len(e)
        /\ \A k \in Handles \ {h, g} : p[k] = q[k]
    <2>1. \A k \in Handles : Len(ch[k]) \in Nat /\ Len(ch2[k]) \in Nat
      BY <1>a, <1>1 DEF Chains
    <2> QED
      BY <1>a, <1>1, <2>1 DEF Lens
  <1> HIDE DEF p, q
  <1>0. IsFiniteSet(Handles) /\ h # g /\ h \in Handles /\ g \in Handles
    BY MbufConstants
  <1>3. /\ Total(p, Handles) \in Nat /\ Total(q, Handles) \in Nat
        /\ p[h] + p[g] <= Total(p, Handles)
        /\ Total(q, Handles) = Total(p, Handles) - p[h] - p[g] + q[h] + q[g]
    <2>1. /\ IsFiniteSet(Handles) /\ p \in [Handles -> Nat] /\ q \in [Handles -> Nat]
          /\ h \in Handles /\ g \in Handles /\ h # g
      BY ONLY <1>0, <1>2
    <2>2. \A k \in Handles \ {h, g} : p[k] = q[k]
      BY ONLY <1>2
    <2> QED
      BY ONLY <2>1, <2>2, TotalChanges, SMTT(60)
  <1>4. Len(c) \in Nat /\ Len(e) \in Nat /\ Len(ch[h]) \in Nat /\ Len(ch[g]) \in Nat
        /\ free + Total(p, Handles) = Blocks
    BY <1>a DEF Chains, p
  <1>5. free2 + Total(q, Handles) = Blocks /\ Len(c) <= Blocks /\ Len(e) <= Blocks
    <2> DEFINE tf == Total(p, Handles)
               tg == Total(q, Handles)
               lc == Len(c)
               le == Len(e)
               lh == Len(ch[h])
               lg == Len(ch[g])
    <2>1. /\ tf \in Nat /\ tg \in Nat /\ lc \in Nat /\ lh \in Nat /\ le \in Nat /\ lg \in Nat
          /\ lh + lg <= tf /\ tg = tf - lh - lg + lc + le /\ free + tf = Blocks
      BY <1>2, <1>3, <1>4
    <2>2. lc + le + free2 = lh + lg + free /\ free \in Nat /\ free2 \in Nat
      BY <1>a
    <2> HIDE DEF tf, tg, lc, lh, le, lg
    <2>3. free2 + tg = Blocks /\ lc <= Blocks /\ le <= Blocks
      BY ONLY <2>1, <2>2
    <2> QED
      BY <2>3 DEF tg, lc, le
  <1> QED
    BY <1>1, <1>5 DEF q, Balanced

\* What the invariant says of one chain.
LEMMA MbufInvIs ==
    ASSUME MbufInv, NEW h \in Handles
    PROVE  /\ chain \in [Handles -> Chains] /\ chain[h] \in Chains
           /\ num_free \in Nat /\ omp_len[h] \in Int /\ Len(chain[h]) \in Nat
           /\ IsPkthdr(chain[h]) /\ h \notin short => omp_len[h] = Size(chain[h])
  <1>1. chain \in [Handles -> Chains] /\ num_free \in Nat /\ omp_len \in [Handles -> Int]
        /\ \A k \in Handles : IsPkthdr(chain[k]) /\ k \notin short => omp_len[k] = Size(chain[k])
    BY DEF MbufInv, ChainsInv, Balanced
  <1>2. chain[h] \in Chains /\ omp_len[h] \in Int
    BY <1>1
  <1>3. Len(chain[h]) \in Nat
    BY <1>2 DEF Chains
  <1> QED
    BY <1>1, <1>2, <1>3

\* An operation on one chain that takes its buffers from the pool and tells the
\* header the bytes it leaves keeps the invariant.
LEMMA HoldsKeeps ==
    ASSUME MbufInv, NEW h \in Handles, NEW c \in Chains, NEW len \in Int, NEW free \in Nat,
           Len(c) + free = Len(chain[h]) + num_free,
           IsPkthdr(c) /\ h \notin short => len = Size(c),
           Holds(h, c, len, free)
    PROVE  MbufInv'
  <1> DEFINE ch2 == [chain EXCEPT ![h] = c]
             n == IF IsPkthdr(c) THEN len % 65536 ELSE 0
  <1>1. /\ Balanced(chain, num_free) /\ omp_len \in [Handles -> Int]
        /\ \A k \in Handles : IsPkthdr(chain[k]) /\ k \notin short => omp_len[k] = Size(chain[k])
    BY DEF MbufInv, ChainsInv
  <1>2. Balanced(ch2, free) /\ Len(c) <= Blocks
    <2>1. ch2 = [chain EXCEPT ![h] = c]
      OBVIOUS
    <2> HIDE DEF ch2
    <2> QED
      BY <1>1, <2>1, OneChanges
  <1>3. ch2[h] = c /\ \A k \in Handles \ {h} : ch2[k] = chain[k]
    BY <1>1 DEF Balanced
  <1>4. chain' = ch2 /\ num_free' = free /\ omp_len' = [omp_len EXCEPT ![h] = n]
        /\ short' = IF c = <<>> THEN short \ {h} ELSE short
    BY DEF Holds
  <1>5. n \in Int /\ (IsPkthdr(c) /\ h \notin short => n = Size(c))
    <2>1. CASE IsPkthdr(c)
      <3>1. len % 65536 \in Int
        OBVIOUS
      <3>2. h \notin short => len % 65536 = Size(c)
        BY <1>2, <2>1, FewBuffers
      <3> QED
        BY <2>1, <3>1, <3>2
    <2>2. CASE ~IsPkthdr(c)
      BY <2>2
    <2> QED
      BY <2>1, <2>2
  <1> HIDE DEF n, ch2
  <1>6. omp_len' \in [Handles -> Int] /\ omp_len'[h] = n
        /\ \A k \in Handles \ {h} : omp_len'[k] = omp_len[k]
    BY <1>1, <1>4, <1>5
  <1>7. \A k \in Handles : IsPkthdr(chain'[k]) /\ k \notin short' => omp_len'[k] = Size(chain'[k])
    <2> SUFFICES ASSUME NEW k \in Handles, IsPkthdr(chain'[k]), k \notin short'
                 PROVE  omp_len'[k] = Size(chain'[k])
      OBVIOUS
    <2>1. CASE k = h
      <3>1. chain'[k] = c /\ IsPkthdr(c)
        BY <1>3, <1>4, <2>1
      <3>2. c # <<>>
        BY <3>1 DEF IsPkthdr
      <3>3. h \notin short
        BY <1>4, <2>1, <3>2
      <3> QED
        BY <1>5, <1>6, <2>1, <3>1, <3>3
    <2>2. CASE k # h
      <3>1. chain'[k] = chain[k] /\ omp_len'[k] = omp_len[k] /\ k \notin short
        BY <1>3, <1>4, <1>6, <2>2
      <3> QED
        BY <1>1, <3>1
    <2> QED
      BY <2>1, <2>2
  <1> QED
    BY <1>2, <1>4, <1>6, <1>7 DEF MbufInv, ChainsInv

-----------------------------------------------------------------------------
(* The operations keep the invariant *)

\* The bytes a caller hands in.
LEMMA DataType ==
    ASSUME NEW n \in Nat, NEW d \in Data(n)
    PROVE  d \in Seq(Bytes) /\ Len(d) \in Nat /\ Len(d) <= n
  <1>1. d \in BoundedSeq(Bytes, n)
    BY DEF Data
  <1>2. PICK m \in 0..n : d \in [1..m -> Bytes]
    BY <1>1 DEF BoundedSeq, SeqOf
  <1> QED
    BY <1>2

\* Whether a chain has a packet header is told by its first buffer.
LEMMA SameHead ==
    ASSUME NEW c \in Chains, c # <<>>, NEW e \in Chains, Len(e) \in Nat \ {0},
           e[1].hdr = c[1].hdr
    PROVE  e # <<>> /\ IsPkthdr(e) = IsPkthdr(c)
  <1>1. e # <<>>
    BY DEF Chains
  <1> QED
    BY <1>1 DEF IsPkthdr

\* The size of a chain whose bytes are x \o y.
LEMMA SizeOfConcat ==
    ASSUME NEW c \in Chains, NEW x \in Seq(Bytes), NEW y \in Seq(Bytes), Flat(c) = x \o y
    PROVE  Size(c) = Len(x) + Len(y)
  <1>1. Len(x \o y) = Len(x) + Len(y)
    OBVIOUS
  <1> QED
    BY <1>1, FlatType

\* c2 and f2 free buffers are what an operation makes of c and f
Balances(c, f, c2, f2) == c2 \in Chains /\ f2 \in Nat /\ Len(c2) + f2 = Len(c) + f

\* An operation on one chain that neither loses nor gains a buffer, and leaves
\* the header's length true, keeps the invariant.
LEMMA StepKeeps ==
    ASSUME MbufInv, NEW h \in Handles, NEW c, NEW len \in Int, NEW free,
           Balances(chain[h], num_free, c, free),
           IsPkthdr(c) /\ h \notin short => len = Size(c),
           Holds(h, c, len, free)
    PROVE  MbufInv'
  <1>1. c \in Chains /\ free \in Nat /\ Len(c) + free = Len(chain[h]) + num_free
    BY DEF Balances
  <1> QED
    BY <1>1, HoldsKeeps

\* dpl_mbuf_append accounts for every buffer and counts the bytes it took.
LEMMA AppendedKeeps ==
    ASSUME NEW c \in Chains, c # <<>>, NEW d \in Seq(Bytes), NEW f \in Nat, NEW r,
           r = Appended(c, d, f)
    PROVE  /\ Balances(c, f, r.c, r.free) /\ r.left \in Nat
           /\ IsPkthdr(r.c) = IsPkthdr(c) /\ Size(r.c) = Size(c) + Len(d) - r.left
  <1>1. /\ r.c \in Chains /\ Len(r.c) \in Nat \ {0}
        /\ r.free \in Nat /\ Len(r.c) + r.free = Len(c) + f
        /\ r.left \in 0..Len(d) /\ (r.left = 0 \/ r.free = 0)
        /\ Flat(r.c) = Flat(c) \o SubSeq(d, 1, Len(d) - r.left)
        /\ r.c[1].hdr = c[1].hdr
    BY AppendedFlat, ZenonT(60)
  <1> DEFINE c2 == r.c
             k == r.left
             n == Len(d)
             x == SubSeq(d, 1, n - k)
  <1>2. n \in Nat /\ k \in 0..n
    BY <1>1
  <1>3. c2 \in Chains /\ Len(c2) \in Nat \ {0} /\ Flat(c2) = Flat(c) \o x /\ c2[1].hdr = c[1].hdr
    BY <1>1
  <1>4. x \in Seq(Bytes) /\ Len(x) = n - k
    <2> HIDE DEF k
    <2> QED
      BY <1>2
  <1> HIDE DEF c2, k, n, x
  <1>5. Size(c2) = Size(c) + (n - k) /\ Size(c) \in Nat
    BY <1>3, <1>4, SizeOfConcat, FlatType
  <1>6. Size(c2) = Size(c) + n - k
    BY <1>2, <1>5
  <1>7. IsPkthdr(c2) = IsPkthdr(c)
    BY <1>3, SameHead
  <1> QED
    BY <1>1, <1>6, <1>7 DEF Balances, c2, k, n

Blank(off, hdr) == <<[off |-> off, data |-> <<>>, hdr |-> hdr]>>

\* A single buffer without data.
LEMMA OneBuffer ==
    ASSUME NEW off \in 0..BufLen, NEW hdr \in {0, HdrLen}, hdr <= off
    PROVE  LET c == Blank(off, hdr)
           IN  c \in Chains /\ Len(c) = 1 /\ Size(c) = 0 /\ Flat(c) = <<>> /\ c[1].hdr = hdr
               /\ c # <<>>
  <1> DEFINE m == [off |-> off, data |-> <<>>, hdr |-> hdr]
  <1>1. m \in Buffer
    <2>1. off \in Nat /\ <<>> \in Seq(Bytes) /\ off + Len(<<>>) <= BufLen
      BY MbufConstants
    <2> QED
      BY <2>1, IsBuffer
  <1>2. m.data = <<>> /\ Len(m.data) = 0 /\ m.hdr = hdr
    OBVIOUS
  <1> HIDE DEF m
  <1>3. <<m>> \in Chains /\ Size(<<m>>) = 0 /\ Flat(<<m>>) = <<>>
    BY <1>1, <1>2, FlatOne
  <1>4. Len(<<m>>) = 1 /\ <<m>>[1].hdr = hdr /\ <<m>> # <<>>
    BY <1>2
  <1> QED
    BY <1>3, <1>4 DEF m, Blank

\* A buffer with a packet header and no data.
LEMMA FreshHeader ==
    [Fresh EXCEPT !.off = HdrLen, !.hdr = HdrLen] = [off |-> HdrLen, data |-> <<>>, hdr |-> HdrLen]
  <1> DEFINE a == [Fresh EXCEPT !.off = HdrLen]
  <1>1. a = [off |-> HdrLen, data |-> <<>>, hdr |-> 0]
    BY DEF Fresh
  <1> HIDE DEF a
  <1>2. [a EXCEPT !.hdr = HdrLen] = [off |-> HdrLen, data |-> <<>>, hdr |-> HdrLen]
    BY <1>1
  <1> QED
    BY <1>2 DEF a

\* dpl_mbuf_get keeps the invariant.
LEMMA GetKeeps ==
    ASSUME MbufInv, NEW h \in Handles, NEW off \in 0..BufLen, Get(h, off)
    PROVE  MbufInv'
  <1> DEFINE c == Blank(off, 0)
             free == num_free - 1
  <1>1. [Fresh EXCEPT !.off = off] = [off |-> off, data |-> <<>>, hdr |-> 0]
    BY DEF Fresh
  <1>2. chain[h] = <<>> /\ 1 <= num_free /\ Holds(h, c, 0, free)
    BY <1>1 DEF Get, Available, Blank
  <1>3. c \in Chains /\ Len(c) = 1 /\ c[1].hdr = 0
    BY OneBuffer
  <1> HIDE DEF c
  <1>4. ~IsPkthdr(c)
    BY <1>3 DEF IsPkthdr
  <1>5. Balances(chain[h], num_free, c, free)
    BY <1>2, <1>3, MbufInvIs DEF Balances
  <1> HIDE DEF free
  <1> QED
    BY <1>2, <1>4, <1>5, StepKeeps

\* dpl_mbuf_get_pkthdr keeps the invariant.
LEMMA GetPkthdrKeeps ==
    ASSUME MbufInv, NEW h \in Handles, GetPkthdr(h)
    PROVE  MbufInv'
  <1> DEFINE c == Blank(HdrLen, HdrLen)
             free == num_free - 1
  <1>1. [Fresh EXCEPT !.off = HdrLen, !.hdr = HdrLen]
           = [off |-> HdrLen, data |-> <<>>, hdr |-> HdrLen]
    BY FreshHeader
  <1>2. chain[h] = <<>> /\ 1 <= num_free /\ Holds(h, c, 0, free)
    BY <1>1 DEF GetPkthdr, Available, Blank
  <1>3. c \in Chains /\ Len(c) = 1 /\ Size(c) = 0
    BY MbufConstants, OneBuffer
  <1> HIDE DEF c
  <1>5. Balances(chain[h], num_free, c, free)
    BY <1>2, <1>3, MbufInvIs DEF Balances
  <1> HIDE DEF free
  <1> QED
    BY <1>2, <1>3, <1>5, StepKeeps

\* dpl_mbuf_free_chain keeps the invariant.
LEMMA FreeChainKeeps ==
    ASSUME MbufInv, NEW h \in Handles, FreeChain(h)
    PROVE  MbufInv'
  <1> DEFINE free == Released(chain[h])
  <1>1. Holds(h, <<>>, 0, free)
    BY DEF FreeChain
  <1>2. free \in Nat /\ Len(<<>>) + free = Len(chain[h]) + num_free
    BY MbufInvIs DEF Released
  <1>3. <<>> \in Chains /\ ~IsPkthdr(<<>>)
    BY FlatNone DEF IsPkthdr
  <1> HIDE DEF free
  <1> QED
    BY <1>1, <1>2, <1>3, HoldsKeeps

\* dpl_mbuf_append keeps the invariant, when the pool runs dry midway too.
LEMMA AppendDataKeeps ==
    ASSUME MbufInv, NEW h \in Handles \ short, NEW d \in Data(MaxLen), AppendData(h, d)
    PROVE  MbufInv'
  <1> DEFINE r == Appended(chain[h], d, num_free)
             c == r.c
             len == omp_len[h] + Len(d) - r.left
             free == r.free
  <1>1. chain[h] # <<>> /\ Holds(h, c, len, free)
    BY DEF AppendData
  <1>2. chain[h] \in Chains /\ num_free \in Nat /\ omp_len[h] \in Int
        /\ (IsPkthdr(chain[h]) => omp_len[h] = Size(chain[h]))
    BY MbufInvIs
  <1>3. d \in Seq(Bytes) /\ Len(d) \in Nat
    BY DataType, MbufConstants
  <1>4. /\ Balances(chain[h], num_free, r.c, r.free) /\ r.left \in Nat
        /\ IsPkthdr(r.c) = IsPkthdr(chain[h]) /\ Size(r.c) = Size(chain[h]) + Len(d) - r.left
    <2> HIDE DEF r
    <2>1. r = Appended(chain[h], d, num_free)
      BY DEF r
    <2> QED
      BY ONLY <1>1, <1>2, <1>3, <2>1, AppendedKeeps
  <1> HIDE DEF r
  <1>5. len \in Int /\ (IsPkthdr(c) /\ h \notin short => len = Size(c))
    BY <1>2, <1>3, <1>4
  <1> HIDE DEF len, c, free
  <1> QED
    BY <1>1, <1>4, <1>5, StepKeeps DEF c, free

FromKeeps(c, src, off, len, f) ==
    LET r == AppendedFrom(c, src, off, len, f)
    IN  /\ Balances(c, f, r.c, r.free)
        /\ IsPkthdr(r.c) = IsPkthdr(c) /\ Size(r.c) \in Nat /\ Size(c) \in Nat

\* dpl_mbuf_appendfrom accounts for every buffer and every byte it took.
LEMMA AppendedFromKeeps ==
    ASSUME NEW c \in Chains, c # <<>>, NEW src \in Chains, src # <<>>,
           NEW off \in Nat, NEW len \in Nat, NEW f \in Nat
    PROVE  FromKeeps(c, src, off, len, f)
  <1> DEFINE r == AppendedFrom(c, src, off, len, f)
  <1>1. /\ r.c \in Chains /\ Len(r.c) \in Nat \ {0} /\ r.c[1].hdr = c[1].hdr
        /\ r.free \in Nat /\ Len(r.c) + r.free = Len(c) + f
    BY AppendedFromFlat DEF FromFlat
  <1> DEFINE c2 == r.c
  <1>2. c2 \in Chains /\ Len(c2) \in Nat \ {0} /\ c2[1].hdr = c[1].hdr
    BY <1>1
  <1> HIDE DEF c2
  <1>3. IsPkthdr(c2) = IsPkthdr(c) /\ Size(c2) \in Nat /\ Size(c) \in Nat
    BY <1>2, SameHead, FlatType
  <1> QED
    BY <1>1, <1>3 DEF FromKeeps, Balances, c2

\* dpl_mbuf_appendfrom keeps the invariant, with src the chain itself too.
LEMMA AppendFromKeeps ==
    ASSUME MbufInv, NEW h \in Handles \ short, NEW src \in Handles \ short,
           NEW off \in Nat, NEW len \in Nat, AppendFrom(h, src, off, len)
    PROVE  MbufInv'
  <1> DEFINE r == AppendedFrom(chain[h], chain[src], off, len, num_free)
             c == r.c
             n == omp_len[h] + Size(r.c) - Size(chain[h])
             free == r.free
  <1>1. chain[h] # <<>> /\ chain[src] # <<>> /\ Holds(h, c, n, free)
    BY DEF AppendFrom
  <1>2. chain[h] \in Chains /\ num_free \in Nat /\ omp_len[h] \in Int
        /\ (IsPkthdr(chain[h]) => omp_len[h] = Size(chain[h])) /\ chain[src] \in Chains
    BY MbufInvIs
  <1>3. off \in Nat /\ len \in Nat
    OBVIOUS
  <1>4. /\ Balances(chain[h], num_free, r.c, r.free)
        /\ IsPkthdr(r.c) = IsPkthdr(chain[h]) /\ Size(r.c) \in Nat /\ Size(chain[h]) \in Nat
    <2> DEFINE b == chain[h]
               s == chain[src]
    <2>2. b \in Chains /\ b # <<>> /\ s \in Chains /\ s # <<>> /\ num_free \in Nat
      BY <1>1, <1>2
    <2> HIDE DEF b, s
    <2>3. FromKeeps(b, s, off, len, num_free)
      BY ONLY <1>3, <2>2, AppendedFromKeeps
    <2> QED
      BY <2>3 DEF FromKeeps, b, s
  <1> HIDE DEF r
  <1>5. n \in Int /\ (IsPkthdr(c) /\ h \notin short => n = Size(c))
    BY <1>2, <1>4
  <1> HIDE DEF n, c, free
  <1> QED
    BY <1>1, <1>4, <1>5, StepKeeps DEF c, free

\* The lengths of what a trim at the front or at the end leaves.
LEMMA PrefixSize ==
    ASSUME NEW x \in Seq(Bytes), NEW n \in Nat
    PROVE  /\ Len(SubSeq(x, n + 1, Len(x))) = Len(x) - Lesser(n, Len(x))
           /\ Len(SubSeq(x, 1, Len(x) - n)) = Greater(0, Len(x) - n)
  <1>1. Len(x) \in Nat /\ Len(x) - n \in Int /\ Len(x) - n <= Len(x) /\ n + 1 \in Nat \ {0}
    OBVIOUS
  <1>2. Len(SubSeq(x, n + 1, Len(x))) = IF n + 1 <= Len(x) THEN Len(x) - (n + 1) + 1 ELSE 0
    BY <1>1, SubSeqIs
  <1>3. Len(SubSeq(x, 1, Len(x) - n)) = IF 1 <= Len(x) - n THEN Len(x) - n - 1 + 1 ELSE 0
    BY <1>1, SubSeqIs
  <1> DEFINE l == Len(x)
             a == Len(SubSeq(x, n + 1, Len(x)))
             b == Len(SubSeq(x, 1, Len(x) - n))
  <1>4. l \in Nat /\ (a = IF n + 1 <= l THEN l - (n + 1) + 1 ELSE 0)
        /\ (b = IF 1 <= l - n THEN l - n - 1 + 1 ELSE 0)
    BY <1>1, <1>2, <1>3
  <1>5. n \in Nat
    OBVIOUS
  <1> HIDE DEF l, a, b
  <1>6. a = l - Lesser(n, l) /\ b = Greater(0, l - n)
    BY ONLY <1>4, <1>5 DEF Lesser, Greater
  <1> QED
    BY <1>6 DEF l, a, b

\* dpl_mbuf_adj with a positive length keeps the invariant.
LEMMA AdjHeadKeeps ==
    ASSUME MbufInv, NEW h \in Handles \ short, NEW n \in Nat, AdjHead(h, n)
    PROVE  MbufInv'
  <1> DEFINE c == TrimmedHead(chain[h], n)
             len == omp_len[h] - Lesser(n, Size(chain[h]))
  <1>1. chain[h] # <<>> /\ Holds(h, c, len, num_free)
    BY DEF AdjHead
  <1>2. chain[h] \in Chains /\ num_free \in Nat /\ omp_len[h] \in Int
        /\ (IsPkthdr(chain[h]) => omp_len[h] = Size(chain[h])) /\ Len(chain[h]) \in Nat
    BY MbufInvIs
  <1>3. 1 \in 1..Len(chain[h]) /\ Len(chain[h]) \in Nat \ {0}
    BY <1>1, <1>2 DEF Chains
  <1>4. /\ c \in Chains /\ Len(c) = Len(chain[h]) /\ c[1].hdr = chain[h][1].hdr
        /\ Flat(c) = SubSeq(Flat(chain[h]), n + 1, Size(chain[h]))
    BY <1>2, <1>3, TrimmedHeadFlat
  <1> HIDE DEF c
  <1>5. Flat(chain[h]) \in Seq(Bytes) /\ Size(chain[h]) = Len(Flat(chain[h]))
        /\ Size(chain[h]) \in Nat /\ Size(c) = Len(Flat(c))
    BY <1>2, <1>4, FlatType
  <1>6. Size(c) = Size(chain[h]) - Lesser(n, Size(chain[h]))
    <2> DEFINE x == Flat(chain[h])
    <2>1. x \in Seq(Bytes) /\ Flat(c) = SubSeq(x, n + 1, Len(x)) /\ Size(chain[h]) = Len(x)
          /\ Size(c) = Len(Flat(c)) /\ n \in Nat
      BY <1>4, <1>5
    <2> HIDE DEF x
    <2>2. Len(SubSeq(x, n + 1, Len(x))) = Len(x) - Lesser(n, Len(x))
      BY <2>1, PrefixSize
    <2> QED
      BY ONLY <2>1, <2>2
  <1>7. IsPkthdr(c) = IsPkthdr(chain[h])
    BY <1>1, <1>2, <1>3, <1>4, SameHead
  <1>8. Balances(chain[h], num_free, c, num_free)
    BY <1>2, <1>4 DEF Balances
  <1>9. Lesser(n, Size(chain[h])) \in Int
    BY <1>5 DEF Lesser
  <1>10. len \in Int /\ (IsPkthdr(c) /\ h \notin short => len = Size(c))
    BY <1>2, <1>6, <1>7, <1>9
  <1> HIDE DEF len
  <1> QED
    BY <1>1, <1>8, <1>10, StepKeeps

\* dpl_mbuf_adj with a negative length keeps the invariant.
LEMMA AdjTailKeeps ==
    ASSUME MbufInv, NEW h \in Handles \ short, NEW n \in Nat, AdjTail(h, n)
    PROVE  MbufInv'
  <1> DEFINE b == chain[h]
             c == TrimmedTail(b, n)
             last == Len(b[Len(b)].data)
             len == IF last >= n THEN omp_len[h] - n ELSE Size(c)
             free == Released(b) - Len(c)
  <1>1. b # <<>> /\ Holds(h, c, len, free)
    BY DEF AdjTail
  <1>2. b \in Chains /\ num_free \in Nat /\ omp_len[h] \in Int
        /\ (IsPkthdr(b) => omp_len[h] = Size(b)) /\ Len(b) \in Nat
    BY MbufInvIs
  <1> HIDE DEF b
  <1>3. Len(b) \in 1..Len(b)
    BY <1>1, <1>2 DEF Chains
  <1>4. /\ c \in Chains /\ Len(c) \in 1..Len(b) /\ c[1].hdr = b[1].hdr
        /\ Flat(c) = SubSeq(Flat(b), 1, Size(b) - n)
    BY <1>1, <1>2, TrimmedTailFlat
  <1>5. last \in Nat /\ last <= Size(b)
    <2> DEFINE i == Len(b)
               k == Len(b[i].data)
    <2>1. i \in 1..Len(b)
      BY <1>3
    <2> HIDE DEF i
    <2>2. Start(b, i) \in Nat /\ k \in Nat /\ Start(b, i) + k <= Size(b) /\ Size(b) \in Nat
      BY <1>2, <2>1, StartBounds, FlatType
    <2> HIDE DEF k
    <2>3. k \in Nat /\ k <= Size(b)
      BY ONLY <2>2
    <2> QED
      BY <2>3 DEF k, i
  <1> HIDE DEF c, last
  <1>6. Flat(b) \in Seq(Bytes) /\ Size(b) = Len(Flat(b)) /\ Size(b) \in Nat
        /\ Size(c) = Len(Flat(c)) /\ Size(c) \in Nat
    BY <1>2, <1>4, FlatType
  <1>7. Size(c) = Greater(0, Size(b) - n)
    <2> DEFINE x == Flat(b)
    <2>1. x \in Seq(Bytes) /\ Flat(c) = SubSeq(x, 1, Len(x) - n) /\ Size(b) = Len(x)
          /\ Size(c) = Len(Flat(c)) /\ n \in Nat
      BY <1>4, <1>6
    <2> HIDE DEF x
    <2>2. Len(SubSeq(x, 1, Len(x) - n)) = Greater(0, Len(x) - n)
      BY <2>1, PrefixSize
    <2> QED
      BY ONLY <2>1, <2>2
  <1>8. IsPkthdr(c) = IsPkthdr(b)
    BY <1>1, <1>2, <1>4, SameHead
  <1>9. Balances(b, num_free, c, free)
    BY <1>2, <1>4 DEF Balances, Released
  <1>10. len \in Int /\ (IsPkthdr(c) /\ h \notin short => len = Size(c))
    BY <1>2, <1>5, <1>6, <1>7, <1>8 DEF Greater
  <1> HIDE DEF len, free
  <1> QED
    BY <1>1, <1>9, <1>10, StepKeeps DEF b

\* dpl_mbuf_trim_front keeps the invariant.
LEMMA TrimFrontKeeps ==
    ASSUME MbufInv, NEW h \in Handles \ short, TrimFront(h)
    PROVE  MbufInv'
  <1> DEFINE b == chain[h]
             c == TrimmedFront(b)
             len == omp_len[h]
             free == Released(b) - Len(c)
  <1>1. b # <<>> /\ Holds(h, c, len, free)
    BY DEF TrimFront
  <1>2. b \in Chains /\ num_free \in Nat /\ len \in Int
        /\ (IsPkthdr(b) => len = Size(b)) /\ Len(b) \in Nat
    BY MbufInvIs
  <1> HIDE DEF b
  <1>3. /\ c \in Chains /\ Len(c) \in 1..Len(b) /\ c[1].hdr = b[1].hdr
        /\ Flat(c) = Flat(b)
    BY <1>1, <1>2, TrimmedFrontFlat
  <1> HIDE DEF c
  <1>4. Size(c) = Size(b)
    BY <1>2, <1>3, FlatType
  <1>5. IsPkthdr(c) = IsPkthdr(b)
    BY <1>1, <1>2, <1>3, SameHead
  <1>6. Balances(b, num_free, c, free)
    BY <1>2, <1>3 DEF Balances, Released
  <1>7. IsPkthdr(c) /\ h \notin short => len = Size(c)
    BY <1>2, <1>4, <1>5
  <1> HIDE DEF len, free
  <1> QED
    BY <1>1, <1>2, <1>6, <1>7, StepKeeps DEF b

\* dpl_mbuf_prepend accounts for every buffer and counts the bytes put in front.
LEMMA PrependedKeeps ==
    ASSUME NEW c \in Chains, c # <<>>, NEW d \in Seq(Bytes), NEW f \in Nat, NEW r,
           r = Prepended(c, d, f)
    PROVE  /\ Balances(c, f, r.c, r.free) /\ Size(c) \in Nat
           /\ r.c = <<>> => r.free = f + Len(c)
           /\ IsPkthdr(r.c) => IsPkthdr(c) /\ Size(r.c) = Size(c) + Len(d)
  <1>1. \/ r.c = <<>> /\ r.free = f + Len(c)
        \/ /\ r.c \in Chains /\ Len(r.c) \in Nat \ {0} /\ r.c[1].hdr = c[1].hdr
           /\ r.free \in Nat /\ Len(r.c) + r.free = Len(c) + f
           /\ Flat(r.c) = d \o Flat(c)
    BY PrependedFlat, SMTT(60)
  <1> DEFINE c2 == r.c
             f2 == r.free
  <1>2. Flat(c) \in Seq(Bytes) /\ Size(c) = Len(Flat(c)) /\ Size(c) \in Nat /\ Len(c) \in Nat
    BY FlatType DEF Chains
  <1>3. CASE r.c = <<>> /\ r.free = f + Len(c)
    <2>1. c2 = <<>> /\ f2 = f + Len(c)
      BY <1>3
    <2> HIDE DEF c2, f2
    <2>2. Balances(c, f, c2, f2) /\ ~IsPkthdr(c2)
      BY <1>2, <2>1, FlatNone DEF Balances, IsPkthdr
    <2> QED
      BY <1>2, <2>1, <2>2 DEF c2, f2
  <1>4. CASE /\ r.c \in Chains /\ Len(r.c) \in Nat \ {0} /\ r.c[1].hdr = c[1].hdr
             /\ r.free \in Nat /\ Len(r.c) + r.free = Len(c) + f
             /\ Flat(r.c) = d \o Flat(c)
    <2>1. /\ c2 \in Chains /\ Len(c2) \in Nat \ {0} /\ c2[1].hdr = c[1].hdr
          /\ f2 \in Nat /\ Len(c2) + f2 = Len(c) + f
          /\ Flat(c2) = d \o Flat(c)
      BY <1>4
    <2> HIDE DEF c2, f2
    <2>2. Size(c2) = Len(d) + Size(c)
      BY <1>2, <2>1, SizeOfConcat, ZenonT(60)
    <2>3. Size(c2) = Size(c) + Len(d)
      <3>1. Len(d) \in Nat
        OBVIOUS
      <3> QED
        BY <1>2, <2>2, <3>1
    <2>4. IsPkthdr(c2) = IsPkthdr(c) /\ c2 # <<>>
      BY <2>1, SameHead
    <2> QED
      BY <1>2, <2>1, <2>3, <2>4 DEF Balances, c2, f2
  <1> QED
    BY <1>1, <1>3, <1>4

\* dpl_mbuf_prepend keeps the invariant, when it fails and frees the chain too.
LEMMA PrependKeeps ==
    ASSUME MbufInv, NEW h \in Handles \ short, NEW d \in Data(MaxLen), Prepend(h, d)
    PROVE  MbufInv'
  <1> DEFINE b == chain[h]
             r == Prepended(b, d, num_free)
             c == r.c
             len == omp_len[h] + Len(d)
             free == r.free
  <1>1. b # <<>> /\ Holds(h, c, len, free)
    BY DEF Prepend
  <1>2. b \in Chains /\ num_free \in Nat /\ omp_len[h] \in Int
        /\ (IsPkthdr(b) => omp_len[h] = Size(b))
    BY MbufInvIs
  <1>3. d \in Seq(Bytes) /\ Len(d) \in Nat
    BY DataType, MbufConstants
  <1> HIDE DEF b
  <1>4. Balances(b, num_free, r.c, r.free) /\ Size(b) \in Nat
        /\ (IsPkthdr(r.c) => IsPkthdr(b) /\ Size(r.c) = Size(b) + Len(d))
    <2>1. r = Prepended(b, d, num_free)
      OBVIOUS
    <2> HIDE DEF r
    <2> QED
      BY ONLY <1>1, <1>2, <1>3, <2>1, PrependedKeeps
  <1> HIDE DEF r
  <1>5. len \in Int /\ (IsPkthdr(c) /\ h \notin short => len = Size(c))
    BY <1>2, <1>3, <1>4
  <1> HIDE DEF len, c, free
  <1> QED
    BY <1>1, <1>4, <1>5, StepKeeps DEF b, c, free

PullKeeps(c, len, f) ==
    LET r == PulledUp(c, len, f)
    IN  Balances(c, f, r.c, r.free)
        /\ (IsPkthdr(r.c) => IsPkthdr(c) /\ Size(r.c) = Size(c))

\* dpl_mbuf_pullup accounts for every buffer, its copy of the header included.
LEMMA PulledUpKeeps ==
    ASSUME NEW c \in Chains, c # <<>>, NEW len \in Nat, NEW f \in Nat
    PROVE  PullKeeps(c, len, f)
  <1> DEFINE r == PulledUp(c, len, f)
             c2 == r.c
             f2 == r.free
  <1>1. \/ c2 = <<>> /\ f2 = Len(c) + f
        \/ /\ c2 \in Chains /\ Len(c2) \in Nat \ {0} /\ c2[1].hdr = c[1].hdr
           /\ f2 \in Nat /\ Len(c2) + f2 = Len(c) + f
           /\ Flat(c2) = Flat(c)
    BY PulledUpFlat
  <1>2. Len(c) \in Nat
    BY DEF Chains
  <1> HIDE DEF c2, f2
  <1>3. CASE c2 = <<>> /\ f2 = Len(c) + f
    <2>1. Balances(c, f, c2, f2) /\ ~IsPkthdr(c2)
      BY <1>2, <1>3, FlatNone DEF Balances, IsPkthdr
    <2> QED
      BY <2>1 DEF PullKeeps, c2, f2
  <1>4. CASE /\ c2 \in Chains /\ Len(c2) \in Nat \ {0} /\ c2[1].hdr = c[1].hdr
             /\ f2 \in Nat /\ Len(c2) + f2 = Len(c) + f
             /\ Flat(c2) = Flat(c)
    <2>1. Balances(c, f, c2, f2)
      BY <1>4 DEF Balances
    <2>2. IsPkthdr(c2) = IsPkthdr(c)
      BY <1>4, SameHead
    <2>3. Size(c2) = Size(c)
      BY <1>4, FlatType
    <2> QED
      BY <2>1, <2>2, <2>3 DEF PullKeeps, c2, f2
  <1> QED
    BY <1>1, <1>3, <1>4

\* dpl_mbuf_pullup keeps the invariant.
LEMMA PullupKeeps ==
    ASSUME MbufInv, NEW h \in Handles \ short, NEW n \in Nat, Pullup(h, n)
    PROVE  MbufInv'
  <1> DEFINE b == chain[h]
             r == PulledUp(b, n, num_free)
             c == r.c
             len == omp_len[h]
             free == r.free
  <1>1. b # <<>> /\ Holds(h, c, len, free)
    BY DEF Pullup
  <1>2. b \in Chains /\ num_free \in Nat /\ len \in Int
        /\ (IsPkthdr(b) => len = Size(b))
    BY MbufInvIs
  <1> HIDE DEF b
  <1>3. PullKeeps(b, n, num_free)
    BY <1>1, <1>2, PulledUpKeeps
  <1>4. Balances(b, num_free, c, free) /\ (IsPkthdr(c) => IsPkthdr(b) /\ Size(c) = Size(b))
    BY <1>3 DEF PullKeeps
  <1> HIDE DEF len, c, free
  <1>5. IsPkthdr(c) /\ h \notin short => len = Size(c)
    BY <1>2, <1>4
  <1> QED
    BY <1>1, <1>2, <1>4, <1>5, StepKeeps DEF b

\* dpl_mbuf_prepend_pullup keeps the invariant, whichever of its halves fails.
LEMMA PrependPullupKeeps ==
    ASSUME MbufInv, NEW h \in Handles \ short, NEW d \in Data(MaxLen), PrependPullup(h, d)
    PROVE  MbufInv'
  <1> DEFINE b == chain[h]
             p == Prepended(b, d, num_free)
             n == Len(d)
             r == PulledUp(p.c, n, p.free)
             len == omp_len[h] + n
  <1>1. b # <<>> /\ (p.c = <<>> => Holds(h, <<>>, 0, p.free))
        /\ (p.c # <<>> => Holds(h, r.c, len, r.free))
    BY DEF PrependPullup
  <1>2. b \in Chains /\ num_free \in Nat /\ omp_len[h] \in Int
        /\ (IsPkthdr(b) => omp_len[h] = Size(b))
    BY MbufInvIs
  <1>3. d \in Seq(Bytes) /\ n \in Nat
    BY DataType, MbufConstants
  <1> HIDE DEF b
  <1>4. Balances(b, num_free, p.c, p.free) /\ Size(b) \in Nat
        /\ (IsPkthdr(p.c) => IsPkthdr(b) /\ Size(p.c) = Size(b) + n)
    <2>1. p = Prepended(b, d, num_free)
      OBVIOUS
    <2> HIDE DEF p
    <2> QED
      BY ONLY <1>1, <1>2, <1>3, <2>1, PrependedKeeps
  <1>5. CASE p.c = <<>>
    <2> DEFINE free == p.free
    <2>1. Holds(h, <<>>, 0, free) /\ Balances(b, num_free, <<>>, free)
      BY <1>1, <1>4, <1>5
    <2>2. ~IsPkthdr(<<>>)
      BY DEF IsPkthdr
    <2> HIDE DEF free
    <2> QED
      BY <2>1, <2>2, StepKeeps DEF b
  <1>6. CASE p.c # <<>>
    <2> DEFINE q == p.c
               f == p.free
    <2>1. q \in Chains /\ q # <<>> /\ f \in Nat /\ Len(q) + f = Len(b) + num_free
          /\ (IsPkthdr(q) => IsPkthdr(b) /\ Size(q) = Size(b) + n)
      BY <1>4, <1>6 DEF Balances
    <2>2. Holds(h, r.c, len, r.free)
      BY <1>1, <1>6
    <2> HIDE DEF q, f
    <2>3. PullKeeps(q, n, f)
      BY <1>3, <2>1, PulledUpKeeps
    <2> DEFINE c == r.c
               free == r.free
    <2>4. Balances(q, f, c, free) /\ (IsPkthdr(c) => IsPkthdr(q) /\ Size(c) = Size(q))
      BY <2>3 DEF PullKeeps, q, f
    <2> HIDE DEF c, free, p, r, n
    <2>5. Balances(b, num_free, c, free)
      BY <2>1, <2>4 DEF Balances
    <2>6. len \in Int /\ (IsPkthdr(c) /\ h \notin short => len = Size(c))
      BY <1>2, <1>3, <1>4, <2>1, <2>4
    <2> HIDE DEF len
    <2> QED
      BY <2>2, <2>5, <2>6, StepKeeps DEF b, c, free
  <1> QED
    BY <1>5, <1>6

LastWith(c, d) == [c EXCEPT ![Len(c)].data = @ \o d]

\* Replacing the last member.
LEMMA LastReplaced ==
    ASSUME NEW S, NEW c \in Seq(S), c # <<>>, NEW m \in S
    PROVE  [c EXCEPT ![Len(c)] = m] = Append(SubSeq(c, 1, Len(c) - 1), m)
  <1> DEFINE a == [c EXCEPT ![Len(c)] = m]
             q == SubSeq(c, 1, Len(c) - 1)
             e == Append(q, m)
  <1>1. Len(c) \in Nat \ {0}
    OBVIOUS
  <1>2. a \in Seq(S) /\ Len(a) = Len(c) /\ \A i \in 1..Len(c) : a[i] = IF i = Len(c) THEN m ELSE c[i]
    BY <1>1
  <1>3. q \in Seq(S) /\ Len(q) = Len(c) - 1 /\ \A i \in 1..Len(c) - 1 : q[i] = c[i]
    <2> DEFINE n == Len(c) - 1
    <2>1. n \in Nat /\ n <= Len(c) /\ 1 \in Nat \ {0} /\ n \in Int
      BY <1>1
    <2> DEFINE p == SubSeq(c, 1, n)
    <2> HIDE DEF n
    <2>2. /\ p \in Seq(S) /\ Len(p) = IF 1 <= n THEN n - 1 + 1 ELSE 0
          /\ \A i \in 1..Len(p) : p[i] = c[1 + i - 1]
      BY <2>1, SubSeqIs
    <2> HIDE DEF p
    <2>3. Len(p) = n
      BY <2>1, <2>2
    <2>4. \A i \in 1..n : p[i] = c[i]
      <3>1. \A i \in 1..n : 1 + i - 1 = i
        OBVIOUS
      <3> QED
        BY <2>2, <2>3, <3>1
    <2> QED
      BY <2>2, <2>3, <2>4 DEF n, p
  <1> HIDE DEF q
  <1>4. e \in Seq(S) /\ Len(e) = Len(c) /\ \A i \in 1..Len(c) : e[i] = IF i = Len(c) THEN m ELSE c[i]
    BY <1>1, <1>3
  <1> HIDE DEF a, e
  <1>5. a = e
    BY <1>2, <1>4
  <1> QED
    BY <1>5 DEF a, e, q

\* Bytes put behind the last buffer's.
LEMMA LastChanges ==
    ASSUME NEW c \in Chains, c # <<>>, NEW d \in Seq(Bytes), Len(d) <= Trailing(c[Len(c)])
    PROVE  LastWith(c, d) = Append(Front(c), [c[Len(c)] EXCEPT !.data = @ \o d])
  <1> DEFINE m == [c[Len(c)] EXCEPT !.data = @ \o d]
  <1>1. c[Len(c)] \in Buffer
    BY DEF Chains
  <1>2. m \in Buffer
    BY <1>1, LongerBuffer
  <1> HIDE DEF m
  <1>3. [c EXCEPT ![Len(c)] = m] = Append(SubSeq(c, 1, Len(c) - 1), m)
    BY <1>2, LastReplaced DEF Chains
  <1> QED
    BY <1>3 DEF LastWith, Front, m

\* dpl_mbuf_extend, and the caller that fills what it reserved, keep the invariant.
LEMMA ExtendKeeps ==
    ASSUME MbufInv, NEW h \in Handles \ short, NEW d \in Data(MaxLen), Extend(h, d)
    PROVE  MbufInv'
  <1> DEFINE b == chain[h]
             fits == Trailing(b[Len(b)]) >= Len(d)
             full == LastWith(b, d)
             more == Append(b, [Fresh EXCEPT !.data = d])
             len == omp_len[h] + Len(d)
  <1>1. b # <<>> /\ Len(d) <= BufLen /\ (fits \/ 1 <= num_free)
        /\ Holds(h, IF fits THEN full ELSE more, len, IF fits THEN num_free ELSE num_free - 1)
    BY DEF Extend, Available, LastWith
  <1>2. b \in Chains /\ num_free \in Nat /\ omp_len[h] \in Int
        /\ (IsPkthdr(b) => omp_len[h] = Size(b)) /\ Len(b) \in Nat \ {0}
    BY <1>1, MbufInvIs DEF Chains
  <1>3. d \in Seq(Bytes) /\ Len(d) \in Nat
    BY DataType, MbufConstants
  <1> HIDE DEF b
  <1>4. Flat(b) \in Seq(Bytes) /\ Size(b) = Len(Flat(b)) /\ Size(b) \in Nat
    BY <1>2, FlatType
  <1>5. len \in Int /\ (IsPkthdr(b) => len = Size(b) + Len(d))
    BY <1>2, <1>3, <1>4
  <1>6. CASE fits
    <2>1. full = Append(Front(b), [b[Len(b)] EXCEPT !.data = @ \o d])
      BY <1>1, <1>2, <1>3, <1>6, LastChanges
    <2>2. full \in Chains /\ Len(full) = Len(b) /\ Flat(full) = Flat(b) \o d
          /\ full[1].hdr = b[1].hdr
      BY <1>1, <1>2, <1>3, <1>6, <2>1, LastGrows, ZenonT(60)
    <2>3. Holds(h, full, len, num_free)
      BY <1>1, <1>6
    <2> HIDE DEF full, len
    <2>4. Size(full) = Size(b) + Len(d)
      BY <1>3, <1>4, <2>2, SizeOfConcat
    <2>5. IsPkthdr(full) = IsPkthdr(b)
      BY <1>1, <1>2, <2>2, SameHead
    <2>6. Balances(b, num_free, full, num_free)
      BY <1>2, <2>2 DEF Balances
    <2> QED
      BY <1>5, <2>3, <2>4, <2>5, <2>6, StepKeeps DEF b
  <1>7. CASE ~fits
    <2> DEFINE m == [Fresh EXCEPT !.data = d]
               free == num_free - 1
    <2>1. m = [off |-> 0, data |-> d, hdr |-> 0] /\ m \in Buffer
      BY <1>1, <1>3, FreshBuffer
    <2>2. m.data = d /\ m.hdr = 0
      BY <2>1
    <2>3. Holds(h, more, len, free) /\ 1 <= num_free /\ more = Append(b, m)
      BY <1>1, <1>7
    <2> HIDE DEF m
    <2>4. more \in Chains /\ Size(more) = Size(b) + Len(d)
      BY <1>2, <2>1, <2>2, <2>3, FlatAppend
    <2>5. Len(more) = Len(b) + 1 /\ more[1] = b[1]
      BY <1>2, <2>1, <2>3 DEF Chains
    <2> HIDE DEF more, len
    <2>6. IsPkthdr(more) = IsPkthdr(b)
      BY <1>1, <1>2, <2>4, <2>5, SameHead
    <2>7. Balances(b, num_free, more, free)
      BY <1>2, <2>3, <2>4, <2>5 DEF Balances
    <2> HIDE DEF free
    <2> QED
      BY <1>5, <2>3, <2>4, <2>6, <2>7, StepKeeps DEF b
  <1> QED
    BY <1>6, <1>7

\* the chain that dpl_mbuf_dup makes
Duplicate(c) ==
    [i \in DOMAIN c |-> IF i = 1 /\ IsPkthdr(c) THEN [c[i] EXCEPT !.off = HdrLen] ELSE c[i]]

\* A buffer copied to the place behind the packet header.
LEMMA OffsetBuffer ==
    ASSUME NEW m \in Buffer, m.hdr > 0
    PROVE  /\ [m EXCEPT !.off = HdrLen] \in Buffer /\ [m EXCEPT !.off = HdrLen].data = m.data
           /\ [m EXCEPT !.off = HdrLen].hdr = m.hdr
  <1>1. m = [off |-> m.off, data |-> m.data, hdr |-> m.hdr] /\ m.hdr \in {0, HdrLen}
    BY DEF Buffer
  <1>2. [m EXCEPT !.off = HdrLen] = [off |-> HdrLen, data |-> m.data, hdr |-> m.hdr]
    BY <1>1
  <1>3. HdrLen \in Nat /\ m.data \in Seq(Bytes) /\ m.hdr = HdrLen /\ HdrLen + Len(m.data) <= BufLen
    BY <1>1, BufferFields, MbufConstants
  <1>4. [off |-> HdrLen, data |-> m.data, hdr |-> m.hdr] \in Buffer
    <2> DEFINE x == m.data
               k == m.hdr
    <2>1. HdrLen \in Nat /\ x \in Seq(Bytes) /\ k \in {0, HdrLen} /\ k <= HdrLen
          /\ HdrLen + Len(x) <= BufLen
      BY <1>1, <1>3
    <2> HIDE DEF x, k
    <2>2. [off |-> HdrLen, data |-> x, hdr |-> k] \in Buffer
      BY <2>1, IsBuffer
    <2> QED
      BY <2>2 DEF x, k
  <1> QED
    BY <1>2, <1>4

\* dpl_mbuf_dup copies every buffer and every byte.
LEMMA DuplicateFlat ==
    ASSUME NEW c \in Chains, c # <<>>
    PROVE  /\ Duplicate(c) \in Chains /\ Len(Duplicate(c)) = Len(c)
           /\ Flat(Duplicate(c)) = Flat(c) /\ Size(Duplicate(c)) = Size(c)
           /\ IsPkthdr(Duplicate(c)) = IsPkthdr(c)
  <1> DEFINE d == Duplicate(c)
  <1>1. Len(c) \in Nat \ {0} /\ \A i \in 1..Len(c) : c[i] \in Buffer
    BY DEF Chains
  <1>2. \A i \in 1..Len(c) : /\ d[i] \in Buffer /\ d[i].data = c[i].data
                             /\ d[i].hdr = c[i].hdr
    <2> SUFFICES ASSUME NEW i \in 1..Len(c)
                 PROVE  d[i] \in Buffer /\ d[i].data = c[i].data /\ d[i].hdr = c[i].hdr
      OBVIOUS
    <2>1. CASE i = 1 /\ IsPkthdr(c)
      <3>1. d[i] = [c[i] EXCEPT !.off = HdrLen]
        BY <1>1, <2>1 DEF Duplicate
      <3>2. c[i].hdr > 0
        BY <2>1 DEF IsPkthdr
      <3> QED
        BY <1>1, <3>1, <3>2, OffsetBuffer
    <2>2. CASE ~(i = 1 /\ IsPkthdr(c))
      BY <1>1, <2>2 DEF Duplicate
    <2> QED
      BY <2>1, <2>2
  <1>3. d \in Chains /\ Len(d) = Len(c)
    <2>1. d \in [1..Len(c) -> Buffer]
      <3>1. d = [i \in 1..Len(c) |-> d[i]]
        <4>1. DOMAIN c = 1..Len(c)
          BY DEF Chains
        <4> QED
          BY <4>1 DEF Duplicate
      <3> HIDE DEF d
      <3>2. [i \in 1..Len(c) |-> d[i]] \in [1..Len(c) -> Buffer]
        BY <1>2
      <3> QED
        BY <3>1, <3>2
    <2> HIDE DEF d
    <2> QED
      BY <1>1, <2>1 DEF Chains
  <1> HIDE DEF d
  <1>4. Flat(d) = Flat(c) /\ Size(d) = Size(c)
    BY <1>2, <1>3, FlatSame
  <1>5. IsPkthdr(d) = IsPkthdr(c)
    <2>1. d[1].hdr = c[1].hdr
      BY <1>1, <1>2
    <2> QED
      BY <1>1, <1>3, <2>1, SameHead
  <1> QED
    BY <1>3, <1>4, <1>5 DEF d

\* dpl_mbuf_dup keeps the invariant, when it gives up and frees the copy too.
LEMMA DupKeeps ==
    ASSUME MbufInv, NEW h \in Handles \ short, NEW src \in Handles \ short, Dup(h, src)
    PROVE  MbufInv'
  <1> DEFINE b == chain[src]
             c == Duplicate(b)
             free == num_free - Len(b)
             len == omp_len[src]
  <1>1. /\ chain[h] = <<>> /\ b # <<>> /\ Len(b) <= num_free
        /\ chain' = [chain EXCEPT ![h] = c] /\ omp_len' = [omp_len EXCEPT ![h] = len]
        /\ num_free' = free /\ short' = short
    BY DEF Dup, Duplicate, Available
  <1>2. /\ b \in Chains /\ num_free \in Nat /\ len \in Int /\ Len(b) \in Nat
        /\ (IsPkthdr(b) => len = Size(b))
    BY MbufInvIs
  <1> HIDE DEF b
  <1>3. c \in Chains /\ Len(c) = Len(b) /\ Size(c) = Size(b) /\ IsPkthdr(c) = IsPkthdr(b)
    BY <1>1, <1>2, DuplicateFlat
  <1> HIDE DEF c, len
  <1>4. free \in Nat /\ Len(c) + free = Len(chain[h]) + num_free
    BY <1>1, <1>2, <1>3
  <1> HIDE DEF free
  <1>5. Balanced(chain, num_free) /\ omp_len \in [Handles -> Int]
        /\ \A k \in Handles : IsPkthdr(chain[k]) /\ k \notin short => omp_len[k] = Size(chain[k])
    BY DEF MbufInv, ChainsInv
  <1>6. Balanced(chain', num_free')
    BY <1>1, <1>3, <1>4, <1>5, OneChanges
  <1>7. omp_len' \in [Handles -> Int]
    BY <1>1, <1>2, <1>5
  <1>8. \A k \in Handles : IsPkthdr(chain'[k]) /\ k \notin short' => omp_len'[k] = Size(chain'[k])
    <2> SUFFICES ASSUME NEW k \in Handles, IsPkthdr(chain'[k]), k \notin short'
                 PROVE  omp_len'[k] = Size(chain'[k])
      OBVIOUS
    <2>1. CASE k = h
      <3>1. chain'[k] = c /\ omp_len'[k] = len
        BY <1>1, <1>5, <2>1 DEF Balanced
      <3> QED
        BY <1>2, <1>3, <3>1
    <2>2. CASE k # h
      <3>1. chain'[k] = chain[k] /\ omp_len'[k] = omp_len[k]
        BY <1>1, <1>5, <2>2 DEF Balanced
      <3> QED
        BY <1>1, <1>5, <3>1
    <2> QED
      BY <2>1, <2>2
  <1> QED
    BY <1>6, <1>7, <1>8 DEF MbufInv, ChainsInv

\* A chain loses its packet header to the one it is put behind.
LEMMA HeaderDropped ==
    ASSUME NEW c \in Chains, c # <<>>, NEW e, e = [c EXCEPT ![1].hdr = 0]
    PROVE  e \in Chains /\ Len(e) = Len(c) /\ Flat(e) = Flat(c) /\ Size(e) = Size(c)
  <1> DEFINE m == [c[1] EXCEPT !.hdr = 0]
  <1>1. Len(c) \in Nat \ {0} /\ (\A i \in 1..Len(c) : c[i] \in Buffer) /\ c \in [1..Len(c) -> Buffer]
    BY DEF Chains
  <1>2. m \in Buffer /\ m.data = c[1].data
    <2> DEFINE b == c[1]
    <2>1. b \in Buffer
      BY <1>1
    <2> HIDE DEF b
    <2>2. [b EXCEPT !.hdr = 0] = [off |-> b.off, data |-> b.data, hdr |-> 0]
      BY <2>1, BufferExcept
    <2>3. [b EXCEPT !.hdr = 0] \in Buffer
      <3> DEFINE o == b.off
                 d == b.data
      <3>1. o \in Nat /\ d \in Seq(Bytes) /\ o + Len(d) <= BufLen /\ 0 <= o /\ 0 \in {0, HdrLen}
        BY <2>1, BufferFields
      <3> HIDE DEF o, d
      <3>2. [off |-> o, data |-> d, hdr |-> 0] \in Buffer
        BY <3>1, IsBuffer
      <3> QED
        BY <2>2, <3>2 DEF o, d
    <2>4. [b EXCEPT !.hdr = 0].data = b.data
      BY <2>2
    <2> QED
      BY <2>3, <2>4 DEF b
  <1>3. e = [c EXCEPT ![1] = m]
    OBVIOUS
  <1> HIDE DEF m
  <1>4. e \in Chains /\ Len(e) = Len(c) /\ \A i \in 1..Len(c) : e[i] = IF i = 1 THEN m ELSE c[i]
    BY <1>1, <1>2, <1>3 DEF Chains
  <1>5. \A i \in 1..Len(e) : e[i].data = c[i].data
    BY <1>2, <1>4
  <1> QED
    BY <1>4, <1>5, FlatSame

\* the chain and the length in its header that dpl_mbuf_concat makes
Joined(b, s) == b \o [s EXCEPT ![1].hdr = 0]
JoinedLen(b, s, nb, ns) ==
    IF ~IsPkthdr(b) THEN 0 ELSE (nb + IF IsPkthdr(s) THEN ns ELSE Size(s)) % 65536

\* the other chain first: the assignments of Concat, with the old values of both
LEMMA ConcatIs ==
    ASSUME NEW h \in Handles \ short, NEW g \in Handles \ short, MbufInv, Concat(h, g)
    PROVE  /\ h # g /\ chain[h] # <<>> /\ chain[g] # <<>>
           /\ chain' = [chain EXCEPT ![g] = <<>>, ![h] = Joined(chain[h], chain[g])]
           /\ omp_len' = [omp_len EXCEPT ![g] = 0,
                     ![h] = JoinedLen(chain[h], chain[g], omp_len[h], omp_len[g])]
           /\ num_free' = num_free /\ short' = short
  <1> DEFINE t == [chain[g] EXCEPT ![1].hdr = 0]
             n == IF IsPkthdr(chain[g]) THEN omp_len[g] ELSE Size(chain[g])
  <1>1. chain \in [Handles -> Chains] /\ omp_len \in [Handles -> Int] /\ h \in Handles /\ g \in Handles
    BY DEF MbufInv, ChainsInv, Balanced
  <1>2. /\ h # g /\ chain[h] # <<>> /\ chain[g] # <<>> /\ num_free' = num_free
        /\ chain' = [chain EXCEPT ![g] = <<>>, ![h] = @ \o t]
        /\ omp_len' = [omp_len EXCEPT ![g] = 0,
                          ![h] = IF ~IsPkthdr(chain[h]) THEN 0 ELSE (@ + n) % 65536]
        /\ short' = (IF g \in short THEN short \cup {h} ELSE short) \ {g}
    BY DEF Concat
  <1> HIDE DEF t, n
  <1>3. short' = short
    BY <1>2
  <1>4. chain' = [chain EXCEPT ![g] = <<>>, ![h] = chain[h] \o t]
    <2>1. [chain EXCEPT ![g] = <<>>][h] = chain[h]
      BY <1>1, <1>2
    <2> QED
      BY <1>2, <2>1
  <1>5. omp_len' = [omp_len EXCEPT ![g] = 0,
                       ![h] = IF ~IsPkthdr(chain[h]) THEN 0 ELSE (omp_len[h] + n) % 65536]
    <2>1. [omp_len EXCEPT ![g] = 0][h] = omp_len[h]
      BY <1>1, <1>2
    <2> QED
      BY <1>2, <2>1
  <1> QED
    BY <1>2, <1>3, <1>4, <1>5 DEF t, n, Joined, JoinedLen

\* dpl_mbuf_concat keeps the invariant: the header of the second is dropped and
\* its bytes are added to the first's length.
LEMMA ConcatKeeps ==
    ASSUME MbufInv, NEW h \in Handles \ short, NEW g \in Handles \ short, Concat(h, g)
    PROVE  MbufInv'
  <1> DEFINE b == chain[h]
             s == chain[g]
             t == [s EXCEPT ![1].hdr = 0]
             c == Joined(b, s)
             len == JoinedLen(b, s, omp_len[h], omp_len[g])
  <1>1. /\ h # g /\ b # <<>> /\ s # <<>>
        /\ chain' = [chain EXCEPT ![g] = <<>>, ![h] = c]
        /\ omp_len' = [omp_len EXCEPT ![g] = 0, ![h] = len]
        /\ num_free' = num_free /\ short' = short
    BY ConcatIs
  <1>2. /\ b \in Chains /\ num_free \in Nat /\ omp_len[h] \in Int /\ Len(b) \in Nat
        /\ (IsPkthdr(b) => omp_len[h] = Size(b))
        /\ s \in Chains /\ omp_len[g] \in Int /\ Len(s) \in Nat
        /\ (IsPkthdr(s) => omp_len[g] = Size(s))
    BY MbufInvIs
  <1> HIDE DEF b, s
  <1>3. t \in Chains /\ Len(t) = Len(s) /\ Flat(t) = Flat(s) /\ Size(t) = Size(s)
    BY <1>1, <1>2, HeaderDropped
  <1> HIDE DEF t
  <1>4. c \in Chains /\ Size(c) = Size(b) + Size(s) /\ Len(c) = Len(b) + Len(s) /\ c[1] = b[1]
    <2>a. c = b \o t
      BY DEF Joined, t
    <2>1. c \in Chains /\ Size(c) = Size(b) + Size(t)
      BY <1>2, <1>3, <2>a, FlatConcat
    <2>2. Len(c) = Len(b) + Len(t) /\ c[1] = b[1]
      <3>1. b \in Seq(Buffer) /\ t \in Seq(Buffer) /\ b # <<>>
        BY <1>1, <1>2, <1>3 DEF Chains
      <3>2. Len(b \o t) = Len(b) + Len(t) /\ (b \o t)[1] = b[1]
        BY ONLY <3>1
      <3> HIDE DEF c
      <3> QED
        BY <2>a, <3>2
    <2> QED
      BY <1>3, <2>1, <2>2
  <1> HIDE DEF c
  <1>5. IsPkthdr(c) = IsPkthdr(b)
    <2>1. Len(c) \in Nat \ {0}
      BY <1>1, <1>2, <1>4 DEF Chains
    <2> QED
      BY <1>1, <1>2, <1>4, <2>1, SameHead
  <1>6. /\ Balanced(chain, num_free) /\ omp_len \in [Handles -> Int] /\ <<>> \in Chains
        /\ \A k \in Handles : IsPkthdr(chain[k]) /\ k \notin short => omp_len[k] = Size(chain[k])
    BY FlatNone DEF MbufInv, ChainsInv
  <1>7. Balanced(chain', num_free') /\ Len(c) <= Blocks
    <2>1. Len(c) + Len(<<>>) + num_free = Len(chain[h]) + Len(chain[g]) + num_free
      BY <1>2, <1>4 DEF b, s
    <2> DEFINE e == <<>>
    <2>2. e \in Chains /\ Len(c) + Len(e) + num_free = Len(chain[h]) + Len(chain[g]) + num_free
      BY <1>6, <2>1
    <2>3. chain' = [chain EXCEPT ![g] = e, ![h] = c]
      BY <1>1
    <2> HIDE DEF e
    <2>4. /\ Balanced(chain, num_free) /\ h \in Handles /\ g \in Handles /\ h # g
          /\ c \in Chains /\ num_free \in Nat
      BY <1>1, <1>2, <1>4, <1>6
    <2>5. Balanced(chain', num_free) /\ Len(c) <= Blocks
      BY ONLY <2>2, <2>3, <2>4, TwoChange
    <2> QED
      BY <1>1, <2>5
  <1>8. len \in Int /\ (IsPkthdr(b) => len = Size(c))
    <2>1. CASE IsPkthdr(b)
      <3>1. omp_len[h] + (IF IsPkthdr(s) THEN omp_len[g] ELSE Size(s)) = Size(c)
        BY <1>2, <1>4, <2>1
      <3>2. len = Size(c) % 65536
        BY <2>1, <3>1 DEF JoinedLen
      <3>3. Size(c) % 65536 = Size(c) /\ Size(c) \in Nat
        BY <1>4, <1>7, FewBuffers
      <3> QED
        BY <3>2, <3>3
    <2>2. CASE ~IsPkthdr(b)
      BY <2>2 DEF JoinedLen
    <2> QED
      BY <2>1, <2>2
  <1> HIDE DEF len
  <1>9. omp_len' \in [Handles -> Int]
    BY <1>1, <1>6, <1>8
  <1>10. \A k \in Handles : IsPkthdr(chain'[k]) /\ k \notin short' => omp_len'[k] = Size(chain'[k])
    <2> SUFFICES ASSUME NEW k \in Handles, IsPkthdr(chain'[k]), k \notin short'
                 PROVE  omp_len'[k] = Size(chain'[k])
      OBVIOUS
    <2>1. CASE k = h
      <3>1. chain'[k] = c /\ omp_len'[k] = len
        BY <1>1, <1>6, <2>1 DEF Balanced
      <3> QED
        BY <1>5, <1>8, <3>1
    <2>2. CASE k = g
      <3>1. chain'[k] = <<>>
        BY <1>1, <1>6, <2>2 DEF Balanced
      <3> QED
        BY <3>1 DEF IsPkthdr
    <2>3. CASE k # h /\ k # g
      <3>1. chain'[k] = chain[k] /\ omp_len'[k] = omp_len[k]
        BY <1>1, <1>6, <2>3 DEF Balanced
      <3> QED
        BY <1>1, <1>6, <3>1
    <2> QED
      BY <2>1, <2>2, <2>3
  <1> QED
    BY <1>7, <1>9, <1>10 DEF MbufInv, ChainsInv

\* what dpl_mbuf_copyinto has to append, and the length it leaves in the header
Beyond(c, off, d) == SubSeq(d, Size(c) - off + 1, Len(d))
CopiedLen(n, c, off, left, r) ==
    LET done == n + IF Len(c) = 1 THEN Len(left) - r.left ELSE 0
    IN  IF left = <<>> \/ r.left > 0 THEN done ELSE Greater(done, off + Len(left))

\* The header tells at most the bytes that are there.
CopyKeeps(b, off, d, f, n) ==
    LET c == Overwritten(b, off, d)
        left == Beyond(c, off, d)
        r == Appended(c, left, f)
    IN  /\ Balances(b, f, r.c, r.free) /\ Size(r.c) \in Nat
        /\ IsPkthdr(c) = IsPkthdr(b) /\ IsPkthdr(r.c) = IsPkthdr(b)
        /\ CopiedLen(n, c, off, left, r) \in Int
        /\ IsPkthdr(b) => CopiedLen(n, c, off, left, r) <= Size(r.c)

\* dpl_mbuf_copyinto overwrites, then appends what lies beyond the chain's end.
LEMMA CopiedKeeps ==
    ASSUME NEW b \in Chains, b # <<>>, NEW off \in Nat, off <= Size(b), NEW d \in Seq(Bytes),
           NEW f \in Nat, NEW n \in Int, IsPkthdr(b) => n = Size(b)
    PROVE  CopyKeeps(b, off, d, f, n)
  <1> DEFINE c == Overwritten(b, off, d)
             left == Beyond(c, off, d)
             r == Appended(c, left, f)
  <1>0. c = Overwritten(b, off, d) /\ left = Beyond(c, off, d) /\ r = Appended(c, left, f)
    OBVIOUS
  <1> HIDE DEF c, left, r
  <1>1. /\ c \in Chains /\ Len(c) = Len(b) /\ Size(c) = Size(b) /\ Size(b) \in Nat
        /\ \A i \in 1..Len(b) : c[i].hdr = b[i].hdr
    BY <1>0, OverwrittenFlat, FlatType
  <1>2. Len(b) \in Nat \ {0} /\ c # <<>> /\ IsPkthdr(c) = IsPkthdr(b)
    <2>1. Len(b) \in Nat \ {0}
      BY DEF Chains
    <2>2. c[1].hdr = b[1].hdr
      BY <1>1, <2>1
    <2> QED
      BY <1>1, <2>1, <2>2, SameHead
  <1>3. left \in Seq(Bytes) /\ Len(left) \in Nat
    <2> DEFINE m == Size(c) - off + 1
    <2>1. m \in Nat \ {0} /\ Len(d) \in Int /\ Len(d) <= Len(d)
      BY <1>1
    <2>2. left = SubSeq(d, m, Len(d))
      BY <1>0 DEF Beyond
    <2> HIDE DEF m
    <2>3. left \in Seq(Bytes)
      BY <2>1, <2>2, SubSeqIs
    <2> QED
      BY <2>3
  <1>4. /\ Balances(c, f, r.c, r.free) /\ r.left \in Nat
        /\ IsPkthdr(r.c) = IsPkthdr(c) /\ Size(r.c) = Size(c) + Len(left) - r.left
    BY ONLY <1>1, <1>2, <1>3, AppendedKeeps, f \in Nat, <1>0
  <1>5. Balances(b, f, r.c, r.free)
    BY <1>1, <1>4 DEF Balances
  <1>6. r.left <= Len(left) /\ Size(r.c) \in Nat
    <2>1. r.left \in 0..Len(left)
      BY <1>0, <1>1, <1>2, <1>3, AppendedFlat
    <2> DEFINE k == r.left
               l == Len(left)
               s == Size(r.c)
    <2>2. k \in 0..l /\ l \in Nat /\ s = Size(c) + l - k /\ Size(c) \in Nat
      BY <1>1, <1>3, <1>4, <2>1
    <2> HIDE DEF k, l, s
    <2>3. k <= l /\ s \in Nat
      BY ONLY <2>2
    <2> QED
      BY <2>3 DEF k, l, s
  <1>7. /\ CopiedLen(n, c, off, left, r) \in Int
        /\ IsPkthdr(b) => CopiedLen(n, c, off, left, r) <= Size(r.c)
    <2> DEFINE k == r.left
               l == Len(left)
               s == Size(r.c)
               z == Size(b)
               hd == IsPkthdr(b)
               one == Len(c) = 1
               none == left = <<>>
               len == CopiedLen(n, c, off, left, r)
    <2>1. len = IF none \/ k > 0 THEN n + IF one THEN l - k ELSE 0
                ELSE Greater(n + IF one THEN l - k ELSE 0, off + l)
      BY DEF CopiedLen
    <2>2. k \in Nat /\ l \in Nat /\ k <= l /\ s = z + l - k /\ z \in Nat /\ off \in Nat /\ off <= z
          /\ n \in Int /\ (hd => n = z)
      BY <1>1, <1>3, <1>4, <1>6
    <2> HIDE DEF k, l, s, z, hd, one, none, len
    <2>3. len \in Int /\ (hd => len <= s)
      BY ONLY <2>1, <2>2 DEF Greater
    <2> QED
      BY <2>3 DEF len, hd, s
  <1> QED
    BY <1>2, <1>4, <1>5, <1>6, <1>7 DEF CopyKeeps, c, left, r

\* dpl_mbuf_copyinto keeps the invariant.
LEMMA CopyIntoKeeps ==
    ASSUME MbufInv, NEW h \in Handles \ short, NEW off \in Nat, NEW d \in Data(MaxLen),
           CopyInto(h, off, d)
    PROVE  MbufInv'
  <1> DEFINE b == chain[h]
             c == Overwritten(b, off, d)
             left == Beyond(c, off, d)
             r == Appended(c, left, num_free)
             e == r.c
             free == r.free
             len == CopiedLen(omp_len[h], c, off, left, r)
             n == IF IsPkthdr(c) THEN len % 65536 ELSE 0
  <1>1. /\ b # <<>> /\ Off(b, off) # 0
        /\ chain' = [chain EXCEPT ![h] = e] /\ num_free' = free
        /\ omp_len' = [omp_len EXCEPT ![h] = n]
        /\ short' = IF IsPkthdr(c) /\ len < Size(e) THEN short \cup {h} ELSE short
    BY DEF CopyInto, Beyond, CopiedLen
  <1>2. /\ b \in Chains /\ num_free \in Nat /\ omp_len[h] \in Int
        /\ (IsPkthdr(b) => omp_len[h] = Size(b))
    BY MbufInvIs
  <1>3. d \in Seq(Bytes)
    BY DataType, MbufConstants
  <1> HIDE DEF b
  <1>4. off <= Size(b)
    <2>1. (Off(b, off) = 0) = (off > Size(b))
      BY <1>1, <1>2, OffIs
    <2>2. Size(b) \in Nat
      BY <1>2, FlatType
    <2> QED
      BY <1>1, <2>1, <2>2
  <1>5. /\ Balances(b, num_free, r.c, r.free) /\ Size(r.c) \in Nat
        /\ IsPkthdr(c) = IsPkthdr(b) /\ IsPkthdr(r.c) = IsPkthdr(b)
        /\ CopiedLen(omp_len[h], c, off, left, r) \in Int
        /\ IsPkthdr(b) => CopiedLen(omp_len[h], c, off, left, r) <= Size(r.c)
    <2> DEFINE nb == omp_len[h]
    <2>1. nb \in Int /\ (IsPkthdr(b) => nb = Size(b)) /\ b \in Chains /\ num_free \in Nat
          /\ off \in Nat
      BY <1>2
    <2> HIDE DEF nb
    <2>2. CopyKeeps(b, off, d, num_free, nb)
      BY ONLY <1>1, <1>3, <1>4, <2>1, CopiedKeeps
    <2> QED
      BY <2>2 DEF CopyKeeps, nb
  <1> HIDE DEF c, left, r
  <1>6. /\ e \in Chains /\ free \in Nat /\ Len(e) + free = Len(chain[h]) + num_free
        /\ Size(e) \in Nat /\ IsPkthdr(c) = IsPkthdr(e)
        /\ len \in Int /\ (IsPkthdr(e) => len <= Size(e))
    BY <1>5 DEF Balances, b
  <1> HIDE DEF e, free, len
  <1>7. /\ Balanced(chain, num_free) /\ omp_len \in [Handles -> Int]
        /\ \A k \in Handles : IsPkthdr(chain[k]) /\ k \notin short => omp_len[k] = Size(chain[k])
    BY DEF MbufInv, ChainsInv
  <1>8. Balanced(chain', num_free') /\ Len(e) <= Blocks
    <2>1. /\ Balanced(chain, num_free) /\ h \in Handles /\ e \in Chains /\ free \in Nat
          /\ Len(e) + free = Len(chain[h]) + num_free
      BY <1>6, <1>7
    <2>2. chain' = [chain EXCEPT ![h] = e]
      BY <1>1
    <2>3. Balanced(chain', free) /\ Len(e) <= Blocks
      BY ONLY <2>1, <2>2, OneChanges
    <2> QED
      BY <1>1, <2>3
  <1>9. n \in Int
    <2>1. len % 65536 \in Int
      BY <1>6
    <2> QED
      BY <2>1
  <1>10. IsPkthdr(e) /\ h \notin short' => n = Size(e)
    <2> SUFFICES ASSUME IsPkthdr(e), h \notin short' PROVE n = Size(e)
      OBVIOUS
    <2>1. ~(len < Size(e))
      BY <1>1, <1>6
    <2>2. len = Size(e)
      BY <1>6, <2>1
    <2>3. Size(e) % 65536 = Size(e)
      BY <1>6, <1>8, FewBuffers
    <2> QED
      BY <1>6, <2>2, <2>3
  <1> HIDE DEF n
  <1>11. omp_len' \in [Handles -> Int]
    BY <1>1, <1>7, <1>9
  <1>12. \A k \in Handles : IsPkthdr(chain'[k]) /\ k \notin short' => omp_len'[k] = Size(chain'[k])
    <2> SUFFICES ASSUME NEW k \in Handles, IsPkthdr(chain'[k]), k \notin short'
                 PROVE  omp_len'[k] = Size(chain'[k])
      OBVIOUS
    <2>1. CASE k = h
      <3>1. chain'[k] = e /\ omp_len'[k] = n
        BY <1>1, <1>7, <2>1 DEF Balanced
      <3> QED
        BY <1>10, <2>1, <3>1
    <2>2. CASE k # h
      <3>1. chain'[k] = chain[k] /\ omp_len'[k] = omp_len[k]
        BY <1>1, <1>7, <2>2 DEF Balanced
      <3>2. k \notin short
        BY <1>1
      <3> QED
        BY <1>7, <3>1, <3>2
    <2> QED
      BY <2>1, <2>2
  <1> QED
    BY <1>8, <1>11, <1>12 DEF MbufInv, ChainsInv

\* mem_split_frag, when the packet fits or when a fragment is cut off it
WholeFrag(h, g) ==
    /\ h # g /\ chain[g] = <<>>
    /\ chain' = [chain EXCEPT ![g] = chain[h], ![h] = <<>>]
    /\ omp_len' = [omp_len EXCEPT ![g] = omp_len[h], ![h] = 0]
    /\ num_free' = num_free /\ short' = short

FirstFrag(h, g, max, r, c) ==
    /\ h # g /\ IsPkthdr(chain[h]) /\ chain[g] = <<>> /\ max < omp_len[h] /\ 1 <= num_free
    /\ r = AppendedFrom(Blank(HdrLen, HdrLen), chain[h], 0, max, num_free - 1)
    /\ c = TrimmedFront(TrimmedHead(chain[h], max))
    /\ Size(r.c) = max
    /\ chain' = [chain EXCEPT ![g] = r.c, ![h] = c]
    /\ omp_len' = [omp_len EXCEPT ![g] = max, ![h] = omp_len[h] - max]
    /\ num_free' = r.free + Len(chain[h]) - Len(c) /\ short' = short

\* The two ways mem_split_frag returns: the whole chain, or its first part.
LEMMA SplitFragIs ==
    ASSUME MbufInv, NEW h \in Handles \ short, NEW g \in Handles \ short, NEW max \in Nat,
           SplitFrag(h, g, max)
    PROVE  WholeFrag(h, g) \/ \E r, c : FirstFrag(h, g, max, r, c)
  <1>1. chain \in [Handles -> Chains] /\ omp_len \in [Handles -> Int] /\ h \in Handles /\ g \in Handles
        /\ omp_len[h] \in Int
    BY DEF MbufInv, ChainsInv, Balanced
  <1>2. h # g /\ IsPkthdr(chain[h]) /\ chain[g] = <<>>
    BY DEF SplitFrag
  <1>3. CASE omp_len[h] <= max
    <2>1. /\ chain' = [chain EXCEPT ![g] = chain[h], ![h] = <<>>]
          /\ omp_len' = [omp_len EXCEPT ![g] = omp_len[h], ![h] = 0]
          /\ short' = IF h \in short THEN (short \ {h}) \cup {g} ELSE short
          /\ num_free' = num_free
      BY <1>3 DEF SplitFrag
    <2> QED
      BY <1>2, <2>1 DEF WholeFrag
  <1>4. CASE ~(omp_len[h] <= max)
    <2> DEFINE r == AppendedFrom(Blank(HdrLen, HdrLen), chain[h], 0, max, num_free - 1)
               c == TrimmedFront(TrimmedHead(chain[h], max))
    <2>1. <<[Fresh EXCEPT !.off = HdrLen, !.hdr = HdrLen]>> = Blank(HdrLen, HdrLen)
      BY FreshHeader DEF Blank
    <2>2. /\ 1 <= num_free /\ Size(r.c) = max
          /\ chain' = [chain EXCEPT ![g] = r.c, ![h] = c]
          /\ omp_len' = [omp_len EXCEPT ![g] = max, ![h] = @ - max]
          /\ num_free' = r.free + Len(chain[h]) - Len(c) /\ short' = short
      BY <1>4, <2>1 DEF SplitFrag, Available
    <2>3. omp_len' = [omp_len EXCEPT ![g] = max, ![h] = omp_len[h] - max]
      <3>1. [omp_len EXCEPT ![g] = max][h] = omp_len[h]
        BY <1>1, <1>2
      <3> QED
        BY <2>2, <3>1
    <2>4. max < omp_len[h]
      BY <1>1, <1>4
    <2>5. FirstFrag(h, g, max, r, c)
      BY <1>2, <2>2, <2>3, <2>4 DEF FirstFrag
    <2> QED
      BY <2>5
  <1> QED
    BY <1>3, <1>4

\* Two chains change, whose headers tell their lengths.
LEMMA TwoKeep ==
    ASSUME MbufInv, NEW h \in Handles, NEW g \in Handles, h # g,
           NEW c \in Chains, NEW e \in Chains, NEW free \in Nat, NEW m \in Int, NEW n \in Int,
           Len(c) + Len(e) + free = Len(chain[h]) + Len(chain[g]) + num_free,
           chain' = [chain EXCEPT ![g] = e, ![h] = c], num_free' = free, short' = short,
           omp_len' = [omp_len EXCEPT ![g] = n, ![h] = m],
           IsPkthdr(c) => m = Size(c), IsPkthdr(e) => n = Size(e)
    PROVE  MbufInv'
  <1>1. /\ Balanced(chain, num_free) /\ omp_len \in [Handles -> Int]
        /\ \A k \in Handles : IsPkthdr(chain[k]) /\ k \notin short => omp_len[k] = Size(chain[k])
    BY DEF MbufInv, ChainsInv
  <1>2. Balanced(chain', num_free')
    <2>1. /\ Balanced(chain, num_free) /\ h \in Handles /\ g \in Handles /\ h # g
          /\ c \in Chains /\ e \in Chains /\ free \in Nat
          /\ Len(c) + Len(e) + free = Len(chain[h]) + Len(chain[g]) + num_free
      BY <1>1
    <2>2. chain' = [chain EXCEPT ![g] = e, ![h] = c]
      OBVIOUS
    <2>3. Balanced(chain', free)
      BY ONLY <2>1, <2>2, TwoChange
    <2> QED
      BY <2>3
  <1>3. omp_len' \in [Handles -> Int]
    BY <1>1
  <1>4. \A k \in Handles : IsPkthdr(chain'[k]) /\ k \notin short' => omp_len'[k] = Size(chain'[k])
    <2> SUFFICES ASSUME NEW k \in Handles, IsPkthdr(chain'[k]), k \notin short'
                 PROVE  omp_len'[k] = Size(chain'[k])
      OBVIOUS
    <2>1. CASE k = h
      <3>1. chain'[k] = c /\ omp_len'[k] = m
        BY <1>1, <2>1 DEF Balanced
      <3> QED
        BY <3>1
    <2>2. CASE k = g
      <3>1. chain'[k] = e /\ omp_len'[k] = n
        BY <1>1, <2>2 DEF Balanced
      <3> QED
        BY <3>1
    <2>3. CASE k # h /\ k # g
      <3>1. chain'[k] = chain[k] /\ omp_len'[k] = omp_len[k]
        BY <1>1, <2>3 DEF Balanced
      <3> QED
        BY <1>1, <3>1
    <2> QED
      BY <2>1, <2>2, <2>3
  <1> QED
    BY <1>2, <1>3, <1>4 DEF MbufInv, ChainsInv

\* Returning the whole chain keeps the invariant.
LEMMA WholeFragKeeps ==
    ASSUME MbufInv, NEW h \in Handles \ short, NEW g \in Handles \ short, WholeFrag(h, g)
    PROVE  MbufInv'
  <1> DEFINE c == <<>>
             e == chain[h]
             n == omp_len[h]
             m == 0
  <1>1. /\ h # g /\ chain[g] = <<>> /\ chain' = [chain EXCEPT ![g] = e, ![h] = c]
        /\ omp_len' = [omp_len EXCEPT ![g] = n, ![h] = m]
        /\ num_free' = num_free /\ short' = short
    BY DEF WholeFrag
  <1>2. e \in Chains /\ num_free \in Nat /\ n \in Int /\ (IsPkthdr(e) => n = Size(e))
        /\ Len(e) \in Nat
    BY MbufInvIs
  <1>3. c \in Chains /\ ~IsPkthdr(c) /\ m \in Int
    BY FlatNone DEF IsPkthdr
  <1>4. Len(c) + Len(e) + num_free = Len(chain[h]) + Len(chain[g]) + num_free
    BY <1>1, <1>2
  <1> HIDE DEF c, e, m, n
  <1> QED
    BY <1>1, <1>2, <1>3, <1>4, TwoKeep

\* Cutting a fragment off the front keeps the invariant.
LEMMA FirstFragKeeps ==
    ASSUME MbufInv, NEW h \in Handles \ short, NEW g \in Handles \ short, NEW max \in Nat,
           NEW r, NEW c, FirstFrag(h, g, max, r, c)
    PROVE  MbufInv'
  <1> DEFINE b == chain[h]
             e == r.c
             m == omp_len[h] - max
             t == TrimmedHead(b, max)
             free == r.free + Len(b) - Len(c)
             f == num_free - 1
             k == Blank(HdrLen, HdrLen)
  <1>1. /\ h # g /\ IsPkthdr(b) /\ chain[g] = <<>> /\ max < omp_len[h] /\ 1 <= num_free
        /\ r = AppendedFrom(k, b, 0, max, f)
        /\ c = TrimmedFront(t) /\ Size(e) = max
        /\ chain' = [chain EXCEPT ![g] = e, ![h] = c]
        /\ omp_len' = [omp_len EXCEPT ![g] = max, ![h] = m]
        /\ num_free' = free /\ short' = short
    BY DEF FirstFrag
  <1>2. b \in Chains /\ num_free \in Nat /\ omp_len[h] \in Int /\ Len(b) \in Nat
        /\ omp_len[h] = Size(b) /\ f \in Nat
    BY <1>1, MbufInvIs
  <1>3. b # <<>>
    BY <1>1 DEF IsPkthdr
  <1>4. k \in Chains /\ k # <<>> /\ Len(k) = 1
    BY MbufConstants, OneBuffer
  <1> HIDE DEF b, f, k
  <1>5. Balances(k, f, r.c, r.free)
    <2>1. 0 \in Nat /\ max \in Nat
      OBVIOUS
    <2>2. FromKeeps(k, b, 0, max, f)
      BY ONLY <1>2, <1>3, <1>4, <2>1, AppendedFromKeeps
    <2> QED
      BY <1>1, <2>2 DEF FromKeeps
  <1>6. t \in Chains /\ Len(t) = Len(b) /\ Flat(t) = SubSeq(Flat(b), max + 1, Size(b))
    BY <1>2, TrimmedHeadFlat
  <1> HIDE DEF t
  <1>7. c \in Chains /\ Len(c) \in 1..Len(t) /\ Flat(c) = Flat(t)
    <2>1. t # <<>>
      BY <1>2, <1>3, <1>6 DEF Chains
    <2> QED
      BY <1>1, <1>6, <2>1, TrimmedFrontFlat
  <1>8. Size(c) = Size(b) - max
    <2> DEFINE x == Flat(b)
    <2>1. x \in Seq(Bytes) /\ Size(b) = Len(x) /\ Size(c) = Len(Flat(c))
          /\ Flat(c) = SubSeq(x, max + 1, Len(x)) /\ max < Len(x) /\ max \in Nat
      BY <1>1, <1>2, <1>6, <1>7, FlatType
    <2> HIDE DEF x
    <2>2. Len(SubSeq(x, max + 1, Len(x))) = Len(x) - Lesser(max, Len(x))
      BY <2>1, PrefixSize
    <2>3. Lesser(max, Len(x)) = max
      BY <2>1 DEF Lesser
    <2> QED
      BY ONLY <2>1, <2>2, <2>3
  <1>9. m \in Int /\ m = Size(c)
    BY <1>2, <1>8
  <1>10. /\ e \in Chains /\ r.free \in Nat /\ Len(e) + r.free = num_free
    BY <1>2, <1>4, <1>5 DEF Balances, f
  <1>11. /\ free \in Nat
         /\ Len(c) + Len(e) + free = Len(chain[h]) + Len(chain[g]) + num_free
    <2>1. Len(chain[g]) = 0 /\ Len(chain[h]) = Len(b) /\ Len(e) \in Nat
      BY <1>1, <1>10 DEF b, Chains
    <2> DEFINE rf == r.free
               le == Len(e)
               lc == Len(c)
               lb == Len(b)
    <2>2. rf \in Nat /\ le \in Nat /\ lb \in Nat /\ lc \in 1..lb /\ le + rf = num_free
      BY <1>2, <1>6, <1>7, <1>10, <2>1
    <2> HIDE DEF rf, le, lc, lb
    <2>3. rf + lb - lc \in Nat /\ lc + le + (rf + lb - lc) = lb + 0 + num_free
      BY ONLY <2>2
    <2> QED
      BY <2>1, <2>3 DEF rf, le, lc, lb
  <1>12. max \in Int
    OBVIOUS
  <1> HIDE DEF e, m, free
  <1> QED
    BY <1>1, <1>7, <1>9, <1>10, <1>11, <1>12, TwoKeep

\* mem_split_frag keeps the invariant.
LEMMA SplitFragKeeps ==
    ASSUME MbufInv, NEW h \in Handles \ short, NEW g \in Handles \ short, NEW max \in Nat,
           SplitFrag(h, g, max)
    PROVE  MbufInv'
  BY SplitFragIs, WholeFragKeeps, FirstFragKeeps

-----------------------------------------------------------------------------
(* The theorems                                                            *)

\* The invariant holds while every buffer is in the pool.
LEMMA MbufInitInv == MbufInit => MbufInv
  <1> SUFFICES ASSUME MbufInit PROVE MbufInv
    OBVIOUS
  <1>1. /\ num_free = Blocks /\ chain = [h \in Handles |-> <<>>]
        /\ omp_len = [h \in Handles |-> 0]
    BY DEF MbufInit
  <1>2. chain \in [Handles -> Chains] /\ \A h \in Handles : chain[h] = <<>>
    BY <1>1, FlatNone
  <1>3. Total(Lens(chain), Handles) = 0
    <2>1. \A h \in Handles : Lens(chain)[h] = 0
      BY <1>2 DEF Lens
    <2>2. Units(Lens(chain), Handles) = {}
      BY <2>1 DEF Units
    <2> QED
      BY <2>2, FS_EmptySet DEF Total
  <1>4. Blocks \in Nat
    BY MbufConstants
  <1>5. \A h \in Handles : ~IsPkthdr(chain[h])
    BY <1>2 DEF IsPkthdr
  <1>6. omp_len \in [Handles -> Int]
    BY <1>1
  <1> QED
    BY <1>1, <1>2, <1>3, <1>4, <1>5, <1>6 DEF MbufInv, ChainsInv, Balanced

\* Every operation on mbufs keeps the invariant.
LEMMA MbufStep == MbufInv /\ [MbufNext]_mbufVars => MbufInv'
  <1> SUFFICES ASSUME MbufInv, [MbufNext]_mbufVars PROVE MbufInv'
    OBVIOUS
  <1>1. CASE MbufNext
    <2>1. Lengths \subseteq Nat /\ 1..MaxLen \subseteq Nat
      BY MbufConstants DEF Lengths
    <2>2. ASSUME NEW h \in Handles, FreeChain(h) PROVE MbufInv'
      BY <2>2, FreeChainKeeps
    <2>3. ASSUME NEW h \in Handles \ short, NEW off \in 0..BufLen, Get(h, off) PROVE MbufInv'
      BY <2>3, GetKeeps
    <2>4. ASSUME NEW h \in Handles \ short, GetPkthdr(h) PROVE MbufInv'
      BY <2>4, GetPkthdrKeeps
    <2>5. ASSUME NEW h \in Handles \ short, TrimFront(h) PROVE MbufInv'
      BY <2>5, TrimFrontKeeps
    <2>6. ASSUME NEW h \in Handles \ short, NEW d \in Data(MaxLen), AppendData(h, d)
          PROVE  MbufInv'
      BY <2>6, AppendDataKeeps
    <2>7. ASSUME NEW h \in Handles \ short, NEW d \in Data(MaxLen), Prepend(h, d) PROVE MbufInv'
      BY <2>7, PrependKeeps
    <2>8. ASSUME NEW h \in Handles \ short, NEW d \in Data(MaxLen), Extend(h, d) PROVE MbufInv'
      BY <2>8, ExtendKeeps
    <2>9. ASSUME NEW h \in Handles \ short, NEW d \in Data(MaxLen), PrependPullup(h, d)
          PROVE  MbufInv'
      BY <2>9, PrependPullupKeeps
    <2>10. ASSUME NEW h \in Handles \ short, NEW d \in Data(MaxLen), NEW off \in Lengths,
                  CopyInto(h, off, d)
           PROVE  MbufInv'
      BY <2>1, <2>10, CopyIntoKeeps
    <2>11. ASSUME NEW h \in Handles \ short, NEW n \in 1..MaxLen,
                  AdjHead(h, n) \/ AdjTail(h, n) \/ Pullup(h, n)
           PROVE  MbufInv'
      BY <2>1, <2>11, AdjHeadKeeps, AdjTailKeeps, PullupKeeps
    <2>12. ASSUME NEW h \in Handles \ short, NEW g \in Handles \ short, Dup(h, g) \/ Concat(h, g)
           PROVE  MbufInv'
      BY <2>12, DupKeeps, ConcatKeeps
    <2>13. ASSUME NEW h \in Handles \ short, NEW g \in Handles \ short,
                  NEW off \in Lengths, NEW len \in Lengths, AppendFrom(h, g, off, len)
           PROVE  MbufInv'
      BY <2>1, <2>13, AppendFromKeeps
    <2>14. ASSUME NEW h \in Handles \ short, NEW g \in Handles \ short, NEW max \in 1..MaxLen,
                  SplitFrag(h, g, max)
           PROVE  MbufInv'
      BY <2>1, <2>14, SplitFragKeeps
    <2> QED
      BY <1>1, <2>2, <2>3, <2>4, <2>5, <2>6, <2>7, <2>8, <2>9, <2>10, <2>11, <2>12, <2>13, <2>14
         DEF MbufNext
  <1>2. CASE UNCHANGED mbufVars
    BY <1>2 DEF mbufVars, MbufInv, ChainsInv, Balanced
  <1> QED
    BY <1>1, <1>2

\* Every sequence of calls of dpl_mbuf.c, those that find the pool empty halfway
\* included, keeps the invariant: free buffers and chains make up the pool, the data
\* of a buffer lies inside its block behind the header, and omp_len counts the bytes
\* of the chain, save where dpl_mbuf_copyinto left it short.
THEOREM MbufInvariant == MbufSpec => []MbufInv
  BY MbufInitInv, MbufStep, PTL DEF MbufSpec

\* On every chain of an mbuf, append and appendfrom keep the bytes in order.
LEMMA InvAppends ==
    ASSUME MbufInv, NEW c \in Chains, c # <<>>
    PROVE  AppendsInOrder(c)
  <1>0. num_free \in Nat /\ chain \in [Handles -> Chains]
    BY DEF MbufInv, ChainsInv, Balanced
  <1>1. ASSUME NEW d \in Data(MaxLen)
        PROVE  LET r == Appended(c, d, num_free)
               IN  /\ Flat(r.c) = Flat(c) \o SubSeq(d, 1, Len(d) - r.left)
                   /\ r.left = 0 \/ r.free = 0
    <2>1. d \in Seq(Bytes)
      BY <1>1, DataType, MbufConstants
    <2> QED
      BY <1>0, <2>1, AppendedFlat, ZenonT(60)
  <1>2. ASSUME NEW h \in Handles, chain[h] # <<>>, NEW off \in 0..MaxLen, NEW len \in 0..MaxLen
        PROVE  LET r == AppendedFrom(c, chain[h], off, len, num_free)
                   n == Size(r.c) - Size(c)
               IN  /\ Flat(r.c) = Flat(c) \o SubSeq(Flat(chain[h]), off + 1, off + n)
                   /\ n = Greater(0, Lesser(len, Size(chain[h]) - off)) \/ r.free = 0
    <2> DEFINE s == chain[h]
    <2>1. s \in Chains /\ s # <<>> /\ off \in Nat /\ len \in Nat
      BY <1>0, <1>2, MbufConstants
    <2> HIDE DEF s
    <2>2. FromFlat(c, s, off, len, num_free)
      BY <1>0, <2>1, AppendedFromFlat
    <2> QED
      BY <2>2 DEF s, FromFlat
  <1> QED
    BY <1>1, <1>2 DEF AppendsInOrder

\* dpl_mbuf_copydata and dpl_mbuf_off read the chain's bytes at their offsets.
LEMMA InvReads ==
    ASSUME NEW c \in Chains, c # <<>>
    PROVE  ReadsInOrder(c)
  <1>1. ASSUME NEW off \in 0..Size(c) + 1
        PROVE  LET i == Off(c, off)
               IN  /\ (i = 0) = (off > Size(c))
                   /\ i > 0 /\ off < Size(c) => c[i].data[off - Start(c, i) + 1] = Flat(c)[off + 1]
    <2>1. off \in Nat
      OBVIOUS
    <2> QED
      BY <2>1, OffIs
  <1>2. ASSUME NEW off \in 0..Size(c) + 1, NEW len \in 0..MaxLen
        PROVE  CopyData(c, off, len) = SubSeq(Flat(c), off + 1, Lesser(Size(c), off + len))
    <2>1. off \in Nat /\ len \in Nat
      OBVIOUS
    <2> QED
      BY <2>1, CopyDataFlat
  <1> QED
    BY <1>1, <1>2 DEF ReadsInOrder

\* dpl_mbuf_adj and dpl_mbuf_trim_front remove bytes at the ends only.
LEMMA InvTrims ==
    ASSUME NEW c \in Chains, c # <<>>
    PROVE  TrimsEnds(c)
  <1>1. \A n \in 1..MaxLen : n \in Nat
    OBVIOUS
  <1>2. \A n \in 1..MaxLen : /\ Flat(TrimmedHead(c, n)) = SubSeq(Flat(c), n + 1, Size(c))
                             /\ Flat(TrimmedTail(c, n)) = SubSeq(Flat(c), 1, Size(c) - n)
    BY <1>1, TrimmedHeadFlat, TrimmedTailFlat
  <1>3. Flat(TrimmedFront(c)) = Flat(c) /\ IsPkthdr(TrimmedFront(c)) = IsPkthdr(c)
    <2> DEFINE e == TrimmedFront(c)
    <2>1. e \in Chains /\ Len(e) \in 1..Len(c) /\ Flat(e) = Flat(c) /\ e[1].hdr = c[1].hdr
      BY TrimmedFrontFlat
    <2> HIDE DEF e
    <2>2. IsPkthdr(e) = IsPkthdr(c)
      BY <2>1, SameHead
    <2> QED
      BY <2>1, <2>2 DEF e
  <1> QED
    BY <1>2, <1>3 DEF TrimsEnds

\* dpl_mbuf_prepend and dpl_mbuf_pullup keep the chain's bytes in order.
LEMMA InvRearranges ==
    ASSUME MbufInv, NEW c \in Chains, c # <<>>
    PROVE  Rearranges(c)
  <1>0. num_free \in Nat
    BY DEF MbufInv, ChainsInv, Balanced
  <1>1. ASSUME NEW d \in Data(MaxLen)
        PROVE  LET r == Prepended(c, d, num_free)
               IN  r.c # <<>> => Flat(r.c) = d \o Flat(c) /\ IsPkthdr(r.c) = IsPkthdr(c)
    <2> DEFINE r == Prepended(c, d, num_free)
               e == r.c
    <2>1. d \in Seq(Bytes)
      BY <1>1, DataType, MbufConstants
    <2>2. \/ e = <<>>
          \/ e \in Chains /\ Len(e) \in Nat \ {0} /\ e[1].hdr = c[1].hdr /\ Flat(e) = d \o Flat(c)
      BY <1>0, <2>1, PrependedFlat
    <2> HIDE DEF e
    <2>3. e # <<>> => Flat(e) = d \o Flat(c) /\ IsPkthdr(e) = IsPkthdr(c)
      BY <2>2, SameHead
    <2> QED
      BY <2>3 DEF e
  <1>2. ASSUME NEW len \in 1..MaxLen
        PROVE  LET r == PulledUp(c, len, num_free)
               IN  IF r.c = <<>> THEN len > Size(c) \/ num_free = 0 \/ len > BufLen - c[1].hdr
                   ELSE /\ Flat(r.c) = Flat(c) /\ Len(r.c[1].data) >= len
                        /\ IsPkthdr(r.c) = IsPkthdr(c)
    <2> DEFINE r == PulledUp(c, len, num_free)
               e == r.c
    <2>1. len \in Nat
      OBVIOUS
    <2>2. \/ /\ e = <<>>
             /\ len > Size(c) \/ num_free = 0 \/ len > BufLen - c[1].hdr
          \/ /\ e \in Chains /\ Len(e) \in Nat \ {0} /\ e[1].hdr = c[1].hdr
             /\ Flat(e) = Flat(c) /\ Len(e[1].data) >= len
      BY <1>0, <2>1, PulledUpFlat
    <2> HIDE DEF e
    <2>3. CASE e = <<>>
      <3>1. Len(e) = 0
        BY <2>3
      <3>2. len > Size(c) \/ num_free = 0 \/ len > BufLen - c[1].hdr
        BY <2>2, <3>1
      <3> QED
        BY <2>3, <3>2 DEF e
    <2>4. CASE e # <<>>
      <3>1. e \in Chains /\ Len(e) \in Nat \ {0} /\ e[1].hdr = c[1].hdr
            /\ Flat(e) = Flat(c) /\ Len(e[1].data) >= len
        BY <2>2, <2>4
      <3>2. IsPkthdr(e) = IsPkthdr(c)
        BY <3>1, SameHead
      <3> QED
        BY <2>4, <3>1, <3>2 DEF e
    <2> QED
      BY <2>3, <2>4
  <1> QED
    BY <1>1, <1>2 DEF Rearranges

\* Whatever chain the operations have built, dpl_mbuf_append and appendfrom put
\* bytes behind its bytes, copydata and off read them at their offsets, adj and
\* trim_front remove them at the ends and prepend and pullup keep their order,
\* though they move them between buffers.
THEOREM MbufBytesKept == MbufSpec => []BytesKept
  <1>1. MbufInv => BytesKept
    <2> SUFFICES ASSUME MbufInv, NEW h \in Handles, chain[h] # <<>>
                 PROVE  /\ AppendsInOrder(chain[h]) /\ ReadsInOrder(chain[h])
                        /\ TrimsEnds(chain[h]) /\ Rearranges(chain[h])
      BY DEF BytesKept
    <2>1. chain[h] \in Chains
      BY MbufInvIs
    <2> QED
      BY <2>1, InvAppends, InvReads, InvTrims, InvRearranges
  <1> QED
    BY <1>1, MbufInvariant, PTL

\* No operation of dpl_mbuf.c loses a buffer or frees one twice, none leaves data
\* beyond its block or over the header, and omp_len, which mem_split_frag and the
\* transport trust, is the number of bytes in the chain unless dpl_mbuf_copyinto
\* left it short (the run MbufHeader).
THEOREM MbufChainsSound == MbufSpec => []ChainsSound
  <1>1. MbufInv => ChainsSound
    <2> SUFFICES ASSUME MbufInv PROVE ChainsSound
      OBVIOUS
    <2>1. /\ Balanced(chain, num_free)
          /\ \A h \in Handles : IsPkthdr(chain[h]) /\ h \notin short => omp_len[h] = Size(chain[h])
      BY DEF MbufInv, ChainsInv
    <2>2. LengthTrue
      BY <2>1 DEF LengthTrue
    <2>3. num_free + FoldFunction(+, 0, Lens(chain)) = Blocks
      <3>1. Lens(chain) \in [Handles -> Nat]
        <4>1. \A h \in Handles : Len(chain[h]) \in Nat
          BY <2>1 DEF Balanced, Chains
        <4> QED
          BY <4>1 DEF Lens
      <3>2. FoldFunction(+, 0, Lens(chain)) = Total(Lens(chain), Handles)
        BY <3>1, FoldIsTotal, MbufConstants
      <3> QED
        BY <2>1, <3>2 DEF Balanced
    <2>4. \A h \in Handles : \A i \in DOMAIN chain[h] :
             Leading(chain[h][i]) >= 0 /\ Trailing(chain[h][i]) >= 0
      <3> SUFFICES ASSUME NEW h \in Handles, NEW i \in DOMAIN chain[h]
                   PROVE  Leading(chain[h][i]) >= 0 /\ Trailing(chain[h][i]) >= 0
        OBVIOUS
      <3>1. chain[h][i] \in Buffer
        BY <2>1 DEF Balanced, Chains
      <3> QED
        BY <3>1 DEF Buffer
    <2> QED
      BY <2>2, <2>3, <2>4 DEF ChainsSound, BuffersKept, Lens
  <1> QED
    BY <1>1, MbufInvariant, PTL
=============================================================================

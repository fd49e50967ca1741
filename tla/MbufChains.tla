----------------------------- MODULE MbufChains -----------------------------
(***************************************************************************)
(* porting/dpl_lib/src/dpl_mbuf.c: packets as chains of fixed buffers from *)
(* one pool.  Every operation works on the bytes of a chain in place, may  *)
(* need buffers the pool does not have, and keeps the length in the packet *)
(* header of the head in step.  mem_split_frag of dpl_mem.c cuts a packet  *)
(* into fragments with them.                                               *)
(*                                                                         *)
(* A chain is the sequence of its mbufs, so that the pointers om_next are  *)
(* abstracted and buffers are counted; a byte is a member of Bytes.  A     *)
(* chain has one owner: operations are atomic, and the other chain stands  *)
(* for whatever else takes buffers.                                        *)
(***************************************************************************)
EXTENDS Integers, Sequences, FiniteSets, SequencesExt

CONSTANTS
    Handles,    \* variables that hold a chain
    Bytes,
    BufLen,     \* omp_databuf_len
    HdrLen,     \* om_pkthdr_len of a packet header
    Blocks,     \* mp_num_blocks
    MaxLen      \* bound: bytes per operation

ASSUME MbufConstants ==
    /\ IsFiniteSet(Handles)
    /\ BufLen \in Nat /\ HdrLen \in 1..BufLen - 1 /\ Blocks \in Nat
    /\ MaxLen \in Nat

\* omp_len of the packet header is 16 bits wide, and the pools are smaller: that of
\* uwb_transport has 16 buffers of 512 bytes (lib/uwb_transport/syscfg.yml)
ASSUME SmallPool == Blocks * BufLen < 65536

VARIABLES
    num_free,   \* mp_num_free of the pool
    chain,      \* handle: its mbufs, <<>> for NULL
    omp_len,    \* handle: length in the packet header, 0 without one
    short       \* history: handles whose header dpl_mbuf_copyinto left short

mbufVars == <<num_free, chain, omp_len, short>>

\* om_data as an offset, the bytes from there, om_pkthdr_len
Mbuf == [off : 0..BufLen, data : BoundedSeq(Bytes, BufLen), hdr : {0, HdrLen}]
Fresh == [off |-> 0, data |-> <<>>, hdr |-> 0]

\* what a caller writes; neighbours differ, so that every change of order shows
Data(n) == {d \in BoundedSeq(Bytes, n) : \A i \in 2..Len(d) : d[i] # d[i - 1]}
Lesser(i, j) == IF i < j THEN i ELSE j
Greater(i, j) == IF i < j THEN j ELSE i
Ceil(n, d) == (n + d - 1) \div d

Flat(c) == FlattenSeq([i \in DOMAIN c |-> c[i].data])
Size(c) == Len(Flat(c))
Start(c, i) == Size(SubSeq(c, 1, i - 1))    \* bytes before mbuf i
Leading(m) == m.off - m.hdr
Trailing(m) == BufLen - m.off - Len(m.data)
IsPkthdr(c) == c # <<>> /\ c[1].hdr > 0

MbufInit ==
    /\ num_free = Blocks
    /\ chain = [h \in Handles |-> <<>>] /\ omp_len = [h \in Handles |-> 0]
    /\ short = {}

\* dpl_memblock_get gives a buffer if there is one
Available(n) == n <= num_free

\* dpl_mbuf_free and dpl_memblock_put for each buffer of c
Released(c) == num_free + Len(c)

\* handle h holds c now, with this length in its header, and the pool the rest
Holds(h, c, len, free) ==
    /\ chain' = [chain EXCEPT ![h] = c]
    /\ omp_len' = [omp_len EXCEPT ![h] = IF IsPkthdr(c) THEN len % 65536 ELSE 0]
    /\ num_free' = free
    /\ short' = IF c = <<>> THEN short \ {h} ELSE short

-----------------------------------------------------------------------------
(* The algorithms, on a chain c and f free buffers *)

\* dpl_mbuf_append: fill the last mbuf, then as many new ones as there are
Appended(c, d, f) ==
    LET last == c[Len(c)]
        s == Lesser(Trailing(last), Len(d))
        rest == SubSeq(d, s + 1, Len(d))
        n == Lesser(f, Ceil(Len(rest), BufLen))
    IN  [c |-> Append(Front(c), [last EXCEPT !.data = @ \o SubSeq(d, 1, s)])
               \o [i \in 1..n |-> [Fresh EXCEPT !.data = SubSeq(rest, (i - 1) * BufLen + 1,
                                                         Lesser(i * BufLen, Len(rest)))]],
         free |-> f - n, left |-> Greater(0, Len(rest) - n * BufLen)]

\* dpl_mbuf_off: the mbuf that holds offset off, the last one for the end; 0 is NULL
Off(c, off) ==
    LET holds == {i \in DOMAIN c : Start(c, i) <= off
                    /\ (off < Start(c, i) + Len(c[i].data) \/ (off = Size(c) /\ i = Len(c)))}
    IN  IF holds = {} THEN 0 ELSE CHOOSE i \in holds : \A j \in holds : i <= j

\* the part of mbuf i in len bytes from offset off of the chain
Piece(c, i, off, len) ==
    SubSeq(c[i].data, Greater(1, off - Start(c, i) + 1),
           Lesser(Len(c[i].data), off + len - Start(c, i)))

\* dpl_mbuf_copydata; <<>> is also what the failing call leaves unsaid
CopyData(c, off, len) ==
    FlattenSeq([i \in DOMAIN c |-> Piece(c, i, off, len)])

\* dpl_mbuf_appendfrom: a piece at a time, until one does not fit
AppendedFrom(c, src, off, len, f) ==
    LET upto[i \in 0..Len(src)] ==
            IF i = 0 THEN [c |-> c, free |-> f, left |-> 0]
            ELSE LET r == upto[i - 1]
                 IN  IF r.left > 0 THEN r ELSE Appended(r.c, Piece(src, i, off, len), r.free)
    IN  upto[IF Off(src, off) = 0 THEN 0 ELSE Len(src)]

\* dpl_mbuf_adj from the head: buffers are emptied and kept
TrimmedHead(c, n) ==
    [i \in DOMAIN c |->
       LET cut == Lesser(Greater(0, n - Start(c, i)), Len(c[i].data))
       IN  IF cut = Len(c[i].data) THEN [c[i] EXCEPT !.data = <<>>]
           ELSE [c[i] EXCEPT !.data = SubSeq(@, cut + 1, Len(@)), !.off = @ + cut]]

Keep(c, i, n) == Append(SubSeq(c, 1, i - 1), [c[i] EXCEPT !.data = SubSeq(@, 1, n)])

\* Mutant: bytes of the last mbuf only count
TrimmedTailShallow(c, n) == Keep(c, Len(c), Greater(0, Len(c[Len(c)].data) - n))

\* and from the tail: buffers behind the new end are freed
TrimmedTail(c, n) ==
    LET last == Len(c[Len(c)].data)
        count == Greater(0, Size(c) - n)
        ends == {i \in DOMAIN c : Start(c, i) + Len(c[i].data) >= count}
        end == CHOOSE i \in ends : \A j \in ends : i <= j
    IN  IF last >= n THEN Keep(c, Len(c), last - n) ELSE Keep(c, end, count - Start(c, end))

\* dpl_mbuf_prepend: fill the space before the data, then put new heads in front,
\* to which the packet header moves; without buffers the chain is freed
Prepended(c, d, f) ==
    LET s == Lesser(Len(d), Leading(c[1]))
        rest == SubSeq(d, 1, Len(d) - s)
        room == BufLen - c[1].hdr
        n == Ceil(Len(rest), room)
        head == [c[1] EXCEPT !.off = @ - s, !.data = SubSeq(d, Len(d) - s + 1, Len(d)) \o @,
                             !.hdr = IF n > 0 THEN 0 ELSE @]
        \* the i-th mbuf of the n new ones, from the front
        bytes(i) == SubSeq(rest, Greater(1, Len(rest) - (n - i + 1) * room + 1),
                           Len(rest) - (n - i) * room)
    IN  IF n > f THEN [c |-> <<>>, free |-> f + Len(c)]
        ELSE [c |-> [i \in 1..n |-> [off |-> BufLen - Len(bytes(i)), data |-> bytes(i),
                                     hdr |-> IF i = 1 THEN c[1].hdr ELSE 0]]
                    \o <<head>> \o Tail(c),
              free |-> f - n]

\* dpl_mbuf_pullup: the first len bytes into the head or, if it has no room for
\* them, into a new one; buffers drained on the way are freed
PulledUp(c, len, f) ==
    LET inHead == Len(c[1].data) + Trailing(c[1]) >= len /\ Len(c) > 1
        to == IF inHead THEN c[1] ELSE [off |-> c[1].hdr, data |-> <<>>, hdr |-> c[1].hdr]
        from == IF inHead THEN Tail(c) ELSE c
        need == len - Len(to.data)
        ends == {i \in DOMAIN from : Start(from, i) + Len(from[i].data) >= need}
        end == CHOOSE i \in ends : \A j \in ends : i <= j
        cut == need - Start(from, end)
        rest == IF cut = Len(from[end].data) THEN SubSeq(from, end + 1, Len(from))
                ELSE <<[from[end] EXCEPT !.data = SubSeq(@, cut + 1, Len(@)),
                                         !.off = @ + cut]>>
                     \o SubSeq(from, end + 1, Len(from))
        whole == Len(c) + f     \* all buffers
        c2 == <<[to EXCEPT !.data = @ \o SubSeq(Flat(from), 1, need)]>> \o rest
    IN  IF Len(c[1].data) >= len THEN [c |-> c, free |-> f]
        ELSE IF ends = {} \/ (~inHead /\ (f = 0 \/ len > BufLen - c[1].hdr))
        THEN [c |-> <<>>, free |-> whole]
        ELSE [c |-> c2, free |-> whole - Len(c2)]

\* dpl_mbuf_trim_front: empty buffers go, the header moves if there is room for it
TrimmedFront(c) ==
    LET full == {i \in 2..Len(c) : c[i].data # <<>>}
        first == CHOOSE i \in full : \A j \in full : i <= j
        rest == SubSeq(c, first, Len(c))
    IN  IF c[1].data # <<>> THEN c
        ELSE IF full = {} THEN <<c[1]>>
        ELSE IF Leading(rest[1]) >= c[1].hdr THEN [rest EXCEPT ![1].hdr = c[1].hdr]
        ELSE <<c[1]>> \o rest

\* dpl_mbuf_copyinto, before it appends what goes beyond the end
Overwritten(c, off, d) ==
    [i \in DOMAIN c |-> [c[i] EXCEPT !.data =
        [j \in DOMAIN @ |-> LET p == Start(c, i) + j - off
                            IN  IF p \in DOMAIN d THEN d[p] ELSE @[j]]]]

-----------------------------------------------------------------------------
(* The operations *)

\* dpl_mbuf_get and dpl_mbuf_get_pkthdr
Get(h, off) ==
    /\ chain[h] = <<>> /\ Available(1)
    /\ Holds(h, <<[Fresh EXCEPT !.off = off]>>, 0, num_free - 1)

GetPkthdr(h) ==
    /\ chain[h] = <<>> /\ Available(1)
    /\ Holds(h, <<[Fresh EXCEPT !.off = HdrLen, !.hdr = HdrLen]>>, 0, num_free - 1)

\* dpl_mbuf_free_chain
FreeChain(h) == chain[h] # <<>> /\ Holds(h, <<>>, 0, Released(chain[h]))

AppendData(h, d) ==
    /\ chain[h] # <<>>
    /\ LET r == Appended(chain[h], d, num_free)
       IN  Holds(h, r.c, omp_len[h] + Len(d) - r.left, r.free)

AppendFrom(h, src, off, len) ==
    /\ h # src /\ chain[h] # <<>> /\ chain[src] # <<>>
    /\ LET r == AppendedFrom(chain[h], chain[src], off, len, num_free)
       IN  Holds(h, r.c, omp_len[h] + Size(r.c) - Size(chain[h]), r.free)

\* dpl_mbuf_dup; the copy of a header leaves no space between it and the data
Dup(h, src) ==
    /\ chain[h] = <<>> /\ chain[src] # <<>> /\ Available(Len(chain[src]))
    /\ chain' = [chain EXCEPT ![h] =
          [i \in DOMAIN chain[src] |->
             IF i = 1 /\ IsPkthdr(chain[src]) THEN [chain[src][i] EXCEPT !.off = HdrLen]
             ELSE chain[src][i]]]
    /\ omp_len' = [omp_len EXCEPT ![h] = omp_len[src]]
    /\ num_free' = num_free - Len(chain[src])
    /\ short' = IF src \in short THEN short \cup {h} ELSE short

\* Mutant: the header counts what was asked for
AdjHeadUnclamped(h, n) ==
    /\ chain[h] # <<>>
    /\ Holds(h, TrimmedHead(chain[h], n), omp_len[h] - n, num_free)

\* dpl_mbuf_adj with n >= 0
AdjHead(h, n) ==
    /\ chain[h] # <<>>
    /\ Holds(h, TrimmedHead(chain[h], n), omp_len[h] - Lesser(n, Size(chain[h])), num_free)

\* and with -n
AdjTail(h, n) ==
    /\ chain[h] # <<>>
    /\ LET c == TrimmedTail(chain[h], n)
       IN  Holds(h, c, IF Len(chain[h][Len(chain[h])].data) >= n THEN omp_len[h] - n
                       ELSE Size(c),
                 Released(chain[h]) - Len(c))

Prepend(h, d) ==
    /\ chain[h] # <<>>
    /\ LET r == Prepended(chain[h], d, num_free) IN Holds(h, r.c, omp_len[h] + Len(d), r.free)

Pullup(h, len) ==
    /\ chain[h] # <<>>
    /\ LET r == PulledUp(chain[h], len, num_free) IN Holds(h, r.c, omp_len[h], r.free)

PrependPullup(h, d) ==
    /\ chain[h] # <<>>
    /\ LET p == Prepended(chain[h], d, num_free)
           r == PulledUp(p.c, Len(d), p.free)
       IN  IF p.c = <<>> THEN Holds(h, <<>>, 0, p.free)
           ELSE Holds(h, r.c, omp_len[h] + Len(d), r.free)

\* what goes beyond the end is appended to the last mbuf, which knows of no header
\* unless it is the head, and then only that much is counted from the offset
CopyInto(h, off, d) ==
    /\ chain[h] # <<>> /\ Off(chain[h], off) # 0
    /\ LET c == Overwritten(chain[h], off, d)
           left == SubSeq(d, Size(c) - off + 1, Len(d))
           r == Appended(c, left, num_free)
           done == omp_len[h] + IF Len(c) = 1 THEN Len(left) - r.left ELSE 0
           len == IF left = <<>> \/ r.left > 0 THEN done
                  ELSE Greater(done, off + Len(left))
       IN  /\ chain' = [chain EXCEPT ![h] = r.c] /\ num_free' = r.free
           /\ omp_len' = [omp_len EXCEPT ![h] = IF IsPkthdr(c) THEN len % 65536 ELSE 0]
           /\ short' = IF IsPkthdr(c) /\ len < Size(r.c) THEN short \cup {h} ELSE short

\* dpl_mbuf_concat; the second handle is the owner's no more
Concat(h, g) ==
    /\ h # g /\ chain[h] # <<>> /\ chain[g] # <<>>
    /\ chain' = [chain EXCEPT ![g] = <<>>,
                    ![h] = @ \o [chain[g] EXCEPT ![1].hdr = 0]]
    /\ omp_len' = [omp_len EXCEPT ![g] = 0,
                      ![h] = IF ~IsPkthdr(chain[h]) THEN 0
                             ELSE (@ + IF IsPkthdr(chain[g]) THEN omp_len[g]
                                       ELSE Size(chain[g])) % 65536]
    /\ short' = (IF g \in short THEN short \cup {h} ELSE short) \ {g}
    /\ UNCHANGED num_free

\* dpl_mbuf_extend, and the caller writes the bytes
Extend(h, d) ==
    /\ chain[h] # <<>> /\ Len(d) <= BufLen
    /\ LET c == chain[h]
           fits == Trailing(c[Len(c)]) >= Len(d)
       IN  /\ fits \/ Available(1)
           /\ Holds(h, IF fits THEN [c EXCEPT ![Len(c)].data = @ \o d]
                       ELSE Append(c, [Fresh EXCEPT !.data = d]),
                    omp_len[h] + Len(d), IF fits THEN num_free ELSE num_free - 1)

TrimFront(h) ==
    /\ chain[h] # <<>>
    /\ LET c == TrimmedFront(chain[h])
       IN  Holds(h, c, omp_len[h], Released(chain[h]) - Len(c))

\* mem_split_frag: g becomes the next fragment of h, with at most max bytes
SplitFrag(h, g, max) ==
    /\ h # g /\ IsPkthdr(chain[h]) /\ chain[g] = <<>>
    /\ IF omp_len[h] <= max
       THEN /\ chain' = [chain EXCEPT ![g] = chain[h], ![h] = <<>>]
            /\ omp_len' = [omp_len EXCEPT ![g] = omp_len[h], ![h] = 0]
            /\ short' = IF h \in short THEN (short \ {h}) \cup {g} ELSE short
            /\ UNCHANGED num_free
       ELSE LET frag == <<[Fresh EXCEPT !.off = HdrLen, !.hdr = HdrLen]>>
                r == AppendedFrom(frag, chain[h], 0, max, num_free - 1)
                c == TrimmedFront(TrimmedHead(chain[h], max))
            IN  /\ Available(1) /\ r.left = 0 /\ Size(r.c) = max
                /\ chain' = [chain EXCEPT ![g] = r.c, ![h] = c]
                /\ omp_len' = [omp_len EXCEPT ![g] = max, ![h] = @ - max]
                /\ num_free' = r.free + Len(chain[h]) - Len(c)
                /\ UNCHANGED short

Lengths == 0..MaxLen

\* bound: a packet with a short header is only freed
MbufNext ==
    \/ \E h \in Handles : FreeChain(h)
    \/ \E h \in Handles \ short :
          \/ \E off \in 0..BufLen : Get(h, off)
          \/ GetPkthdr(h) \/ TrimFront(h)
          \/ \E d \in Data(MaxLen) : \/ AppendData(h, d) \/ Prepend(h, d) \/ Extend(h, d)
                                     \/ PrependPullup(h, d)
                                     \/ \E off \in Lengths : CopyInto(h, off, d)
          \/ \E n \in 1..MaxLen : AdjHead(h, n) \/ AdjTail(h, n) \/ Pullup(h, n)
          \/ \E g \in Handles \ short :
                \/ Dup(h, g) \/ Concat(h, g)
                \/ \E off, len \in Lengths : AppendFrom(h, g, off, len)
                \/ \E max \in 1..MaxLen : SplitFrag(h, g, max)

MbufSpec == MbufInit /\ [][MbufNext]_mbufVars

-----------------------------------------------------------------------------
(* Properties *)

\* dpl_mbuf_append and _appendfrom add the bytes in order, or those that fit when
\* the pool runs out.
AppendsInOrder(c) ==
    /\ \A d \in Data(MaxLen) :
          LET r == Appended(c, d, num_free)
          IN  /\ Flat(r.c) = Flat(c) \o SubSeq(d, 1, Len(d) - r.left)
              /\ r.left = 0 \/ r.free = 0
    /\ \A h \in Handles : chain[h] # <<>> =>
          \A off, len \in 0..MaxLen :
             LET r == AppendedFrom(c, chain[h], off, len, num_free)
                 n == Size(r.c) - Size(c)
             IN  /\ Flat(r.c) = Flat(c) \o SubSeq(Flat(chain[h]), off + 1, off + n)
                 /\ n = Greater(0, Lesser(len, Size(chain[h]) - off)) \/ r.free = 0

\* dpl_mbuf_off and _copydata see the bytes at their offsets.
ReadsInOrder(c) ==
    \A off \in 0..Size(c) + 1 :
       LET i == Off(c, off) IN
       /\ (i = 0) = (off > Size(c))
       /\ i > 0 /\ off < Size(c) => c[i].data[off - Start(c, i) + 1] = Flat(c)[off + 1]
       /\ \A len \in 0..MaxLen :
             CopyData(c, off, len) = SubSeq(Flat(c), off + 1, Lesser(Size(c), off + len))

\* dpl_mbuf_adj and _trim_front take away what they are asked to and nothing else.
TrimsEnds(c) ==
    /\ \A n \in 1..MaxLen :
          /\ Flat(TrimmedHead(c, n)) = SubSeq(Flat(c), n + 1, Size(c))
          /\ Flat(TrimmedTail(c, n)) = SubSeq(Flat(c), 1, Size(c) - n)
    /\ Flat(TrimmedFront(c)) = Flat(c)
    /\ IsPkthdr(TrimmedFront(c)) = IsPkthdr(c)

\* dpl_mbuf_prepend and _pullup keep the bytes and the header or free the chain;
\* pullup fails only if there are too few bytes or no buffer could hold them.
Rearranges(c) ==
    /\ \A d \in Data(MaxLen) :
          LET r == Prepended(c, d, num_free)
          IN  r.c # <<>> => Flat(r.c) = d \o Flat(c) /\ IsPkthdr(r.c) = IsPkthdr(c)
    /\ \A len \in 1..MaxLen :
          LET r == PulledUp(c, len, num_free)
          IN  IF r.c = <<>> THEN len > Size(c) \/ num_free = 0 \/ len > BufLen - c[1].hdr
              ELSE /\ Flat(r.c) = Flat(c) /\ Len(r.c[1].data) >= len
                   /\ IsPkthdr(r.c) = IsPkthdr(c)

\* What the operations promise of the bytes of a packet, on every chain of buffers
\* that sequences of them can leave behind: empty ones in the middle, space on
\* either side, a header that no longer lies in the first buffer allocated.
BytesKept ==
    \A h \in Handles : chain[h] # <<>> =>
       /\ AppendsInOrder(chain[h]) /\ ReadsInOrder(chain[h])
       /\ TrimsEnds(chain[h]) /\ Rearranges(chain[h])

\* The packet header counts the bytes of the chain, unless dpl_mbuf_copyinto left
\* it short.
LengthTrue ==
    \A h \in Handles : IsPkthdr(chain[h]) /\ h \notin short => omp_len[h] = Size(chain[h])

\* Every buffer is free or in one chain, and the data of none leaves its buffer or
\* runs into the packet header.
BuffersKept ==
    /\ num_free + FoldFunction(+, 0, [h \in Handles |-> Len(chain[h])]) = Blocks
    /\ \A h \in Handles : \A i \in DOMAIN chain[h] :
          Leading(chain[h][i]) >= 0 /\ Trailing(chain[h][i]) >= 0

\* Whatever failed half-way for want of a buffer, the header tells the length and no
\* buffer is lost or freed twice.
ChainsSound == LengthTrue /\ BuffersKept

\* "If the destination mbuf contains a packet header, the header length is updated"
\* (dpl_mbuf.h, of dpl_mbuf_copyinto): it is, but not by all the bytes that the
\* chain grows by.
HeaderUpdated == short = {}
=============================================================================

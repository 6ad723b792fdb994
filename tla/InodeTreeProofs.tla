--------------------------- MODULE InodeTreeProofs ---------------------------
(***************************************************************************)
(* Link counts are those of the tree, and whoever reads the tables that    *)
(* libsqfs_inode_serialize leaves behind finds the tree, for any tree, any *)
(* names, any sizes of blocks and fields, and also if an append fails.     *)
(***************************************************************************)
EXTENDS InodeTree, FiniteSetTheorems, WellFoundedInduction, TLAPS

-----------------------------------------------------------------------------
(* Numbers.                                                                *)

\* A set of numbers has a least element.
LEMMA LeastNumber ==
    ASSUME NEW T \in SUBSET Nat, T # {}
    PROVE  \E x \in T : \A y \in T : x <= y
<1> DEFINE R == {ss \in Nat \X Nat : ss[1] < ss[2]}
<1>1. IsWellFoundedOn(R, Nat)
  BY NatLessThanWellFounded, Zenon DEF OpToRel
<1> HIDE DEF R
<1>2. PICK x \in T : \A y \in T : ~(<<y, x>> \in R)
  BY <1>1, WFMin, Zenon
<1>3. \A y \in T : ~(y < x)
  <2> SUFFICES ASSUME NEW y \in T, y < x PROVE FALSE
    OBVIOUS
  <2>1. <<y, x>> \in R
    BY DEF R
  <2> QED BY <1>2, <2>1
<1> QED BY <1>3

\* Induction up to a bound, for a property given by the set of numbers that have it.
LEMMA UpTo ==
    ASSUME NEW N \in Nat, NEW G, 0 \in G, \A k \in 1 .. N : k - 1 \in G => k \in G
    PROVE  \A k \in 0 .. N : k \in G
<1> SUFFICES ASSUME ~\A k \in 0 .. N : k \in G PROVE FALSE
  OBVIOUS
<1> DEFINE T == {k \in 0 .. N : k \notin G}
<1>1. T \in SUBSET Nat /\ T # {}
  OBVIOUS
<1>2. PICK k \in T : \A y \in T : k <= y
  BY <1>1, LeastNumber
<1>3. k \in 1 .. N /\ k - 1 \in 0 .. N /\ k - 1 \notin T
  BY <1>2
<1> QED BY <1>2, <1>3

\* A function on 0 .. N is defined by its start and its steps.
Follows(f, N, c, step) == f[0] = c /\ \A k \in 1 .. N : f[k] = step[<<k, f[k - 1]>>]

\* A step, applied again and again, defines a function: what stands for induction over a
\* loop here.
LEMMA StepsDefine ==
    ASSUME NEW N \in Nat, NEW V, NEW c \in V, NEW step \in [(1 .. N) \X V -> V]
    PROVE  \E f \in [0 .. N -> V] : Follows(f, N, c, step)
<1> DEFINE Front(f, m) == f[0] = c /\ \A k \in 1 .. m : f[k] = step[<<k, f[k - 1]>>]
           P(m) == \E f \in [0 .. m -> V] : Front(f, m)
           G == {m \in 0 .. N : P(m)}
<1>1. 0 \in G
  <2>1. [k \in 0 .. 0 |-> c] \in [0 .. 0 -> V] /\ Front([k \in 0 .. 0 |-> c], 0)
    OBVIOUS
  <2>2. P(0)
    BY <2>1, Zenon
  <2> QED BY <2>2
<1>2. ASSUME NEW m \in 1 .. N, m - 1 \in G PROVE m \in G
  <2>1. PICK f \in [0 .. m - 1 -> V] : Front(f, m - 1)
    BY <1>2
  <2>2. m - 1 \in 0 .. m - 1 /\ f[m - 1] \in V
    OBVIOUS
  <2>3. PICK v \in V : v = step[<<m, f[m - 1]>>]
    BY <2>2
  <2> DEFINE h == [k \in 0 .. m |-> IF k < m THEN f[k] ELSE v]
  <2>4. h \in [0 .. m -> V]
    OBVIOUS
  <2>5. h[0] = c
    BY <2>1
  <2>6. ASSUME NEW k \in 1 .. m PROVE h[k] = step[<<k, h[k - 1]>>]
    <3>1. h[k - 1] = f[k - 1]
      OBVIOUS
    <3>2. CASE k < m
      <4>1. k \in 1 .. m - 1 /\ h[k] = f[k]
        BY <3>2
      <4> QED BY <4>1, <3>1, <2>1
    <3>3. CASE k = m
      <4>1. h[k] = v
        BY <3>3
      <4> QED BY <4>1, <3>1, <3>3, <2>3
    <3> QED BY <3>2, <3>3
  <2> HIDE DEF h
  <2>7. P(m)
    BY <2>4, <2>5, <2>6
  <2> QED BY <2>7
<1> HIDE DEF G
<1>3. N \in G
  BY <1>1, <1>2, UpTo
<1> QED BY <1>3 DEF G, Follows

\* Quotient and remainder.
LEMMA SameNumber ==
    ASSUME NEW a \in Int, NEW b \in Int, a <= b, b <= a
    PROVE  a = b
  OBVIOUS

\* A position is a block and an offset.
LEMMA DivideByMeta ==
    ASSUME NEW a \in Nat
    PROVE  /\ a \div MetaSize \in Nat /\ a % MetaSize \in 0 .. MetaSize - 1
           /\ a = MetaSize * (a \div MetaSize) + (a % MetaSize)
  BY TreeSizes

\* A position is found again in its place.
LEMMA PlaceFacts ==
    ASSUME NEW a \in Nat
    PROVE  /\ Place(a) \in [block : Nat, offset : Nat]
           /\ Position(Place(a)) = a /\ Position(Place(a)) \in Nat
           /\ Place(a).offset = a % MetaSize /\ Place(a).block = a \div MetaSize
<1>1. PICK q \in Nat, r \in Nat : q = a \div MetaSize /\ r = a % MetaSize /\ a = MetaSize * q + r
  BY DivideByMeta
<1>2. Place(a) = [block |-> q, offset |-> r]
  BY <1>1 DEF Place
<1>3. Position(Place(a)) = q * MetaSize + r
  BY <1>2 DEF Position
<1>4. q * MetaSize = MetaSize * q
  BY TreeSizes
<1> QED BY <1>1, <1>2, <1>3, <1>4

\* The same, with names for both.
LEMMA DivideFacts ==
    ASSUME NEW a \in Nat
    PROVE  \E q, r \in Nat : r = a % MetaSize /\ a = MetaSize * q + r /\ r < MetaSize
<1>1. MetaSize \in Nat
  BY TreeSizes
<1>2. PICK q, r : q = a \div MetaSize /\ r = a % MetaSize
  OBVIOUS
<1>3. q \in Nat /\ r \in 0 .. MetaSize - 1 /\ a = MetaSize * q + r
  BY <1>2, DivideByMeta
<1>4. r \in Nat /\ r < MetaSize
  BY <1>1, <1>3
<1> QED BY <1>2, <1>3, <1>4, Zenon

\* The remainder of a sum needs the remainder of one summand only.
LEMMA SumOfOffsets ==
    ASSUME NEW a \in Nat, NEW b \in Nat
    PROVE  ((a % MetaSize) + b) % MetaSize = (a + b) % MetaSize
<1>1. PICK M \in Nat : M = MetaSize /\ M >= 1
  BY TreeSizes
<1>2. PICK q \in Nat, r \in Nat : r = a % M /\ a = M * q + r
  BY <1>1, DivideFacts
<1>3. PICK x \in Nat, y \in Nat : y = (r + b) % M /\ r + b = M * x + y /\ y < M
  <2>1. r + b \in Nat
    OBVIOUS
  <2> QED BY <2>1, <1>1, DivideFacts
<1>4. PICK u \in Nat, v \in Nat : v = (a + b) % M /\ a + b = M * u + v /\ v < M
  <2>1. a + b \in Nat
    OBVIOUS
  <2> QED BY <2>1, <1>1, DivideFacts
<1>5. PICK w \in Nat : w = q + x
  OBVIOUS
<1>6. a + b = M * w + y
  <2>1. M * w = M * q + M * x
    BY <1>5
  <2>2. M * q \in Nat /\ M * x \in Nat /\ M * w \in Nat
    OBVIOUS
  <2> QED BY <2>1, <2>2, <1>2, <1>3
<1>7. ASSUME NEW i \in Nat, NEW j \in Nat, i < j PROVE M * i + M <= M * j
  <2>1. PICK d \in Nat : j = i + 1 + d
    <3>1. j - i - 1 \in Nat /\ j = i + 1 + (j - i - 1)
      BY <1>7
    <3> QED BY <3>1
  <2>2. M * j = M * i + M + M * d
    BY <2>1
  <2>3. M * i \in Nat /\ M * d \in Nat
    OBVIOUS
  <2> QED BY <2>2, <2>3
<1>8. M * u \in Nat /\ M * w \in Nat
  OBVIOUS
<1>9. ~(u < w) /\ ~(w < u)
  BY <1>3, <1>4, <1>6, <1>7, <1>8
<1>10. u = w
  BY <1>9
<1>11. v = y
  BY <1>4, <1>6, <1>8, <1>10
<1> QED BY <1>1, <1>2, <1>3, <1>4, <1>11

-----------------------------------------------------------------------------
(* Encoding a listing.                                                     *)

SeenType ==
    [name : Names, inode : Nat, at : [block : Int, offset : Nat], type : Kinds \cup {"none"}]
ScanType == [end : Nat, ref : Nat, refOff : Nat]

\* Types of what libsqfs_directory_encode sees of an entry.
LEMMA SeenFacts ==
    ASSUME NEW es \in Seq(SeenType), NEW k \in 1 .. Len(es)
    PROVE  /\ es[k] \in SeenType
           /\ EntryLength(es[k]) \in Nat /\ EntryLength(es[k]) > 0
           /\ es[k].inode \in Nat /\ es[k].at.block \in Int /\ es[k].at.offset \in Nat
           /\ es[k].name \in Names /\ es[k].type \in Kinds \cup {"none"}
<1>1. es[k] \in SeenType
  OBVIOUS
<1>2. /\ es[k].inode \in Nat /\ es[k].at.block \in Int /\ es[k].at.offset \in Nat
      /\ es[k].name \in Names /\ es[k].type \in Kinds \cup {"none"}
  BY <1>1 DEF SeenType
<1>3. NameLength[es[k].name] \in Nat
  BY <1>2, NamesAreOrdered
<1> QED BY <1>1, <1>2, <1>3, TreeSizes, SMTT(20) DEF EntryLength

\* The loop of libsqfs_directory_encode keeps the types of its state.
LEMMA ScanStepType ==
    ASSUME NEW es \in Seq(SeenType), NEW k \in 1 .. Len(es), NEW s \in ScanType
    PROVE  ScanStep(es, k, s) \in ScanType
<1>1. s.end \in Nat /\ s.ref \in Nat /\ s.refOff \in Nat /\ DirHeaderSize \in Nat /\ k \in Nat
  BY TreeSizes DEF ScanType
<1>2. PICK l \in Nat : l = EntryLength(es[k])
  BY SeenFacts
<1>3. s.end + l \in Nat /\ s.end + l + DirHeaderSize \in Nat
  BY <1>1, <1>2
<1>4. ScanStep(es, k, s) = IF NeedNewHeader(es, k, s.end, s.ref, s.refOff)
                           THEN [end |-> s.end + l + DirHeaderSize, ref |-> k, refOff |-> s.end]
                           ELSE [s EXCEPT !.end = s.end + l]
  BY <1>2 DEF ScanStep
<1> QED BY <1>1, <1>3, <1>4, SMTT(20) DEF ScanType

\* The states of the loop follow each other.
LEMMA ScanFacts ==
    ASSUME NEW es \in Seq(SeenType)
    PROVE  /\ Scan(es)[0] = ScanStart
           /\ \A k \in 0 .. Len(es) : Scan(es)[k] \in ScanType
           /\ \A k \in 1 .. Len(es) : Scan(es)[k] = ScanStep(es, k, Scan(es)[k - 1])
<1> PICK N \in Nat : N = Len(es)
  OBVIOUS
<1> DEFINE step == [p \in (1 .. N) \X ScanType |-> ScanStep(es, p[1], p[2])]
<1>1. step \in [(1 .. N) \X ScanType -> ScanType]
  BY ScanStepType
<1>2. ScanStart \in ScanType
  BY DEF ScanStart, ScanType
<1> HIDE DEF step
<1>3. PICK g \in [0 .. N -> ScanType] :
         Follows(g, N, ScanStart, step)
  BY <1>1, <1>2, StepsDefine
<1>4. ASSUME NEW k \in 1 .. N PROVE g[k] = ScanStep(es, k, g[k - 1])
  <2>1. g[k - 1] \in ScanType
    OBVIOUS
  <2>2. <<k, g[k - 1]>> \in (1 .. N) \X ScanType
    BY <2>1
  <2>3. step[<<k, g[k - 1]>>] = ScanStep(es, k, g[k - 1])
    BY <2>2, Zenon DEF step
  <2> QED BY <2>3, <1>3 DEF Follows
<1> DEFINE IsScan(h) ==
       h = [k \in 0 .. Len(es) |-> IF k = 0 THEN ScanStart ELSE ScanStep(es, k, h[k - 1])]
           scan == CHOOSE h : IsScan(h)
<1>5. IsScan(g)
  <2>1. \A k \in 0 .. N : g[k] = IF k = 0 THEN ScanStart ELSE ScanStep(es, k, g[k - 1])
    BY <1>3, <1>4 DEF Follows
  <2> QED BY <2>1
<1>6. Scan(es) = scan
  BY Zenon DEF Scan
<1> HIDE DEF IsScan
<1>7. IsScan(scan)
  BY <1>5, Zenon
<1> HIDE DEF scan
<1>8. scan[0] = ScanStart /\ \A k \in 1 .. N : scan[k] = ScanStep(es, k, scan[k - 1])
  BY <1>7 DEF IsScan
<1> DEFINE G == {k \in Nat : scan[k] \in ScanType}
<1>9. \A k \in 0 .. N : k \in G
  <2>1. 0 \in G
    BY <1>2, <1>8
  <2>2. ASSUME NEW k \in 1 .. N, k - 1 \in G PROVE k \in G
    BY <2>2, <1>8, ScanStepType
  <2> HIDE DEF G
  <2> QED BY <2>1, <2>2, UpTo
<1> QED BY <1>6, <1>8, <1>9

\* The entry behind the last header is one the loop has passed.
LEMMA RefPassed ==
    ASSUME NEW es \in Seq(SeenType)
    PROVE  \A k \in 0 .. Len(es) : Scan(es)[k].ref \in 0 .. k
<1> PICK N \in Nat : N = Len(es)
  OBVIOUS
<1> DEFINE G == {k \in 0 .. N : Scan(es)[k].ref \in 0 .. k}
<1>1. 0 \in G
  BY ScanFacts DEF ScanStart
<1>2. ASSUME NEW k \in 1 .. N, k - 1 \in G PROVE k \in G
  <2>1. PICK s, t : s = Scan(es)[k - 1] /\ t = Scan(es)[k]
    OBVIOUS
  <2>2. s \in ScanType /\ t = ScanStep(es, k, s) /\ s.ref \in 0 .. k - 1
    BY <2>1, <1>2, ScanFacts
  <2>3. t.ref = k \/ t.ref = s.ref
    BY <2>2 DEF ScanStep, ScanType
  <2>4. t.ref \in 0 .. k
    BY <2>2, <2>3
  <2> QED BY <2>1, <2>4
<1> HIDE DEF G
<1>3. \A k \in 0 .. N : k \in G
  BY <1>1, <1>2, UpTo
<1> QED BY <1>3 DEF G

\* One step of the loop: an entry with a header begins a run, another one continues
\* the run of the entry before it.
LEMMA ScanNext ==
    ASSUME NEW es \in Seq(SeenType), NEW k \in 1 .. Len(es)
    PROVE  /\ Scan(es)[k].end \in Nat /\ Scan(es)[k - 1].end \in Nat
           /\ Scan(es)[k].ref \in Nat /\ Scan(es)[k].refOff \in Nat
           /\ Scan(es)[k].end = Scan(es)[k - 1].end + EntryLength(es[k])
                                    + (IF IsRef(es, k) THEN DirHeaderSize ELSE 0)
           /\ \/ IsRef(es, k) /\ Scan(es)[k].refOff = Scan(es)[k - 1].end
              \/ /\ ~NeedNewHeader(es, k, Scan(es)[k - 1].end, Scan(es)[k - 1].ref,
                                   Scan(es)[k - 1].refOff)
                 /\ Scan(es)[k].ref = Scan(es)[k - 1].ref
                 /\ Scan(es)[k].refOff = Scan(es)[k - 1].refOff
<1>1. PICK s, t : s = Scan(es)[k - 1] /\ t = Scan(es)[k]
  OBVIOUS
<1>2. s \in ScanType /\ t \in ScanType /\ t = ScanStep(es, k, s)
  BY <1>1, ScanFacts
<1>3. /\ s.end \in Nat /\ s.ref \in Nat /\ s.refOff \in Nat
      /\ t.end \in Nat /\ t.ref \in Nat /\ t.refOff \in Nat
  BY <1>2 DEF ScanType
<1>4. PICK l \in Nat : l = EntryLength(es[k])
  BY SeenFacts
<1>5. CASE NeedNewHeader(es, k, s.end, s.ref, s.refOff)
  <2>1. t = [end |-> s.end + l + DirHeaderSize, ref |-> k, refOff |-> s.end]
    BY <1>2, <1>4, <1>5 DEF ScanStep
  <2>2. t.ref = k /\ t.end = s.end + l + DirHeaderSize /\ t.refOff = s.end
    BY <2>1
  <2> QED BY <2>2, <1>1, <1>3, <1>4 DEF IsRef
<1>6. CASE ~NeedNewHeader(es, k, s.end, s.ref, s.refOff)
  <2>1. t = [s EXCEPT !.end = s.end + l]
    BY <1>2, <1>4, <1>6 DEF ScanStep
  <2>2. t.ref = s.ref /\ t.end = s.end + l /\ t.refOff = s.refOff
    BY <2>1, <1>2 DEF ScanType
  <2>3. s.ref \in 0 .. k - 1
    BY <1>1, RefPassed
  <2>4. t.ref # k
    BY <2>2, <2>3
  <2> QED BY <2>2, <2>4, <1>1, <1>3, <1>4, <1>6 DEF IsRef
<1> QED BY <1>5, <1>6

\* What follows for an entry and the one it refers to: they are in a run of entries
\* with the same reference, on the same block, at a small distance.
Run(es, k, h) ==
    /\ h \in 1 .. k /\ Scan(es)[k].ref = h /\ Scan(es)[k].refOff = Scan(es)[h - 1].end
    /\ \A j \in h .. k : Scan(es)[j].ref = h
    /\ es[k].at.block = es[h].at.block
    /\ es[k].inode - es[h].inode \in -HalfDiff .. HalfDiff - 1
    /\ k - h <= MaxRun - 1
    /\ k # h => Scan(es)[k].end - Scan(es)[h - 1].end <= MetaSize

\* At every entry, the loop knows the run of entries it belongs to.
LEMMA RefFacts ==
    ASSUME NEW es \in Seq(SeenType)
    PROVE  \A k \in 1 .. Len(es) : Run(es, k, Scan(es)[k].ref)
<1> PICK N \in Nat : N = Len(es)
  OBVIOUS
<1> DEFINE G == {0} \cup {k \in 1 .. N : Run(es, k, Scan(es)[k].ref)}
<1>1. 0 \in G
  OBVIOUS
<1>2. ASSUME NEW k \in 1 .. N, k - 1 \in G PROVE k \in G
  <2>1. PICK s : s = Scan(es)
    OBVIOUS
  <2>2. /\ s[k].end \in Nat /\ s[k - 1].end \in Nat /\ s[k].ref \in Nat /\ s[k].refOff \in Nat
        /\ s[k].end = s[k - 1].end + EntryLength(es[k])
                                    + (IF IsRef(es, k) THEN DirHeaderSize ELSE 0)
        /\ \/ IsRef(es, k) /\ s[k].refOff = s[k - 1].end
           \/ /\ ~NeedNewHeader(es, k, s[k - 1].end, s[k - 1].ref, s[k - 1].refOff)
              /\ s[k].ref = s[k - 1].ref
              /\ s[k].refOff = s[k - 1].refOff
    BY <2>1, ScanNext
  <2>3. es[k].inode \in Nat /\ es[k].at.block \in Int /\ EntryLength(es[k]) \in Nat
    BY SeenFacts
  <2>4. HalfDiff \in Nat /\ HalfDiff >= 1 /\ MaxRun \in Nat /\ MaxRun >= 1 /\ MetaSize \in Nat
    BY TreeSizes
  <2>5. CASE IsRef(es, k)
    <3>1. s[k].ref = k
      BY <2>1, <2>5 DEF IsRef
    <3>2. s[k].refOff = s[k - 1].end
      <4>1. CASE ~NeedNewHeader(es, k, s[k - 1].end, s[k - 1].ref, s[k - 1].refOff) /\ s[k].ref = s[k - 1].ref
        <5>1. s[k - 1].ref \in 0 .. k - 1
          BY <2>1, RefPassed
        <5> QED BY <4>1, <5>1, <3>1
      <4> QED BY <4>1, <2>2
    <3>3. es[k].inode - es[k].inode \in -HalfDiff .. HalfDiff - 1 /\ k - k <= MaxRun - 1
      BY <2>3, <2>4
    <3>4. \A j \in k .. k : s[j].ref = k
      BY <3>1
    <3>5. Run(es, k, k)
      BY <3>1, <3>2, <3>3, <3>4, <2>1 DEF Run
    <3> QED BY <3>1, <3>5, <2>1
  <2>6. CASE ~IsRef(es, k)
    <3>1. PICK h : h = s[k - 1].ref
      OBVIOUS
    <3>2. /\ ~NeedNewHeader(es, k, s[k - 1].end, h, s[k - 1].refOff)
          /\ s[k].ref = h /\ s[k].refOff = s[k - 1].refOff
          /\ s[k].end = s[k - 1].end + EntryLength(es[k])
      BY <2>2, <2>3, <2>6, <3>1
    <3>3. h # 0 /\ k - 1 \in 1 .. N
      <4>1. h # 0
        BY <3>2 DEF NeedNewHeader
      <4>2. k # 1
        BY <4>1, <3>1, <2>1, ScanFacts DEF ScanStart
      <4> QED BY <4>1, <4>2
    <3>4. Run(es, k - 1, h)
      BY <3>1, <3>3, <2>1, <1>2
    <3>5. /\ h \in 1 .. k - 1 /\ s[k - 1].refOff = s[h - 1].end
          /\ \A j \in h .. k - 1 : s[j].ref = h
      BY <3>4, <2>1 DEF Run
    <3>6. es[h].inode \in Nat /\ h \in 1 .. N
      BY <3>3, <3>5, SeenFacts
    <3>7. /\ es[k].at.block = es[h].at.block
          /\ es[k].inode - es[h].inode \in -HalfDiff .. HalfDiff - 1
          /\ ~(EntryLength(es[k]) + s[k - 1].end - s[h - 1].end > MetaSize)
          /\ ~(k - h > MaxRun - 1)
      BY <3>2, <3>5 DEF NeedNewHeader, Diff
    <3>8. s[h - 1].end \in Nat
      BY <3>6, <2>1, ScanNext
    <3>9. s[k].end - s[h - 1].end <= MetaSize /\ k - h <= MaxRun - 1
      <4>1. PICK a \in Nat, b \in Nat, l \in Nat, m \in Nat :
               a = s[k - 1].end /\ b = s[h - 1].end /\ l = EntryLength(es[k]) /\ m = MetaSize
        BY <2>2, <2>3, <2>4, <3>8
      <4>2. s[k].end = a + l /\ ~(l + a - b > m)
        BY <4>1, <3>2, <3>7
      <4>3. (a + l) - b <= m
        BY <4>2
      <4>4. k - h <= MaxRun - 1
        BY <3>6, <3>7, <2>4
      <4> QED BY <4>1, <4>2, <4>3, <4>4
    <3>10. \A j \in h .. k : s[j].ref = h
      BY <3>2, <3>5
    <3>11. Run(es, k, h)
      BY <3>2, <3>5, <3>7, <3>9, <3>10, <2>1 DEF Run
    <3> QED BY <3>2, <3>11, <2>1
  <2> QED BY <2>5, <2>6
<1> HIDE DEF G
<1>3. \A k \in 0 .. N : k \in G
  BY <1>1, <1>2, UpTo
<1> QED BY <1>3 DEF G

\* Every entry takes up room behind the one before.
LEMMA ScanGrows ==
    ASSUME NEW es \in Seq(SeenType), NEW i \in 0 .. Len(es)
    PROVE  \A j \in 0 .. Len(es) : i < j => Scan(es)[i].end < Scan(es)[j].end
<1> PICK N \in Nat : N = Len(es)
  OBVIOUS
<1>1. PICK s : s = Scan(es)
  OBVIOUS
<1>2. \A k \in 0 .. N : s[k].end \in Nat
  BY <1>1, ScanFacts DEF ScanType
<1>3. ASSUME NEW k \in 1 .. N PROVE s[k - 1].end < s[k].end
  <2>1. PICK l \in Nat, x \in Nat : l > 0 /\ s[k].end = s[k - 1].end + l + x
    <3>1. EntryLength(es[k]) \in Nat /\ EntryLength(es[k]) > 0
      BY SeenFacts
    <3>2. (IF IsRef(es, k) THEN DirHeaderSize ELSE 0) \in Nat
      BY TreeSizes
    <3> QED BY <3>1, <3>2, <1>1, ScanNext
  <2>2. s[k - 1].end \in Nat
    BY <1>2
  <2> QED BY <2>1, <2>2
<1> DEFINE G == {k \in 0 .. N : i < k => s[i].end < s[k].end}
<1>4. 0 \in G
  OBVIOUS
<1>5. ASSUME NEW k \in 1 .. N, k - 1 \in G PROVE k \in G
  <2>1. s[k - 1].end < s[k].end /\ s[i].end \in Nat /\ s[k].end \in Nat /\ s[k - 1].end \in Nat
    BY <1>2, <1>3
  <2>2. i < k => i = k - 1 \/ i < k - 1
    OBVIOUS
  <2> QED BY <2>1, <2>2, <1>5
<1> HIDE DEF G
<1>6. \A k \in 0 .. N : k \in G
  BY <1>4, <1>5, UpTo
<1> QED BY <1>1, <1>6 DEF G

\* The entries behind the header of entry h are those up to some h + c, and the next
\* one has a header again.
LEMMA RunBehind ==
    ASSUME NEW es \in Seq(SeenType), NEW h \in 1 .. Len(es), IsRef(es, h)
    PROVE  \E c \in Nat :
              /\ h + c <= Len(es) /\ Header(es, h).count = c
              /\ \A j \in 1 .. Len(es) : Scan(es)[j].ref = h <=> j \in h .. h + c
              /\ h + c < Len(es) => IsRef(es, h + c + 1)
<1> PICK N \in Nat : N = Len(es)
  OBVIOUS
<1>1. PICK s : s = Scan(es)
  OBVIOUS
<1>2. s[h].ref = h
  BY <1>1 DEF IsRef
<1>3. ASSUME NEW j \in 1 .. N
      PROVE  s[j].ref \in 1 .. j /\ \A i \in s[j].ref .. j : s[i].ref = s[j].ref
  BY <1>1, RefFacts DEF Run
<1> DEFINE T == {j \in h .. N : s[j].ref # h}
<1>4. PICK c \in Nat : /\ h + c <= N /\ \A j \in h .. h + c : s[j].ref = h
                       /\ h + c < N => s[h + c + 1].ref # h
  <2>1. CASE T = {}
    <3>1. PICK c \in Nat : h + c = N
      <4>1. N - h \in Nat /\ h + (N - h) = N
        OBVIOUS
      <4> QED BY <4>1
    <3>2. \A j \in h .. N : s[j].ref = h
      BY <2>1
    <3>3. h + c <= N /\ ~(h + c < N)
      BY <3>1
    <3> QED BY <3>1, <3>2, <3>3
  <2>2. CASE T # {}
    <3>1. T \in SUBSET Nat
      OBVIOUS
    <3>2. PICK m \in T : \A y \in T : m <= y
      BY <3>1, <2>2, LeastNumber
    <3>3. m \in h .. N /\ m # h /\ s[m].ref # h
      BY <1>2
    <3>4. PICK c \in Nat : c = m - 1 - h
      BY <3>3
    <3>5. h + c = m - 1 /\ h + c + 1 = m
      BY <3>3, <3>4
    <3>6. \A j \in h .. m - 1 : s[j].ref = h
      BY <3>2, <3>3
    <3>7. h + c <= N
      BY <3>3, <3>5
    <3>8. \A j \in h .. h + c : s[j].ref = h
      BY <3>5, <3>6
    <3>9. s[h + c + 1].ref # h
      BY <3>3, <3>5
    <3> QED BY <3>7, <3>8, <3>9
  <2> QED BY <2>1, <2>2
<1>5. ASSUME h + c < N PROVE s[h + c + 1].ref = h + c + 1
  <2>1. PICK m \in 1 .. N : m = h + c + 1
    BY <1>5
  <2>2. m - 1 \in h .. h + c /\ s[m - 1].ref = h /\ s[m].ref # h
    BY <2>1, <1>4, <1>5
  <2>3. s[m].ref = m \/ s[m].ref = s[m - 1].ref
    BY <1>1, ScanNext DEF IsRef
  <2> QED BY <2>1, <2>2, <2>3
<1>6. ASSUME NEW j \in 1 .. N, s[j].ref = h PROVE j \in h .. h + c
  <2>1. h <= j
    BY <1>3, <1>6
  <2>2. CASE h + c < j
    <3>1. h + c + 1 \in h .. j /\ h + c < N
      BY <2>2
    <3>2. s[h + c + 1].ref = h
      BY <3>1, <1>3, <1>6
    <3> QED BY <3>1, <3>2, <1>4
  <2> QED BY <2>1, <2>2
<1>7. \A j \in 1 .. N : s[j].ref = h <=> j \in h .. h + c
  BY <1>4, <1>6
<1>8. Header(es, h).count = c
  <2>1. {j \in DOMAIN es : Scan(es)[j].ref = h} = h .. h + c
    <3>1. DOMAIN es = 1 .. N /\ h .. h + c \subseteq 1 .. N
      BY <1>4
    <3> QED BY <3>1, <1>1, <1>7
  <2>2. Cardinality(h .. h + c) = c + 1
    <3>1. h \in Int /\ h + c \in Int /\ ~(h > h + c) /\ (h + c) - h + 1 = c + 1
      OBVIOUS
    <3>2. Cardinality(h .. h + c) = IF h > h + c THEN 0 ELSE (h + c) - h + 1
      BY <3>1, FS_Interval
    <3> QED BY <3>1, <3>2
  <2>3. Header(es, h).count = Cardinality({j \in DOMAIN es : Scan(es)[j].ref = h}) - 1
    BY Zenon DEF Header
  <2>4. Header(es, h).count = (c + 1) - 1
    BY <2>1, <2>2, <2>3, Zenon
  <2> QED BY <2>4
<1> QED BY <1>1, <1>4, <1>5, <1>7, <1>8 DEF IsRef

\* items are the encoded entries of es, from a position on.
Encodes(items, es, from) ==
    /\ Len(items) = Len(es) /\ DOMAIN items = 1 .. Len(es)
    /\ \A k \in 1 .. Len(es) : items[k] = EncodedEntry(es, k, from)

\* An item has a header exactly if its entry begins a run.
LEMMA ItemFacts ==
    ASSUME NEW es \in Seq(SeenType), NEW from \in Nat, NEW items, Encodes(items, es, from),
           NEW k \in 1 .. Len(es)
    PROVE  /\ items[k].header # NoHeader <=> IsRef(es, k)
           /\ IsRef(es, k) => items[k].header = Header(es, k)
           /\ items[k].at = from + Scan(es)[k - 1].end
           /\ items[k].name = es[k].name /\ items[k].offset = es[k].at.offset
           /\ items[k].type = es[k].type
           /\ items[k].diff = DiffField(es[k].inode, es[Scan(es)[k].ref].inode)
<1>1. items[k] = EncodedEntry(es, k, from)
  BY DEF Encodes
<1>2. /\ items[k].header = IF IsRef(es, k) THEN Header(es, k) ELSE NoHeader
      /\ items[k].at = from + Scan(es)[k - 1].end
      /\ items[k].name = es[k].name /\ items[k].offset = es[k].at.offset
      /\ items[k].type = es[k].type
      /\ items[k].diff = DiffField(es[k].inode, es[Scan(es)[k].ref].inode)
  BY <1>1 DEF EncodedEntry
<1>3. ASSUME IsRef(es, k) PROVE Header(es, k) # NoHeader
  <2>1. PICK c \in Nat : Header(es, k).count = c
    BY <1>3, RunBehind
  <2>2. NoHeader.count = -1
    BY DEF NoHeader
  <2> QED BY <2>1, <2>2
<1> QED BY <1>2, <1>3

\* A reader that counts finds the headers.
LEMMA CountsAreRight ==
    ASSUME NEW es \in Seq(SeenType), NEW from \in Nat, NEW items, Encodes(items, es, from)
    PROVE  CountsRight(items)
<1> PICK N \in Nat : N = Len(es)
  OBVIOUS
<1>1. Len(items) = N /\ DOMAIN items = 1 .. N
  BY DEF Encodes
<1>2. ASSUME items # <<>> PROVE items[1].header # NoHeader
  <2>1. N >= 1
    BY <1>1, <1>2
  <2>2. Scan(es)[1].ref \in 1 .. 1
    BY <2>1, RefFacts DEF Run
  <2>3. IsRef(es, 1)
    BY <2>2 DEF IsRef
  <2> QED BY <2>1, <2>3, ItemFacts
<1>3. ASSUME NEW j \in 1 .. N, items[j].header # NoHeader
      PROVE  /\ LastBehind(items, j) \in j .. Len(items)
             /\ \A n \in j + 1 .. LastBehind(items, j) : items[n].header = NoHeader
             /\ LastBehind(items, j) < Len(items) =>
                   items[LastBehind(items, j) + 1].header # NoHeader
  <2>1. IsRef(es, j) /\ items[j].header = Header(es, j)
    BY <1>3, ItemFacts
  <2>2. PICK c \in Nat : /\ j + c <= N /\ Header(es, j).count = c
                         /\ \A i \in 1 .. N : Scan(es)[i].ref = j <=> i \in j .. j + c
                         /\ j + c < N => IsRef(es, j + c + 1)
    BY <2>1, RunBehind
  <2>3. LastBehind(items, j) = j + c
    BY <2>1, <2>2 DEF LastBehind
  <2>4. ASSUME NEW n \in j + 1 .. j + c PROVE items[n].header = NoHeader
    <3>1. n \in 1 .. N /\ n \in j .. j + c /\ n # j
      BY <2>2
    <3>2. ~IsRef(es, n)
      BY <3>1, <2>2 DEF IsRef
    <3> QED BY <3>1, <3>2, ItemFacts
  <2>5. ASSUME j + c < N PROVE items[j + c + 1].header # NoHeader
    <3>1. j + c + 1 \in 1 .. N /\ IsRef(es, j + c + 1)
      BY <2>2, <2>5
    <3> QED BY <3>1, ItemFacts
  <2> QED BY <2>2, <2>3, <2>4, <2>5, <1>1
<1> QED BY <1>1, <1>2, <1>3 DEF CountsRight

\* The header it takes for an entry is the one the entry was encoded behind.
LEMMA HeaderFound ==
    ASSUME NEW es \in Seq(SeenType), NEW from \in Nat, NEW items, Encodes(items, es, from),
           NEW k \in 1 .. Len(es)
    PROVE  HeaderOf(items, k) = Header(es, Scan(es)[k].ref)
<1> PICK N \in Nat : N = Len(es)
  OBVIOUS
<1>1. PICK h \in 1 .. k : /\ h = Scan(es)[k].ref
                          /\ \A j \in h .. k : Scan(es)[j].ref = h
  BY RefFacts DEF Run
<1>2. ASSUME NEW j \in 1 .. N PROVE items[j].header # NoHeader <=> Scan(es)[j].ref = j
  BY ItemFacts DEF IsRef
<1> DEFINE Q(j) == items[j].header # NoHeader /\ \A n \in j + 1 .. k : items[n].header = NoHeader
<1>3. Q(h)
  <2>1. items[h].header # NoHeader
    BY <1>1, <1>2
  <2>2. ASSUME NEW n \in h + 1 .. k PROVE items[n].header = NoHeader
    <3>1. n \in 1 .. N /\ Scan(es)[n].ref = h /\ n # h
      BY <1>1
    <3> QED BY <3>1, <1>2
  <2> QED BY <2>1, <2>2
<1>4. ASSUME NEW j \in 1 .. k, Q(j) PROVE j = h
  <2>1. CASE j < h
    <3>1. h \in j + 1 .. k
      BY <2>1
    <3> QED BY <3>1, <1>3, <1>4
  <2>2. CASE h < j
    <3>1. j \in 1 .. N /\ j \in h .. k
      BY <2>2
    <3>2. Scan(es)[j].ref = h
      BY <3>1, <1>1
    <3> QED BY <3>1, <3>2, <2>2, <1>2, <1>4
  <2> QED BY <2>1, <2>2
<1> HIDE DEF Q
<1>5. (CHOOSE j \in 1 .. k : Q(j)) = h
  BY <1>3, <1>4
<1>6. HeaderOf(items, k) = items[h].header
  BY <1>5, Zenon DEF HeaderOf, Q
<1>7. items[h].header = Header(es, h)
  <2>1. h \in 1 .. N /\ IsRef(es, h)
    BY <1>1 DEF IsRef
  <2> QED BY <2>1, ItemFacts
<1> QED BY <1>1, <1>6, <1>7

\* A difference that fits its field is read as it is.
LEMMA DiffRead ==
    ASSUME NEW i \in Nat, NEW r \in Nat, i - r \in -HalfDiff .. HalfDiff - 1
    PROVE  r + DiffField(i, r) = i
<1>1. PICK H \in Nat : H = HalfDiff /\ H >= 1
  BY TreeSizes
<1>2. PICK x \in Nat, m \in Nat : x = (i - r) + H /\ m = 2 * H /\ x < m
  <2>1. (i - r) + H \in Nat /\ 2 * H \in Nat /\ (i - r) + H < 2 * H
    BY <1>1
  <2> QED BY <2>1
<1>3. x % m = x
  BY <1>2
<1>4. DiffField(i, r) = (x % m) - H
  BY <1>1, <1>2 DEF DiffField, Diff
<1> QED BY <1>1, <1>2, <1>3, <1>4

\* An entry is read as it was seen.
LEMMA EntryRead ==
    ASSUME NEW es \in Seq(SeenType), NEW from \in Nat, NEW items, Encodes(items, es, from),
           NEW k \in 1 .. Len(es)
    PROVE  /\ items[k].name = es[k].name /\ items[k].type = es[k].type
           /\ HeaderOf(items, k).number + items[k].diff = es[k].inode
           /\ HeaderOf(items, k).block = es[k].at.block /\ items[k].offset = es[k].at.offset
<1>1. PICK h \in 1 .. k : /\ h = Scan(es)[k].ref /\ es[k].at.block = es[h].at.block
                          /\ es[k].inode - es[h].inode \in -HalfDiff .. HalfDiff - 1
  BY RefFacts DEF Run
<1>2. HeaderOf(items, k) = Header(es, h)
  BY <1>1, HeaderFound
<1>3. Header(es, h).number = es[h].inode /\ Header(es, h).block = es[h].at.block
  BY DEF Header
<1>4. es[k].inode \in Nat /\ es[h].inode \in Nat
  BY SeenFacts, SMTT(20)
<1>5. es[h].inode + DiffField(es[k].inode, es[h].inode) = es[k].inode
  BY <1>1, <1>4, DiffRead
<1>6. items[k].diff = DiffField(es[k].inode, es[h].inode)
  BY <1>1, ItemFacts
<1> QED BY <1>1, <1>2, <1>3, <1>5, <1>6, ItemFacts

\* What is behind one header keeps to the format.
LEMMA RulesKept ==
    ASSUME NEW es \in Seq(SeenType), NEW from \in Nat, NEW items, Encodes(items, es, from),
           NEW j \in 1 .. Len(es), items[j].header # NoHeader
    PROVE  HeaderRules(items, j)
<1> PICK N \in Nat : N = Len(es)
  OBVIOUS
<1>1. IsRef(es, j) /\ items[j].header = Header(es, j)
  BY ItemFacts
<1>2. PICK c \in Nat : /\ j + c <= N /\ Header(es, j).count = c
                       /\ \A i \in 1 .. N : Scan(es)[i].ref = j <=> i \in j .. j + c
  BY <1>1, RunBehind
<1>3. PICK l \in 1 .. N : l = j + c /\ l >= j
  BY <1>2
<1>4. Scan(es)[l].ref = j
  BY <1>2, <1>3
<1>5. Run(es, l, j)
  BY <1>4, RefFacts
<1>6. /\ l - j <= MaxRun - 1
      /\ l # j => Scan(es)[l].end - Scan(es)[j - 1].end <= MetaSize
  BY <1>5 DEF Run
<1>7. items[j].header.count = c /\ LastBehind(items, j) = l
  BY <1>1, <1>2, <1>3 DEF LastBehind
<1>8. c < MaxRun
  BY <1>3, <1>6, TreeSizes, SMTT(20)
<1>9. ASSUME c > 0
      PROVE  items[l].at + ItemSize(items[l]) - items[j].at <= MetaSize
  <2>1. l # j /\ ~IsRef(es, l)
    BY <1>3, <1>4, <1>9 DEF IsRef
  <2>2. items[l].header = NoHeader /\ items[l].name = es[l].name
        /\ items[l].at = from + Scan(es)[l - 1].end /\ items[j].at = from + Scan(es)[j - 1].end
    BY <2>1, ItemFacts
  <2>3. EntryLength(es[l]) \in Nat /\ ItemSize(items[l]) = EntryLength(es[l]) + 0
    BY <2>2, SeenFacts DEF ItemSize, EntryLength
  <2>4. Scan(es)[l].end = Scan(es)[l - 1].end + EntryLength(es[l]) + 0
        /\ Scan(es)[l - 1].end \in Nat /\ Scan(es)[l].end \in Nat
    BY <2>1, ScanNext
  <2>5. Scan(es)[j - 1].end \in Nat
    BY ScanNext
  <2>6. PICK a \in Nat, b \in Nat, e \in Nat :
           a = Scan(es)[l - 1].end /\ b = Scan(es)[j - 1].end /\ e = EntryLength(es[l])
    BY <2>3, <2>4, <2>5
  <2>7. Scan(es)[l].end = a + e /\ (a + e) - b <= MetaSize
    BY <2>1, <2>4, <2>6, <1>6, SMTT(20)
  <2>8. items[l].at + ItemSize(items[l]) - items[j].at = (from + a) + e - (from + b)
    BY <2>2, <2>3, <2>6
  <2>9. (from + a) + e - (from + b) = (a + e) - b
    OBVIOUS
  <2> QED BY <2>7, <2>8, <2>9
<1> QED BY <1>7, <1>8, <1>9 DEF HeaderRules

-----------------------------------------------------------------------------
(* Pruning the index.                                                      *)

\* What the index may hold when k entries have been looked at.
KeptBy(es, k, q) ==
    /\ q \in Seq(Nat)
    /\ \A n \in 1 .. Len(q) : q[n] \in 1 .. k /\ IsRef(es, q[n])
    /\ k = 0 => q = <<>>
    /\ k > 0 => Len(q) > 0 /\ q[1] = 1
    /\ \A n \in 1 .. Len(q) - 1 : q[n + 1] - q[n] > IndexSpacing

\* The first entry has a header.
LEMMA FirstIsRef ==
    ASSUME NEW es \in Seq(SeenType), Len(es) >= 1
    PROVE  IsRef(es, 1)
<1>1. Scan(es)[1].ref \in 1 .. 1
  BY RefFacts DEF Run
<1> QED BY <1>1 DEF IsRef

\* A step of the pruning keeps what an index has to satisfy.
LEMMA KeepStepKeeps ==
    ASSUME NEW es \in Seq(SeenType), NEW k \in 1 .. Len(es), NEW q, KeptBy(es, k - 1, q)
    PROVE  KeptBy(es, k, KeepStep(es, k, q))
<1>1. /\ q \in Seq(Nat)
      /\ \A n \in 1 .. Len(q) : q[n] \in 1 .. k - 1 /\ IsRef(es, q[n])
      /\ k = 1 => q = <<>>
      /\ k > 1 => Len(q) > 0 /\ q[1] = 1
      /\ \A n \in 1 .. Len(q) - 1 : q[n + 1] - q[n] > IndexSpacing
  BY DEF KeptBy
<1>2. CASE IsRef(es, k) /\ (q = <<>> \/ FarEnough(k, q[Len(q)]))
  <2>1. PICK p : p = Append(q, k)
    OBVIOUS
  <2>2. KeepStep(es, k, q) = p
    BY <1>2, <2>1 DEF KeepStep
  <2>3. /\ p \in Seq(Nat) /\ Len(p) = Len(q) + 1 /\ p[Len(q) + 1] = k
        /\ \A n \in 1 .. Len(q) : p[n] = q[n]
    BY <1>1, <2>1
  <2> PICK L \in Nat : L = Len(q)
    BY <1>1
  <2>4. ASSUME NEW n \in 1 .. Len(p) PROVE p[n] \in 1 .. k /\ IsRef(es, p[n])
    <3>1. CASE n = L + 1
      BY <3>1, <1>2, <2>3
    <3>2. CASE n \in 1 .. L
      <4>1. p[n] = q[n] /\ q[n] \in 1 .. k - 1 /\ IsRef(es, q[n])
        BY <3>2, <1>1, <2>3
      <4> QED BY <4>1
    <3> QED BY <3>1, <3>2, <2>3
  <2>5. p[1] = 1
    <3>1. CASE k = 1
      BY <3>1, <1>1, <2>3
    <3>2. CASE k > 1
      BY <3>2, <1>1, <2>3
    <3> QED BY <3>1, <3>2
  <2>6. ASSUME NEW n \in 1 .. Len(p) - 1 PROVE p[n + 1] - p[n] > IndexSpacing
    <3>1. CASE n < L
      <4>1. n \in 1 .. L - 1 /\ n \in 1 .. L /\ n + 1 \in 1 .. L
        BY <3>1, <2>3
      <4>2. p[n] = q[n] /\ p[n + 1] = q[n + 1]
        BY <4>1, <2>3
      <4> QED BY <4>1, <4>2, <1>1
    <3>2. CASE n = Len(q)
      <4>1. q # <<>> /\ p[n] = q[Len(q)] /\ p[n + 1] = k
        BY <3>2, <1>1, <2>3
      <4> QED BY <4>1, <1>2 DEF FarEnough
    <3> QED BY <3>1, <3>2, <1>1, <2>3
  <2> QED BY <2>2, <2>3, <2>4, <2>5, <2>6, <1>1 DEF KeptBy
<1>3. CASE ~(IsRef(es, k) /\ (q = <<>> \/ FarEnough(k, q[Len(q)])))
  <2>1. KeepStep(es, k, q) = q
    BY <1>3 DEF KeepStep
  <2>2. k > 1
    BY <1>1, <1>3, FirstIsRef
  <2> QED BY <2>1, <2>2, <1>1 DEF KeptBy
<1> QED BY <1>2, <1>3

\* A step of the pruning keeps the index a list of entries.
LEMMA KeepStepType ==
    ASSUME NEW es, NEW k \in Nat, NEW q \in Seq(Nat)
    PROVE  KeepStep(es, k, q) \in Seq(Nat)
  BY DEF KeepStep

\* What libsqfs_directory_inode_prune_index keeps is an index.
LEMMA KeptFacts ==
    ASSUME NEW es \in Seq(SeenType)
    PROVE  KeptBy(es, Len(es), Kept(es)[Len(es)])
<1> PICK N \in Nat : N = Len(es)
  OBVIOUS
<1> DEFINE step == [p \in (1 .. N) \X Seq(Nat) |-> KeepStep(es, p[1], p[2])]
<1>1. step \in [(1 .. N) \X Seq(Nat) -> Seq(Nat)]
  <2> SUFFICES ASSUME NEW p \in (1 .. N) \X Seq(Nat) PROVE KeepStep(es, p[1], p[2]) \in Seq(Nat)
    OBVIOUS
  <2>1. p[1] \in Nat /\ p[2] \in Seq(Nat)
    OBVIOUS
  <2> QED BY <2>1, KeepStepType
<1>2. <<>> \in Seq(Nat)
  OBVIOUS
<1> HIDE DEF step
<1>3. PICK g \in [0 .. N -> Seq(Nat)] : Follows(g, N, <<>>, step)
  BY <1>1, <1>2, StepsDefine
<1>4. ASSUME NEW k \in 1 .. N PROVE g[k] = KeepStep(es, k, g[k - 1])
  <2>1. g[k - 1] \in Seq(Nat)
    OBVIOUS
  <2>2. <<k, g[k - 1]>> \in (1 .. N) \X Seq(Nat)
    BY <2>1
  <2>3. step[<<k, g[k - 1]>>] = KeepStep(es, k, g[k - 1])
    BY <2>2, Zenon DEF step
  <2> QED BY <2>3, <1>3 DEF Follows
<1> DEFINE IsKeep(h) ==
       h = [k \in 0 .. Len(es) |-> IF k = 0 THEN <<>> ELSE KeepStep(es, k, h[k - 1])]
           keep == CHOOSE h : IsKeep(h)
<1>5. IsKeep(g)
  <2>1. \A k \in 0 .. N : g[k] = IF k = 0 THEN <<>> ELSE KeepStep(es, k, g[k - 1])
    BY <1>3, <1>4 DEF Follows
  <2> QED BY <2>1
<1>6. Kept(es) = keep
  BY Zenon DEF Kept
<1> HIDE DEF IsKeep
<1>7. IsKeep(keep)
  BY <1>5, Zenon
<1> HIDE DEF keep
<1>8. keep[0] = <<>> /\ \A k \in 1 .. N : keep[k] = KeepStep(es, k, keep[k - 1])
  BY <1>7, SMTT(20) DEF IsKeep
<1> DEFINE G == {k \in Nat : KeptBy(es, k, keep[k])}
<1>9. \A k \in 0 .. N : k \in G
  <2>1. 0 \in G
    <3>1. Len(<<>>) = 0 /\ <<>> \in Seq(Nat)
      OBVIOUS
    <3>2. KeptBy(es, 0, <<>>)
      BY <3>1 DEF KeptBy
    <3> QED BY <3>2, <1>8
  <2>2. ASSUME NEW k \in 1 .. N, k - 1 \in G PROVE k \in G
    BY <2>2, <1>8, KeepStepKeeps
  <2> HIDE DEF G
  <2> QED BY <2>1, <2>2, UpTo
<1> QED BY <1>6, <1>9

\* The entries of the index begin runs, and lie far enough apart, counted from the
\* first entry.
LEMMA PrunedFacts ==
    ASSUME NEW es \in Seq(SeenType)
    PROVE  /\ PrunedIndex(es) \in Seq(Nat)
           /\ \A n \in 1 .. Len(PrunedIndex(es)) :
                 /\ PrunedIndex(es)[n] \in 1 .. Len(es) /\ IsRef(es, PrunedIndex(es)[n])
                 /\ PrunedIndex(es)[n] - (IF n = 1 THEN 1 ELSE PrunedIndex(es)[n - 1])
                       > IndexSpacing
<1>1. CASE es = <<>>
  BY <1>1 DEF PrunedIndex
<1>2. CASE es # <<>>
  <2>1. PICK q : q = Kept(es)[Len(es)] /\ KeptBy(es, Len(es), q)
    BY KeptFacts
  <2>2. Len(es) > 0
    BY <1>2
  <2>3. /\ q \in Seq(Nat) /\ Len(q) > 0 /\ q[1] = 1
        /\ \A n \in 1 .. Len(q) : q[n] \in 1 .. Len(es) /\ IsRef(es, q[n])
        /\ \A n \in 1 .. Len(q) - 1 : q[n + 1] - q[n] > IndexSpacing
    BY <2>1, <2>2 DEF KeptBy
  <2>4. PICK p : p = PrunedIndex(es) /\ p = Tail(q)
    BY <1>2, <2>1 DEF PrunedIndex
  <2>5. p \in Seq(Nat) /\ Len(p) = Len(q) - 1 /\ \A n \in 1 .. Len(p) : p[n] = q[n + 1]
    BY <2>3, <2>4
  <2>6. ASSUME NEW n \in 1 .. Len(p)
        PROVE  /\ p[n] \in 1 .. Len(es) /\ IsRef(es, p[n])
               /\ p[n] - (IF n = 1 THEN 1 ELSE p[n - 1]) > IndexSpacing
    <3>1. n + 1 \in 1 .. Len(q) /\ n \in 1 .. Len(q) - 1 /\ p[n] = q[n + 1]
      BY <2>3, <2>5
    <3>2. (IF n = 1 THEN 1 ELSE p[n - 1]) = q[n]
      <4>1. CASE n = 1
        BY <4>1, <2>3
      <4>2. CASE n > 1
        <5>1. n - 1 \in 1 .. Len(p) /\ (n - 1) + 1 = n
          BY <4>2, <2>3, <2>5
        <5>2. p[n - 1] = q[(n - 1) + 1]
          BY <5>1, <2>5
        <5> QED BY <4>2, <5>1, <5>2
      <4> QED BY <4>1, <4>2
    <3> QED BY <3>1, <3>2, <2>3
  <2> QED BY <2>4, <2>5, <2>6
<1> QED BY <1>1, <1>2

-----------------------------------------------------------------------------
(* Listings in the directory table.                                        *)

\* Types of the entries of a directory.
LEMMA EntryFacts ==
    ASSUME TreeTypeOK, NEW d \in Inodes
    PROVE  /\ entries[d] \in Seq(Entry)
           /\ \A k \in DOMAIN entries[d] :
                 entries[d][k] \in Entry /\ entries[d][k].name \in Names /\ entries[d][k].inode \in Inodes
           /\ DOMAIN entries[d] = 1 .. Len(entries[d]) /\ Len(entries[d]) \in Nat
<1>1. Len(entries) = Len(kind) /\ entries \in Seq(Seq(Entry)) /\ Len(kind) \in Nat
  BY DEF TreeTypeOK
<1>2. entries[d] \in Seq(Entry)
  BY <1>1 DEF Inodes
<1>3. \A k \in DOMAIN entries[d] : entries[d][k] \in Entry
  BY <1>2
<1>4. \A k \in DOMAIN entries[d] : entries[d][k].name \in Names /\ entries[d][k].inode \in Inodes
  BY <1>3 DEF Entry
<1> QED BY <1>2, <1>3, <1>4

\* Types of what an inode has.
LEMMA InodeFacts ==
    ASSUME TreeTypeOK, NEW i \in Inodes
    PROVE  /\ kind[i] \in Kinds /\ xattr[i] \in BOOLEAN /\ nlink[i] \in Nat
           /\ parent[i] \in 0 .. Len(kind) /\ etype[i] \in {"none", "short", "long"}
           /\ place[i] \in Nat \cup {-1} /\ i \in Nat /\ i # 0 /\ Len(kind) \in Nat
<1>1. /\ kind \in Seq(Kinds) /\ xattr \in Seq(BOOLEAN) /\ Len(xattr) = Len(kind)
      /\ nlink \in Seq(Nat) /\ Len(nlink) = Len(kind)
      /\ parent \in Seq(0 .. Len(kind)) /\ Len(parent) = Len(kind)
      /\ etype \in Seq({"none", "short", "long"}) /\ Len(etype) = Len(kind)
      /\ place \in Seq(Nat \cup {-1}) /\ Len(place) = Len(kind)
  BY DEF TreeTypeOK
<1>2. i \in 1 .. Len(kind) /\ Len(kind) \in Nat
  BY <1>1 DEF Inodes
<1>3. kind[i] \in Kinds
  BY <1>1, <1>2
<1>4. xattr[i] \in BOOLEAN
  BY <1>1, <1>2
<1>5. nlink[i] \in Nat
  BY <1>1, <1>2
<1>6. parent[i] \in 0 .. Len(kind)
  BY <1>1, <1>2
<1>7. etype[i] \in {"none", "short", "long"}
  BY <1>1, <1>2
<1>8. place[i] \in Nat \cup {-1}
  BY <1>1, <1>2
<1> QED BY <1>2, <1>3, <1>4, <1>5, <1>6, <1>7, <1>8

\* A place is a block and an offset.
LEMMA PlaceType ==
    ASSUME NEW a \in Nat \cup {-1}
    PROVE  Place(a) \in [block : Int, offset : Nat]
<1>1. PICK M \in Nat : M = MetaSize /\ M >= 1
  BY TreeSizes
<1>2. a \in Int /\ a \div M \in Int /\ a % M \in Nat
  BY <1>1
<1> QED BY <1>1, <1>2 DEF Place

\* Types of what the encoding sees of a directory.
LEMMA SeenTyped ==
    ASSUME TreeTypeOK, NEW d \in Inodes
    PROVE  /\ Seen(d) \in Seq(SeenType) /\ Len(Seen(d)) = Len(entries[d])
           /\ DOMAIN Seen(d) = DOMAIN entries[d]
           /\ \A k \in DOMAIN entries[d] : Seen(d)[k] = SeenEntry(entries[d][k])
<1>1. ASSUME NEW k \in DOMAIN entries[d] PROVE SeenEntry(entries[d][k]) \in SeenType
  <2>1. PICK e : e = entries[d][k] /\ e.name \in Names /\ e.inode \in Inodes
    BY EntryFacts
  <2>2. PICK i \in Nat : i = e.inode /\ kind[i] \in Kinds /\ Place(place[i]) \in [block : Int, offset : Nat]
    BY <2>1, InodeFacts, PlaceType
  <2>3. (IF etype[i] = "none" THEN "none" ELSE kind[i]) \in Kinds \cup {"none"}
    BY <2>2
  <2> QED BY <2>1, <2>2, <2>3 DEF SeenEntry, SeenType
<1>2. PICK N \in Nat : N = Len(entries[d]) /\ DOMAIN entries[d] = 1 .. N
  BY EntryFacts
<1>3. Seen(d) = [k \in 1 .. N |-> SeenEntry(entries[d][k])]
  BY <1>2 DEF Seen
<1>4. Seen(d) \in [1 .. N -> SeenType]
  BY <1>1, <1>2, <1>3
<1>5. Seen(d) \in Seq(SeenType) /\ Len(Seen(d)) = N
  BY <1>4
<1> QED BY <1>2, <1>3, <1>5

\* A reader who follows the inode r finds the listing as it was encoded.
Listed(r, es, from) ==
    /\ from \in Nat /\ from = Position(r.start) /\ r.start = Place(from)
    /\ Encodes(Listing(r), es, from)
    /\ r.index = [n \in DOMAIN PrunedIndex(es) |-> IndexEntry(es, PrunedIndex(es)[n], from)]

\* Entries begin inside their listing.
LEMMA EndsFacts ==
    ASSUME NEW es \in Seq(SeenType)
    PROVE  /\ ListingSize(es) \in Nat /\ Scan(es)[0].end = 0
           /\ \A k \in 1 .. Len(es) : Scan(es)[k - 1].end \in 0 .. ListingSize(es) - 1
           /\ Len(es) = 0 => ListingSize(es) = 0
<1> PICK N \in Nat : N = Len(es)
  OBVIOUS
<1>1. PICK s : s = Scan(es)
  OBVIOUS
<1>2. s[0].end = 0
  BY <1>1, ScanFacts DEF ScanStart
<1>3. \A k \in 0 .. N : s[k].end \in Nat
  BY <1>1, ScanFacts DEF ScanType
<1>4. ListingSize(es) = s[N].end
  BY <1>1 DEF ListingSize
<1>5. ASSUME NEW k \in 1 .. N PROVE s[k - 1].end < s[N].end
  <2>1. k - 1 \in 0 .. N /\ N \in 0 .. N /\ k - 1 < N
    OBVIOUS
  <2> QED BY <2>1, <1>1, ScanGrows
<1>6. ASSUME NEW k \in 1 .. N PROVE s[k - 1].end \in 0 .. ListingSize(es) - 1
  <2>1. s[k - 1].end \in Nat /\ s[N].end \in Nat
    BY <1>3
  <2> QED BY <2>1, <1>4, <1>5
<1>7. ListingSize(es) \in Nat
  BY <1>3, <1>4
<1> QED BY <1>1, <1>2, <1>4, <1>6, <1>7

\* A reader of a listing selects its items.
LEMMA InsideFacts ==
    ASSUME NEW es \in Seq(SeenType), NEW r, NEW from \in Nat, NEW lo \in 0 .. Len(dirTable),
           from = Position(r.start), ListedBehind(lo, r, es, from), dirTable \in Seq(Item),
           \A m, n \in DOMAIN dirTable : m < n => dirTable[m].at < dirTable[n].at
    PROVE  Inside(r) = lo + 1 .. lo + Len(es)
<1> PICK N \in Nat : N = Len(es)
  OBVIOUS
<1>1. PICK D \in Nat : D = Len(dirTable) /\ DOMAIN dirTable = 1 .. D /\ lo + N <= D /\ lo \in Nat
  BY DEF ListedBehind
<1>2. ASSUME NEW n \in 1 .. D PROVE dirTable[n].at \in Nat
  <2>1. dirTable[n] \in Item
    BY <1>1
  <2> QED BY <2>1 DEF Item
<1>3. PICK z \in Nat : z = ListingSize(es)
  BY EndsFacts
<1>4. Inside(r) = {n \in 1 .. D : dirTable[n].at >= from /\ dirTable[n].at < from + z}
  <2>1. r.size = z + 3
    BY <1>3 DEF ListedBehind
  <2>2. from + r.size - 3 = from + z
    BY <2>1
  <2> QED BY <1>1, <2>2 DEF Inside
<1>5. ASSUME NEW k \in 1 .. N PROVE dirTable[lo + k].at >= from /\ dirTable[lo + k].at < from + z
  <2>1. k \in DOMAIN es
    OBVIOUS
  <2>2. dirTable[lo + k].at = from + Scan(es)[k - 1].end
    <3>1. dirTable[lo + k] = EncodedEntry(es, k, from)
      BY <2>1 DEF ListedBehind
    <3>2. EncodedEntry(es, k, from).at = from + Scan(es)[k - 1].end
      BY DEF EncodedEntry
    <3> QED BY <3>1, <3>2
  <2>3. Scan(es)[k - 1].end \in 0 .. z - 1
    BY <1>3, EndsFacts
  <2> QED BY <2>2, <2>3
<1>6. ASSUME NEW n \in 1 .. D, n <= lo, N > 0 PROVE dirTable[n].at < from
  <2>1. lo + 1 \in 1 .. D /\ n < lo + 1 /\ 1 \in DOMAIN es
    BY <1>1, <1>6
  <2>2. dirTable[n].at < dirTable[lo + 1].at
    BY <2>1, <1>1
  <2>3. dirTable[lo + 1].at = from + Scan(es)[1 - 1].end
    <3>1. dirTable[lo + 1] = EncodedEntry(es, 1, from)
      BY <2>1 DEF ListedBehind
    <3>2. EncodedEntry(es, 1, from).at = from + Scan(es)[1 - 1].end
      BY DEF EncodedEntry
    <3> QED BY <3>1, <3>2
  <2>4. Scan(es)[1 - 1].end = 0
    BY EndsFacts
  <2> QED BY <2>2, <2>3, <2>4
<1>7. ASSUME NEW n \in 1 .. D, n > lo + N PROVE dirTable[n].at >= from + z
  BY <1>1, <1>3, <1>7 DEF ListedBehind
<1>8. ASSUME NEW n \in Inside(r) PROVE n \in lo + 1 .. lo + N
  <2>1. n \in 1 .. D /\ dirTable[n].at >= from /\ dirTable[n].at < from + z
    BY <1>4, <1>8
  <2>2. dirTable[n].at \in Nat
    BY <2>1, <1>2
  <2>3. n <= lo + N
    BY <2>1, <2>2, <1>1, <1>7
  <2>4. N > 0
    <3>1. N = 0 => z = 0
      BY <1>3, EndsFacts
    <3> QED BY <3>1, <2>1, <2>2
  <2>5. n > lo
    BY <2>1, <2>2, <2>4, <1>1, <1>6
  <2> QED BY <2>1, <2>3, <2>5, <1>1
<1>9. ASSUME NEW n \in lo + 1 .. lo + N PROVE n \in Inside(r)
  <2>1. PICK k \in 1 .. N : n = lo + k /\ n \in 1 .. D
    <3>1. n - lo \in 1 .. N /\ n = lo + (n - lo) /\ n \in 1 .. D
      BY <1>1
    <3> QED BY <3>1
  <2> QED BY <2>1, <1>4, <1>5
<1> QED BY <1>8, <1>9

\* A reader of a listing finds what the encoding has written.
LEMMA ListingFound ==
    ASSUME NEW es \in Seq(SeenType), NEW r, NEW from \in Nat, NEW lo \in 0 .. Len(dirTable),
           from = Position(r.start), ListedBehind(lo, r, es, from), dirTable \in Seq(Item),
           \A m, n \in DOMAIN dirTable : m < n => dirTable[m].at < dirTable[n].at
    PROVE  Encodes(Listing(r), es, from)
<1> PICK N \in Nat : N = Len(es)
  OBVIOUS
<1>1. lo + N <= Len(dirTable) /\ lo \in Nat /\ Len(dirTable) \in Nat
  BY DEF ListedBehind
<1>2. \A k \in 1 .. N : dirTable[lo + k] = EncodedEntry(es, k, from)
  BY DEF ListedBehind
<1>3. Inside(r) = lo + 1 .. lo + N
  BY InsideFacts
<1>4. CASE N = 0
  <2>1. Listing(r) = <<>>
    BY <1>1, <1>3, <1>4 DEF Listing
  <2> QED BY <2>1, <1>4 DEF Encodes
<1>5. CASE N > 0
  <2>1. PICK a : a = CHOOSE n \in Inside(r) : \A m \in Inside(r) : n <= m
    OBVIOUS
  <2>2. PICK b : b = CHOOSE n \in Inside(r) : \A m \in Inside(r) : m <= n
    OBVIOUS
  <2>3. lo + 1 \in Inside(r) /\ \A m \in Inside(r) : lo + 1 <= m
    BY <1>1, <1>3, <1>5
  <2>4. lo + N \in Inside(r) /\ \A m \in Inside(r) : m <= lo + N
    BY <1>1, <1>3, <1>5
  <2>5. a \in Inside(r) /\ \A m \in Inside(r) : a <= m
    BY <2>1, <2>3, Zenon
  <2>6. b \in Inside(r) /\ \A m \in Inside(r) : m <= b
    BY <2>2, <2>4, Zenon
  <2>7. a = lo + 1 /\ b = lo + N
    <3>1. a <= lo + 1 /\ lo + 1 <= a /\ lo + N <= b /\ b <= lo + N
      BY <2>3, <2>4, <2>5, <2>6
    <3>2. a \in Int /\ b \in Int /\ lo + 1 \in Int /\ lo + N \in Int
      BY <2>5, <2>6, <1>1, <1>3
    <3> QED BY <3>1, <3>2, SameNumber
  <2>8. Inside(r) # {}
    BY <2>3
  <2>9. Listing(r) = SubSeq(dirTable, a, b)
    BY <2>1, <2>2, <2>8, Zenon DEF Listing
  <2>10. PICK items : items = Listing(r) /\ items = SubSeq(dirTable, lo + 1, lo + N)
    BY <2>7, <2>9
  <2>11. Len(items) = N /\ DOMAIN items = 1 .. N
    BY <2>10, <1>1
  <2>12. ASSUME NEW k \in 1 .. N PROVE items[k] = EncodedEntry(es, k, from)
    <3>1. items[k] = dirTable[lo + 1 + k - 1] /\ lo + 1 + k - 1 = lo + k
      BY <2>10, <1>1
    <3> QED BY <3>1, <1>2
  <2> QED BY <2>10, <2>11, <2>12 DEF Encodes
<1> QED BY <1>4, <1>5

\* What the invariant says of a directory on disk.
LEMMA OnDisk ==
    ASSUME TreeInv, NEW r \in DirectoriesOnDisk
    PROVE  /\ r \in inodeTable /\ r.inode \in Inodes
           /\ Seen(r.inode) \in Seq(SeenType)
           /\ Len(Seen(r.inode)) = Len(entries[r.inode])
           /\ Listed(r, Seen(r.inode), Position(r.start))
<1>1. r \in inodeTable
  BY DEF DirectoriesOnDisk
<1>2. r.inode \in Inodes
  BY <1>1 DEF TreeInv, RecordInv
<1>3. PICK es : es = Seen(r.inode) /\ es \in Seq(SeenType) /\ Len(es) = Len(entries[r.inode])
  BY <1>2, SeenTyped DEF TreeInv
<1>4. PICK from \in Nat : from = Position(r.start) /\ r.start = Place(from)
  BY DEF TreeInv, ListingInv
<1>5. PICK lo \in 0 .. Len(dirTable) : ListedBehind(lo, r, es, from)
  BY <1>3, <1>4 DEF TreeInv, ListingInv
<1>6. dirTable \in Seq(Item)
  BY DEF TreeInv, TreeTypeOK
<1>7. \A m, n \in DOMAIN dirTable : m < n => dirTable[m].at < dirTable[n].at
  BY DEF TreeInv, ListingInv
<1>8. Encodes(Listing(r), es, from)
  BY <1>3, <1>4, <1>5, <1>6, <1>7, ListingFound
<1>9. r.index = [n \in DOMAIN PrunedIndex(es) |-> IndexEntry(es, PrunedIndex(es)[n], from)]
  BY <1>5 DEF ListedBehind
<1>10. Listed(r, es, from)
  BY <1>4, <1>8, <1>9 DEF Listed
<1> QED BY <1>1, <1>2, <1>3, <1>4, <1>10

\* A reader of a listing finds every entry.
LEMMA EntryReads ==
    ASSUME TreeInv, NEW r \in DirectoriesOnDisk, NEW k \in DOMAIN entries[r.inode]
    PROVE  EntryReadBack(Listing(r), k, entries[r.inode][k])
<1>1. PICK d : d = r.inode /\ d \in Inodes
  BY OnDisk
<1>2. PICK es : es = Seen(d) /\ es \in Seq(SeenType) /\ Len(es) = Len(entries[d])
  BY <1>1, OnDisk
<1>3. PICK items, from : from \in Nat /\ items = Listing(r) /\ Encodes(items, es, from)
  BY <1>1, <1>2, OnDisk DEF Listed
<1>4. k \in 1 .. Len(es)
  BY <1>1, <1>2, EntryFacts DEF TreeInv
<1>5. PICK e : e = entries[d][k] /\ e.inode \in Inodes
  BY <1>1, EntryFacts DEF TreeInv
<1>6. es[k] = SeenEntry(e)
  BY <1>1, <1>2, <1>5, SeenTyped DEF TreeInv
<1>7. PICK q \in inodeTable : q.inode = e.inode
  BY <1>1, <1>5 DEF TreeInv, ListingInv
<1>8. etype[e.inode] # "none" /\ q.at = place[e.inode] /\ q.at \in Nat
  BY <1>7 DEF TreeInv, RecordInv
<1>9. PICK p : p = Place(q.at) /\ p = [block |-> p.block, offset |-> p.offset]
  <2>1. Place(q.at) \in [block : Nat, offset : Nat]
    BY <1>8, PlaceFacts
  <2> QED BY <2>1
<1>10. es[k].name = e.name /\ es[k].inode = e.inode /\ es[k].at = p /\ es[k].type = kind[e.inode]
  BY <1>6, <1>8, <1>9 DEF SeenEntry
<1>11. /\ items[k].name = es[k].name /\ items[k].type = es[k].type
       /\ HeaderOf(items, k).number + items[k].diff = es[k].inode
       /\ HeaderOf(items, k).block = es[k].at.block /\ items[k].offset = es[k].at.offset
  BY <1>2, <1>3, <1>4, EntryRead
<1>12. EntryReadBack(items, k, e)
  <2>1. /\ items[k].name = e.name /\ items[k].type = kind[e.inode]
        /\ HeaderOf(items, k).number + items[k].diff = e.inode
    BY <1>10, <1>11
  <2>2. Place(q.at) = [block |-> HeaderOf(items, k).block, offset |-> items[k].offset]
    BY <1>9, <1>10, <1>11
  <2> QED BY <1>7, <2>1, <2>2 DEF EntryReadBack
<1> QED BY <1>1, <1>3, <1>5, <1>12

\* The invariant implies that the tree is read back.
LEMMA InvReadBack ==
    ASSUME TreeInv
    PROVE  TreeReadBack
<1>1. ASSUME NEW r \in DirectoriesOnDisk PROVE ListingReadBack(r)
  <2>1. Seen(r.inode) \in Seq(SeenType) /\ Len(Seen(r.inode)) = Len(entries[r.inode])
    BY OnDisk
  <2>2. PICK from \in Nat : Encodes(Listing(r), Seen(r.inode), from)
    BY OnDisk DEF Listed
  <2>3. Len(Listing(r)) = Len(entries[r.inode])
    BY <2>1, <2>2 DEF Encodes
  <2>4. CountsRight(Listing(r))
    BY <2>1, <2>2, CountsAreRight
  <2> QED BY <2>3, <2>4, EntryReads DEF ListingReadBack
<1>2. \A q, r \in inodeTable : q.inode = r.inode => q = r
  BY DEF TreeInv, RecordInv
<1>3. \A r \in inodeTable : (IF r.nlink = -1 THEN 1 ELSE r.nlink) = nlink[r.inode]
  BY DEF TreeInv, RecordInv
<1>4. ASSUME phase = "serialized" PROVE \E r \in inodeTable : r.inode = root /\ r.at = place[root]
  <2>1. root \in Inodes /\ etype[root] # "none"
    <3>1. root # 0 /\ etype[root] # "none"
      BY <1>4 DEF TreeInv, StackInv
    <3>2. root \in 0 .. Len(kind) /\ Len(kind) \in Nat
      BY DEF TreeInv, TreeTypeOK
    <3> QED BY <3>1, <3>2 DEF Inodes
  <2>2. PICK r \in inodeTable : r.inode = root
    BY <1>4, <2>1 DEF TreeInv, RecordInv
  <2> QED BY <2>2 DEF TreeInv, RecordInv
<1>5. ASSUME NEW r \in inodeTable PROVE ExportTable[r.inode] = Place(r.at)
  BY DEF TreeInv, RecordInv, ExportTable
<1> QED BY <1>1, <1>2, <1>3, <1>4, <1>5 DEF TreeReadBack

\* The invariant implies the rules of the format.
LEMMA InvRules ==
    ASSUME TreeInv
    PROVE  ListingRules
<1> SUFFICES ASSUME NEW r \in DirectoriesOnDisk
             PROVE  /\ \A k \in 1 .. Len(Listing(r)) - 1 :
                          Listing(r)[k].name <= Listing(r)[k + 1].name
                    /\ \A j \in DOMAIN Listing(r) :
                          Listing(r)[j].header # NoHeader => HeaderRules(Listing(r), j)
  BY DEF ListingRules
<1>1. PICK d : d = r.inode /\ d \in Inodes
  BY OnDisk
<1>2. PICK es : es = Seen(d) /\ es \in Seq(SeenType) /\ Len(es) = Len(entries[d])
  BY <1>1, OnDisk
<1>3. PICK items, from : from \in Nat /\ items = Listing(r) /\ Encodes(items, es, from)
  BY <1>1, <1>2, OnDisk DEF Listed
<1>4. PICK N \in Nat : N = Len(es) /\ Len(items) = N /\ DOMAIN items = 1 .. N
  BY <1>2, <1>3 DEF Encodes
<1>5. ASSUME NEW k \in 1 .. N PROVE items[k].name = entries[d][k].name
  <2>1. items[k].name = es[k].name
    BY <1>2, <1>3, <1>4, ItemFacts
  <2>2. k \in DOMAIN entries[d]
    BY <1>1, <1>2, <1>4, EntryFacts DEF TreeInv
  <2>3. es[k] = SeenEntry(entries[d][k])
    BY <2>2, <1>1, <1>2, SeenTyped DEF TreeInv
  <2> QED BY <2>1, <2>3 DEF SeenEntry
<1>6. ASSUME NEW k \in 1 .. N - 1 PROVE items[k].name <= items[k + 1].name
  <2>1. entries[d][k].name <= entries[d][k + 1].name
    BY <1>1, <1>2, <1>4 DEF TreeInv, SortedInv
  <2>2. k \in 1 .. N /\ k + 1 \in 1 .. N
    OBVIOUS
  <2> QED BY <2>1, <2>2, <1>5
<1>7. ASSUME NEW j \in 1 .. N, items[j].header # NoHeader PROVE HeaderRules(items, j)
  BY <1>2, <1>3, <1>4, <1>7, RulesKept
<1> QED BY <1>3, <1>4, <1>6, <1>7

\* The invariant implies that every index is usable.
LEMMA InvIndex ==
    ASSUME TreeInv
    PROVE  IndexUsable
<1> SUFFICES ASSUME NEW r \in DirectoriesOnDisk, NEW n \in DOMAIN r.index
             PROVE  /\ JumpsTo(r, n, Listing(r)[Target(r, n)])
                    /\ Target(r, n) - Target(r, n - 1) > IndexSpacing
  BY DEF IndexUsable
<1>1. PICK es : es = Seen(r.inode) /\ es \in Seq(SeenType)
  BY OnDisk
<1>2. PICK items, from : from \in Nat /\ items = Listing(r) /\ Encodes(items, es, from)
                         /\ from = Position(r.start) /\ r.start = Place(from)
  BY <1>1, OnDisk DEF Listed
<1>3. PICK p : /\ p = PrunedIndex(es) /\ p \in Seq(Nat)
               /\ \A m \in 1 .. Len(p) :
                     /\ p[m] \in 1 .. Len(es) /\ IsRef(es, p[m])
                     /\ p[m] - (IF m = 1 THEN 1 ELSE p[m - 1]) > IndexSpacing
  BY <1>1, PrunedFacts
<1>4. r.index = [m \in DOMAIN p |-> IndexEntry(es, p[m], from)]
  BY <1>1, <1>2, <1>3, OnDisk DEF Listed
<1>5. PICK N \in Nat : N = Len(es) /\ DOMAIN items = 1 .. N
  BY <1>1, <1>2 DEF Encodes
<1>6. DOMAIN p = 1 .. Len(p) /\ Len(p) \in Nat /\ n \in 1 .. Len(p) /\ DOMAIN r.index = 1 .. Len(p)
  BY <1>3, <1>4
<1>7. ASSUME NEW m \in 1 .. Len(p)
      PROVE  /\ r.index[m].index = Scan(es)[p[m] - 1].end
             /\ r.index[m].block = Place(from + Scan(es)[p[m] - 1].end).block
             /\ r.index[m].name = es[p[m]].name
  <2>1. r.index[m] = IndexEntry(es, p[m], from)
    BY <1>4, <1>6
  <2> QED BY <2>1 DEF IndexEntry
<1>8. ASSUME NEW k \in 1 .. N
      PROVE  Scan(es)[k - 1].end \in Nat /\ items[k].at - from = Scan(es)[k - 1].end
  <2>1. items[k].at = from + Scan(es)[k - 1].end
    BY <1>1, <1>2, <1>5, ItemFacts
  <2>2. Scan(es)[k - 1].end \in Nat
    BY <1>1, <1>5, ScanNext
  <2> QED BY <2>1, <2>2, <1>2
<1>9. ASSUME NEW m \in 1 .. Len(p) PROVE Target(r, m) = p[m]
  <2> DEFINE Q(k) == items[k].at - Position(r.start) = r.index[m].index
  <2>1. p[m] \in 1 .. N
    BY <1>3, <1>5
  <2>2. Q(p[m])
    BY <2>1, <1>2, <1>7, <1>8
  <2>3. ASSUME NEW k \in 1 .. N, Q(k) PROVE k = p[m]
    <3>1. Scan(es)[k - 1].end = Scan(es)[p[m] - 1].end
      BY <2>3, <1>2, <1>7, <1>8
    <3>2. k - 1 \in 0 .. N /\ p[m] - 1 \in 0 .. N
      BY <2>1
    <3>3. PICK x, y : x = k - 1 /\ y = p[m] - 1 /\ x \in 0 .. N /\ y \in 0 .. N
      BY <3>2
    <3>4. Scan(es)[x].end = Scan(es)[y].end /\ Scan(es)[x].end \in Nat
      BY <3>1, <3>3, <1>8
    <3>5. ~(x < y)
      <4>1. x < y => Scan(es)[x].end < Scan(es)[y].end
        BY <3>3, <1>1, <1>5, ScanGrows
      <4> QED BY <4>1, <3>4
    <3>6. ~(y < x)
      <4>1. y < x => Scan(es)[y].end < Scan(es)[x].end
        BY <3>3, <1>1, <1>5, ScanGrows
      <4> QED BY <4>1, <3>4
    <3>7. x = y
      BY <3>3, <3>5, <3>6
    <3> QED BY <3>3, <3>7, <2>1
  <2>4. Target(r, m) = CHOOSE k \in 1 .. N : Q(k)
    <3>1. m # 0
      BY <1>6
    <3> QED BY <3>1, <1>2, <1>5, Zenon DEF Target
  <2> HIDE DEF Q
  <2>5. \A k \in 1 .. N : Q(k) => k = p[m]
    BY <2>3
  <2>6. (CHOOSE k \in 1 .. N : Q(k)) \in 1 .. N /\ Q(CHOOSE k \in 1 .. N : Q(k))
    BY <2>1, <2>2, Zenon
  <2> QED BY <2>4, <2>5, <2>6
<1>10. PICK k \in 1 .. N : k = p[n] /\ Target(r, n) = k /\ IsRef(es, k)
  BY <1>3, <1>5, <1>6, <1>9
<1>11. Target(r, n) - Target(r, n - 1) > IndexSpacing
  <2>1. CASE n = 1
    <3>1. Target(r, n - 1) = 1
      BY <2>1 DEF Target
    <3>2. p[n] - 1 > IndexSpacing
      BY <2>1, <1>3, <1>6
    <3> QED BY <3>1, <3>2, <1>10
  <2>2. CASE n > 1
    <3>1. n - 1 \in 1 .. Len(p)
      BY <2>2, <1>6
    <3>2. Target(r, n - 1) = p[n - 1]
      BY <3>1, <1>9
    <3>3. p[n] - p[n - 1] > IndexSpacing
      BY <2>2, <1>3, <1>6
    <3> QED BY <3>2, <3>3, <1>10
  <2> QED BY <2>1, <2>2, <1>6
<1>12. PICK E \in Nat : /\ E = Scan(es)[k - 1].end /\ items[k].at = from + E
                        /\ r.index[n].index = E /\ r.index[n].block = Place(from + E).block
                        /\ r.index[n].name = es[k].name
  <2>1. Scan(es)[k - 1].end \in Nat /\ items[k].at = from + Scan(es)[k - 1].end
    BY <1>1, <1>2, <1>5, <1>8, ItemFacts
  <2> QED BY <2>1, <1>6, <1>7, <1>10
<1>13. items[k].header # NoHeader /\ items[k].name = es[k].name
  BY <1>1, <1>2, <1>5, <1>10, ItemFacts
<1>14. items[k].at = r.index[n].block * MetaSize + ((r.start.offset + r.index[n].index) % MetaSize)
  <2>1. PICK g \in Nat : g = from + E
    BY <1>2
  <2>2. r.start.offset = from % MetaSize
    BY <1>2, PlaceFacts
  <2>3. ((from % MetaSize) + E) % MetaSize = g % MetaSize
    BY <2>1, <1>2, SumOfOffsets
  <2>4. g = Place(g).block * MetaSize + (g % MetaSize)
    BY <2>1, PlaceFacts DEF Position
  <2> QED BY <2>1, <2>2, <2>3, <2>4, <1>12
<1>15. JumpsTo(r, n, items[k])
  BY <1>12, <1>13, <1>14 DEF JumpsTo
<1> QED BY <1>2, <1>10, <1>11, <1>15

-----------------------------------------------------------------------------
(* Counting links.                                                         *)

\* Entered, of the lists of entries es.
Pairs(es, D, Q) == {p \in D \X Nat : p[2] \in DOMAIN es[p[1]] /\ es[p[1]][p[2]].inode \in Q}

\* The entries of the directories D that name an inode of Q, as a set of pairs.
LEMMA PairsAre ==
    ASSUME NEW es, NEW D, NEW Q, \A d \in D : DOMAIN es[d] \subseteq Nat
    PROVE  UNION {{<<d, k>> : k \in {n \in DOMAIN es[d] : es[d][n].inode \in Q}} : d \in D}
               = Pairs(es, D, Q)
<1>1. ASSUME NEW p,
             p \in UNION {{<<d, k>> : k \in {n \in DOMAIN es[d] : es[d][n].inode \in Q}} : d \in D}
      PROVE  p \in Pairs(es, D, Q)
  <2>1. PICK d \in D : p \in {<<d, k>> : k \in {n \in DOMAIN es[d] : es[d][n].inode \in Q}}
    BY <1>1
  <2>2. PICK k \in DOMAIN es[d] : p = <<d, k>> /\ es[d][k].inode \in Q
    BY <2>1
  <2> QED BY <2>2 DEF Pairs
<1>2. ASSUME NEW p \in Pairs(es, D, Q)
      PROVE  p \in UNION {{<<d, k>> : k \in {n \in DOMAIN es[d] : es[d][n].inode \in Q}} : d \in D}
  <2>1. PICK d, k : d \in D /\ p = <<d, k>> /\ k \in DOMAIN es[d] /\ es[d][k].inode \in Q
    BY <1>2 DEF Pairs
  <2>2. p \in {<<d, n>> : n \in {m \in DOMAIN es[d] : es[d][m].inode \in Q}}
    BY <2>1
  <2> QED BY <2>1, <2>2
<1> QED BY <1>1, <1>2

\* The list t is s with x behind its first m elements.
IsInserted(t, s, m, x) ==
    /\ m \in Nat /\ DOMAIN s = 1 .. Len(s) /\ Len(s) \in Nat /\ m <= Len(s)
    /\ DOMAIN t = 1 .. Len(s) + 1 /\ t[m + 1] = x
    /\ \A k \in 1 .. Len(s) : t[IF k > m THEN k + 1 ELSE k] = s[k]

\* There are as many pairs of fs as of es, or one more.
OneMore(fs, es, D, Q, more) ==
    /\ IsFiniteSet(Pairs(fs, D, Q))
    /\ Cardinality(Pairs(fs, D, Q)) = Cardinality(Pairs(es, D, Q)) + (IF more THEN 1 ELSE 0)

\* Entering an inode adds a pair if it is counted, and moves the pairs behind it.
LEMMA PairsInserted ==
    ASSUME NEW es, NEW D \in SUBSET (DOMAIN es), NEW Q, NEW d \in DOMAIN es, NEW t, NEW m, NEW x,
           IsInserted(t, es[d], m, x), IsFiniteSet(Pairs(es, D, Q)),
           NEW fs, fs = [es EXCEPT ![d] = t]
    PROVE  OneMore(fs, es, D, Q, d \in D /\ x.inode \in Q)
<1>1. /\ m \in Nat /\ DOMAIN es[d] = 1 .. Len(es[d]) /\ Len(es[d]) \in Nat /\ m <= Len(es[d])
      /\ DOMAIN t = 1 .. Len(es[d]) + 1 /\ t[m + 1] = x
      /\ \A k \in 1 .. Len(es[d]) : t[IF k > m THEN k + 1 ELSE k] = es[d][k]
  BY DEF IsInserted
<1>2. PICK N \in Nat : N = Len(es[d])
  BY <1>1
<1>3. fs[d] = t /\ \A e \in D : e # d => fs[e] = es[e]
  OBVIOUS
<1>4. PICK S : S = Pairs(es, D, Q)
  OBVIOUS
<1>5. PICK T : T = Pairs(fs, D, Q) \ {<<d, m + 1>>}
  OBVIOUS
<1>6. ASSUME NEW e, NEW k
      PROVE  <<e, k>> \in S <=> e \in D /\ k \in Nat /\ k \in DOMAIN es[e] /\ es[e][k].inode \in Q
  BY <1>4 DEF Pairs
<1>7. ASSUME NEW e, NEW k
      PROVE  <<e, k>> \in T <=> /\ e \in D /\ k \in Nat /\ k \in DOMAIN fs[e] /\ fs[e][k].inode \in Q
                                /\ <<e, k>> # <<d, m + 1>>
  BY <1>5 DEF Pairs
<1>8. (\A p \in S : p = <<p[1], p[2]>>) /\ (\A p \in T : p = <<p[1], p[2]>>)
  BY <1>4, <1>5 DEF Pairs
<1> DEFINE up(k) == IF k > m THEN k + 1 ELSE k
           F(p) == IF p[1] = d THEN <<d, up(p[2])>> ELSE p
           f == [p \in S |-> F(p)]
<1>9. ASSUME NEW k \in Nat PROVE up(k) \in Nat /\ up(k) # m + 1 /\ (k \in 1 .. N => up(k) \in 1 .. N + 1)
  BY <1>1, <1>2
<1>10. \A k, l \in Nat : up(k) = up(l) => k = l
  BY <1>1
<1>11. ASSUME NEW k \in 1 .. N + 1, k # m + 1 PROVE \E l \in 1 .. N : up(l) = k
  <2>1. CASE k <= m
    <3>1. k \in 1 .. N /\ up(k) = k
      BY <2>1, <1>1, <1>2
    <3> QED BY <3>1
  <2>2. CASE k > m + 1
    <3>1. k - 1 \in 1 .. N /\ up(k - 1) = k
      BY <2>2, <1>1, <1>2
    <3> QED BY <3>1
  <2> QED BY <2>1, <2>2, <1>1, <1>11
<1>12. \A k \in 1 .. N : t[up(k)] = es[d][k]
  BY <1>1, <1>2
<1> HIDE DEF up
<1>13. ASSUME NEW p \in S PROVE F(p) \in T
  <2>1. PICK e, k : p = <<e, k>> /\ e \in D /\ k \in Nat /\ k \in DOMAIN es[e] /\ es[e][k].inode \in Q
    BY <1>6, <1>8
  <2>2. CASE e = d
    <3>1. k \in 1 .. N /\ F(p) = <<d, up(k)>>
      BY <2>1, <2>2, <1>1, <1>2
    <3>2. up(k) \in DOMAIN fs[d] /\ fs[d][up(k)].inode \in Q
      BY <3>1, <2>1, <2>2, <1>1, <1>2, <1>3, <1>9, <1>12
    <3>3. <<d, up(k)>> # <<d, m + 1>>
      BY <2>1, <1>9
    <3> QED BY <3>1, <3>2, <3>3, <2>1, <2>2, <1>7, <1>9
  <2>3. CASE e # d
    <3>1. F(p) = <<e, k>> /\ <<e, k>> # <<d, m + 1>>
      BY <2>1, <2>3
    <3> QED BY <3>1, <2>1, <2>3, <1>3, <1>7
  <2> QED BY <2>2, <2>3
<1>14. ASSUME NEW p \in S, NEW q \in S, F(p) = F(q) PROVE p = q
  <2>1. PICK e, k : p = <<e, k>> /\ k \in Nat
    BY <1>6, <1>8
  <2>2. PICK g, l : q = <<g, l>> /\ l \in Nat
    BY <1>6, <1>8
  <2>3. F(p) = (IF e = d THEN <<d, up(k)>> ELSE <<e, k>>)
    BY <2>1
  <2>4. F(q) = (IF g = d THEN <<d, up(l)>> ELSE <<g, l>>)
    BY <2>2
  <2>5. e = g
    BY <2>3, <2>4, <1>14
  <2>6. CASE e = d
    <3>1. up(k) = up(l)
      BY <2>3, <2>4, <2>5, <2>6, <1>14
    <3> QED BY <3>1, <2>1, <2>2, <2>5, <1>10
  <2>7. CASE e # d
    BY <2>1, <2>2, <2>3, <2>4, <2>5, <2>7, <1>14
  <2> QED BY <2>6, <2>7
<1>15. ASSUME NEW q \in T PROVE \E p \in S : F(p) = q
  <2>1. PICK e, k : /\ q = <<e, k>> /\ e \in D /\ k \in Nat /\ k \in DOMAIN fs[e]
                    /\ fs[e][k].inode \in Q /\ <<e, k>> # <<d, m + 1>>
    BY <1>7, <1>8
  <2>2. CASE e = d
    <3>1. k \in 1 .. N + 1 /\ k # m + 1
      BY <2>1, <2>2, <1>1, <1>2, <1>3
    <3>2. PICK l \in 1 .. N : up(l) = k
      BY <3>1, <1>11
    <3>3. es[d][l].inode \in Q
      BY <3>2, <2>1, <2>2, <1>3, <1>12
    <3>4. <<d, l>> \in S
      BY <3>3, <2>1, <2>2, <1>1, <1>2, <1>6
    <3>5. F(<<d, l>>) = q
      BY <3>2, <2>1, <2>2
    <3> QED BY <3>4, <3>5
  <2>3. CASE e # d
    <3>1. <<e, k>> \in S /\ F(<<e, k>>) = q
      BY <2>1, <2>3, <1>3, <1>6
    <3> QED BY <3>1
  <2> QED BY <2>2, <2>3
<1> HIDE DEF F
<1>16. f \in [S -> T]
  BY <1>13
<1>17. ExistsBijection(S, T)
  <2>1. f \in Injection(S, T)
    <3>1. \A p, q \in S : f[p] = f[q] => p = q
      BY <1>14
    <3> QED BY <3>1, <1>16 DEF Injection, IsInjective
  <2>2. f \in Surjection(S, T)
    <3>1. \A q \in T : \E p \in S : f[p] = q
      BY <1>15
    <3> QED BY <3>1, <1>16 DEF Surjection
  <2> QED BY <2>1, <2>2 DEF ExistsBijection, Bijection
<1>18. IsFiniteSet(T) /\ Cardinality(T) = Cardinality(S)
  BY <1>4, <1>17, FS_Bijection
<1>19. <<d, m + 1>> \in Pairs(fs, D, Q) <=> d \in D /\ x.inode \in Q
  <2>1. m + 1 \in DOMAIN fs[d] /\ fs[d][m + 1] = x /\ m + 1 \in Nat
    BY <1>1, <1>3
  <2> QED BY <2>1 DEF Pairs
<1>20. Cardinality(T \cup {<<d, m + 1>>}) = Cardinality(T) + 1 /\ IsFiniteSet(T \cup {<<d, m + 1>>})
  <2>1. <<d, m + 1>> \notin T
    BY <1>5
  <2> QED BY <2>1, <1>18, FS_AddElement
<1>21. CASE d \in D /\ x.inode \in Q
  <2>1. Pairs(fs, D, Q) = T \cup {<<d, m + 1>>}
    BY <1>5, <1>19, <1>21
  <2> QED BY <2>1, <1>4, <1>18, <1>20, <1>21 DEF OneMore
<1>22. CASE ~(d \in D /\ x.inode \in Q)
  <2>1. Pairs(fs, D, Q) = T
    BY <1>5, <1>19, <1>22
  <2>2. Cardinality(S) \in Nat
    BY <1>4, FS_CardinalityType
  <2>3. Cardinality(S) + 0 = Cardinality(S)
    BY <2>2
  <2> QED BY <2>1, <2>3, <1>4, <1>18, <1>22 DEF OneMore
<1> QED BY <1>21, <1>22

-----------------------------------------------------------------------------
(* Entering an inode.                                                      *)

\* Elements of a concatenation.
LEMMA Concatenated ==
    ASSUME NEW A, NEW s \in Seq(A), NEW t \in Seq(A)
    PROVE  /\ s \o t \in Seq(A) /\ Len(s \o t) = Len(s) + Len(t)
           /\ \A k \in 1 .. Len(s) : (s \o t)[k] = s[k]
           /\ \A k \in 1 .. Len(t) : (s \o t)[Len(s) + k] = t[k]
  OBVIOUS

\* A set of numbers that has every number below one of its own is an interval.
LEMMA ClosedBelow ==
    ASSUME NEW N \in Nat, NEW T \in SUBSET (1 .. N), \A k \in T : \A j \in 1 .. k : j \in T
    PROVE  \E m \in 0 .. N : T = 1 .. m /\ Cardinality(T) = m
<1> DEFINE U == {k \in 1 .. N + 1 : k \notin T}
<1>1. U \in SUBSET Nat /\ N + 1 \in U
  OBVIOUS
<1>2. PICK u \in U : \A y \in U : u <= y
  BY <1>1, LeastNumber
<1>3. PICK m \in 0 .. N : u = m + 1
  <2>1. u - 1 \in 0 .. N /\ u = (u - 1) + 1
    BY <1>2
  <2> QED BY <2>1
<1>4. ASSUME NEW k \in 1 .. m PROVE k \in T
  <2>1. k \in 1 .. N + 1 /\ k < u
    BY <1>3
  <2> QED BY <2>1, <1>2
<1>5. ASSUME NEW k \in T PROVE k \in 1 .. m
  <2>1. k \in 1 .. N
    OBVIOUS
  <2>2. ~(u <= k)
    <3>1. SUFFICES ASSUME u <= k PROVE FALSE
      OBVIOUS
    <3>2. u \in 1 .. k
      BY <3>1, <2>1, <1>3
    <3> QED BY <3>2, <1>2
  <2> QED BY <2>1, <2>2, <1>3
<1>6. T = 1 .. m
  BY <1>4, <1>5
<1>7. Cardinality(1 .. m) = m
  <2>1. Cardinality(1 .. m) = IF 1 > m THEN 0 ELSE m - 1 + 1
    BY FS_Interval
  <2> QED BY <2>1
<1> QED BY <1>6, <1>7

\* The new entry goes behind the smaller ones.
LEMMA InsertAtFacts ==
    ASSUME TreeTypeOK, SortedInv, NEW d \in Inodes, NEW name \in Names
    PROVE  \E m \in 0 .. Len(entries[d]) :
              /\ InsertAt(d, name) = m + 1
              /\ \A k \in 1 .. m : entries[d][k].name < name
              /\ m < Len(entries[d]) => ~(entries[d][m + 1].name < name)
<1>1. PICK s, N : s = entries[d] /\ N \in Nat /\ N = Len(s) /\ DOMAIN s = 1 .. N
                  /\ \A k \in 1 .. N : s[k].name \in Nat
  BY EntryFacts, NamesAreOrdered
<1>2. name \in Nat
  BY NamesAreOrdered
<1> DEFINE T == {k \in DOMAIN s : \A j \in 1 .. k : s[j].name < name}
<1>3. T \in SUBSET (1 .. N) /\ \A k \in T : \A j \in 1 .. k : j \in T
  BY <1>1
<1>4. InsertAt(d, name) = 1 + Cardinality(T)
  BY <1>1 DEF InsertAt
<1>5. \A k \in 1 .. N : k \in T <=> \A j \in 1 .. k : s[j].name < name
  BY <1>1
<1> HIDE DEF T
<1>6. PICK m \in 0 .. N : T = 1 .. m /\ Cardinality(T) = m
  BY <1>1, <1>3, ClosedBelow
<1>7. ASSUME NEW k \in 1 .. m PROVE s[k].name < name
  BY <1>1, <1>5, <1>6
<1>8. ASSUME m < N PROVE ~(s[m + 1].name < name)
  <2>1. m + 1 \in 1 .. N /\ m + 1 \notin T
    BY <1>1, <1>6, <1>8
  <2>2. PICK j \in 1 .. m + 1 : ~(s[j].name < name)
    BY <2>1, <1>5
  <2>3. j = m + 1
    BY <2>2, <1>6, <1>7
  <2> QED BY <2>2, <2>3
<1> QED BY <1>1, <1>4, <1>6, <1>7, <1>8

\* The list of a directory after an insertion: where the new entry is, that the
\* others keep their order, and that names are in order again.
LEMMA InsertionFacts ==
    ASSUME TreeTypeOK, SortedInv, NEW d \in Inodes, NEW name \in Names, NEW i \in Inodes,
           NEW t, t = EntriesWith(d, name, i)
    PROVE  /\ t \in Seq(Entry) /\ Len(t) = Len(entries[d]) + 1
           /\ \E m \in 0 .. Len(entries[d]) :
                 IsInserted(t, entries[d], m, [name |-> name, inode |-> i])
           /\ \A k \in 1 .. Len(t) - 1 : t[k].name <= t[k + 1].name
<1>1. PICK s : s = entries[d] /\ s \in Seq(Entry)
  BY EntryFacts
<1>2. PICK N \in Nat : N = Len(s) /\ DOMAIN s = 1 .. N
  BY <1>1
<1>3. PICK m \in 0 .. N : /\ InsertAt(d, name) = m + 1
                          /\ \A k \in 1 .. m : s[k].name < name
                          /\ m < N => ~(s[m + 1].name < name)
  BY <1>1, <1>2, InsertAtFacts
<1>4. PICK x : x = [name |-> name, inode |-> i] /\ x \in Entry
  <2>1. [name |-> name, inode |-> i] \in Entry
    BY Zenon DEF Entry
  <2> QED BY <2>1
<1>5. PICK a, b : a = SubSeq(s, 1, m) /\ b = SubSeq(s, m + 1, N)
  OBVIOUS
<1>6. a \in Seq(Entry) /\ Len(a) = m /\ \A k \in 1 .. m : a[k] = s[k]
  BY <1>1, <1>2, <1>5
<1>7. b \in Seq(Entry) /\ Len(b) = N - m /\ \A k \in 1 .. N - m : b[k] = s[m + k]
  BY <1>1, <1>2, <1>5
<1>8. t = a \o <<x>> \o b
  <2>1. InsertAt(d, name) - 1 = m
    BY <1>3
  <2> QED BY <2>1, <1>1, <1>2, <1>3, <1>4, <1>5 DEF EntriesWith
<1>9. PICK c : c = a \o <<x>>
  OBVIOUS
<1>10. c \in Seq(Entry) /\ Len(c) = m + 1 /\ c[m + 1] = x /\ \A k \in 1 .. m : c[k] = s[k]
  BY <1>4, <1>6, <1>9
<1>11. t \in Seq(Entry) /\ Len(t) = N + 1
  <2>1. t = c \o b
    BY <1>8, <1>9
  <2>2. t \in Seq(Entry) /\ Len(t) = Len(c) + Len(b)
    <3>1. c \in Seq(Entry) /\ b \in Seq(Entry)
      BY <1>7, <1>10
    <3>2. c \o b \in Seq(Entry) /\ Len(c \o b) = Len(c) + Len(b)
      BY <3>1, Concatenated, Zenon
    <3> QED BY <2>1, <3>2, Zenon
  <2>3. (m + 1) + (N - m) = N + 1
    OBVIOUS
  <2> QED BY <2>2, <2>3, <1>7, <1>10
<1>12. t[m + 1] = x
  BY <1>7, <1>8, <1>9, <1>10
<1>13. ASSUME NEW k \in 1 .. m PROVE t[k] = s[k]
  <2>1. k \in 1 .. m + 1
    OBVIOUS
  <2>2. t[k] = c[k]
    BY <2>1, <1>7, <1>8, <1>9, <1>10
  <2> QED BY <2>2, <1>10
<1>14. ASSUME NEW k \in m + 1 .. N PROVE t[k + 1] = s[k]
  <2>1. k - m \in 1 .. N - m /\ k + 1 = (m + 1) + (k - m) /\ m + (k - m) = k
    OBVIOUS
  <2>2. t[(m + 1) + (k - m)] = b[k - m]
    BY <2>1, <1>7, <1>8, <1>9, <1>10, SMTT(20)
  <2>3. b[k - m] = s[m + (k - m)]
    BY <2>1, <1>7
  <2> QED BY <2>1, <2>2, <2>3
<1>15. IsInserted(t, s, m, x)
  <2>1. DOMAIN t = 1 .. N + 1
    BY <1>11
  <2>2. ASSUME NEW k \in 1 .. N PROVE t[IF k > m THEN k + 1 ELSE k] = s[k]
    <3>1. CASE k > m
      <4>1. k \in m + 1 .. N
        BY <3>1
      <4> QED BY <4>1, <3>1, <1>14
    <3>2. CASE ~(k > m)
      <4>1. k \in 1 .. m
        BY <3>2
      <4> QED BY <4>1, <3>2, <1>13
    <3> QED BY <3>1, <3>2
  <2> QED BY <2>1, <2>2, <1>2, <1>12 DEF IsInserted
<1>16. ASSUME NEW k \in 1 .. N PROVE t[k].name <= t[k + 1].name
  <2>1. name \in Nat /\ (\A j \in 1 .. N : s[j].name \in Nat) /\ x.name = name
    <3>1. \A j \in 1 .. N : s[j] \in Entry
      BY <1>1, <1>2
    <3> QED BY <3>1, <1>4, NamesAreOrdered DEF Entry
  <2>2. CASE k < m
    <3>1. k \in 1 .. m /\ k + 1 \in 1 .. m /\ k \in 1 .. N - 1
      BY <2>2
    <3>2. s[k].name <= s[k + 1].name
      BY <3>1, <1>1, <1>2 DEF SortedInv
    <3> QED BY <3>1, <3>2, <1>13
  <2>3. CASE k = m
    <3>1. k \in 1 .. m /\ s[k].name < name
      BY <2>3, <1>3
    <3> QED BY <3>1, <2>1, <2>3, <1>12, <1>13
  <2>4. CASE k = m + 1
    <3>1. t[k] = x /\ t[k + 1] = s[k]
      BY <2>4, <1>12, <1>14
    <3>2. ~(s[m + 1].name < name)
      BY <2>4, <1>3
    <3> QED BY <3>1, <3>2, <2>1, <2>4
  <2>5. CASE k > m + 1
    <3>1. k \in m + 1 .. N /\ k - 1 \in m + 1 .. N /\ (k - 1) + 1 = k /\ k - 1 \in 1 .. N - 1
      BY <2>5
    <3>2. t[(k - 1) + 1] = s[k - 1] /\ t[k + 1] = s[k]
      BY <3>1, <1>14
    <3>3. s[k - 1].name <= s[(k - 1) + 1].name
      BY <3>1, <1>1, <1>2 DEF SortedInv
    <3> QED BY <3>1, <3>2, <3>3
  <2> QED BY <2>2, <2>3, <2>4, <2>5
<1> QED BY <1>1, <1>2, <1>4, <1>11, <1>15, <1>16

\* The directories.
Dirs == {i \in Inodes : kind[i] = "dir"}

\* Links can be counted.
LinksFinite == \A i \in Inodes : IsFiniteSet(Links(i)) /\ IsFiniteSet(Subdirectories(i))

\* The inductive invariant.
IInv == TreeInv /\ LinkCounts /\ LinksFinite

\* The links of an inode are pairs.
LEMMA LinksArePairs ==
    ASSUME TreeTypeOK, NEW i \in Inodes
    PROVE  Links(i) = Pairs(entries, Inodes, {i}) /\ Subdirectories(i) = Pairs(entries, {i}, Dirs)
<1>1. \A d \in Inodes : DOMAIN entries[d] \subseteq Nat
  BY EntryFacts
<1>2. Links(i) = Pairs(entries, Inodes, {i})
  BY <1>1, PairsAre, Zenon DEF Links, Entered
<1>3. \A d \in {i} : DOMAIN entries[d] \subseteq Nat
  BY <1>1
<1>4. Subdirectories(i) = Pairs(entries, {i}, Dirs)
  BY <1>3, PairsAre, Zenon DEF Subdirectories, Entered, Dirs
<1> QED BY <1>2, <1>4

\* Entries are lists after a step, too.
LEMMA EntriesAreLists ==
    ASSUME TreeTypeOK'
    PROVE  \A d \in Inodes' : DOMAIN entries'[d] \subseteq Nat /\ entries'[d] \in Seq(Entry')
<1>1. Len(entries') = Len(kind') /\ entries' \in Seq(Seq(Entry')) /\ Len(kind') \in Nat
  BY DEF TreeTypeOK
<1>2. \A d \in 1 .. Len(kind') : entries'[d] \in Seq(Entry')
  BY <1>1
<1>3. \A d \in 1 .. Len(kind') : DOMAIN entries'[d] \subseteq Nat
  BY <1>2
<1> QED BY <1>2, <1>3 DEF Inodes

\* The links of an inode are pairs after a step, too.
LEMMA LinksArePairsNext ==
    ASSUME TreeTypeOK', NEW i \in Inodes'
    PROVE  /\ Links(i)' = Pairs(entries', Inodes', {i})
           /\ Subdirectories(i)' = Pairs(entries', {i}, Dirs')
<1>1. \A d \in Inodes' : DOMAIN entries'[d] \subseteq Nat
  BY EntriesAreLists
<1>2. Links(i)' = Pairs(entries', Inodes', {i})
  BY <1>1, PairsAre, Zenon DEF Links, Entered
<1>3. \A d \in {i} : DOMAIN entries'[d] \subseteq Nat
  BY <1>1
<1>4. Subdirectories(i)' = Pairs(entries', {i}, Dirs')
  BY <1>3, PairsAre, Zenon DEF Subdirectories, Entered, Dirs
<1> QED BY <1>2, <1>4

\* While the tree is built, nothing is on disk.
LEMMA NothingOnDisk ==
    ASSUME BuildInv, phase = "build", phase' = "build", inodeTable' = inodeTable,
           dirTable' = dirTable, stack' = stack, \A i \in Inodes' : etype'[i] = "none"
    PROVE  BuildInv' /\ StackInv' /\ RecordInv' /\ ListingInv'
<1>1. inodeTable' = {} /\ dirTable' = <<>> /\ stack' = <<>>
  BY DEF BuildInv
<1>2. BuildInv'
  BY <1>1 DEF BuildInv
<1>3. StackInv'
  BY DEF StackInv
<1>4. RecordInv'
  BY <1>1 DEF RecordInv
<1>5. ListingInv'
  BY <1>1 DEF ListingInv, DirectoriesOnDisk
<1> QED BY <1>2, <1>3, <1>4, <1>5

\* The empty tree satisfies the invariant.
LEMMA InitIInv == Init => IInv
<1> SUFFICES ASSUME Init PROVE IInv
  OBVIOUS
<1>1. /\ kind = <<>> /\ xattr = <<>> /\ nlink = <<>> /\ parent = <<>> /\ entries = <<>>
      /\ root = 0 /\ oom = FALSE /\ etype = <<>> /\ place = <<>>
      /\ inodeTable = {} /\ inodeSize = 0 /\ dirTable = <<>> /\ dirSize = 0
      /\ phase = "build" /\ stack = <<>>
  BY DEF Init
<1>2. Inodes = {}
  BY <1>1 DEF Inodes
<1>3. TreeTypeOK
  <2>1. Len(kind) = 0 /\ Len(kind) <= MaxInodes
    BY <1>1, TreeBounds
  <2>2. /\ kind \in Seq(Kinds) /\ xattr \in Seq(BOOLEAN) /\ nlink \in Seq(Nat)
        /\ parent \in Seq(0 .. Len(kind)) /\ entries \in Seq(Seq(Entry))
        /\ etype \in Seq({"none", "short", "long"}) /\ place \in Seq(Nat \cup {-1})
        /\ dirTable \in Seq(Item) /\ stack \in Seq([dir : Inodes, next : Nat \ {0}])
    BY <1>1
  <2>3. /\ Len(xattr) = Len(kind) /\ Len(nlink) = Len(kind) /\ Len(parent) = Len(kind)
        /\ Len(entries) = Len(kind) /\ Len(etype) = Len(kind) /\ Len(place) = Len(kind)
        /\ root \in 0 .. Len(kind) /\ inodeSize \in Nat /\ dirSize \in Nat
        /\ phase \in {"build", "serialize", "serialized", "failed"}
    BY <1>1
  <2>5. oom \in BOOLEAN
    BY <1>1
  <2>4. \A n \in DOMAIN stack : stack[n].next <= Len(entries[stack[n].dir]) + 1
    BY <1>1
  <2> QED BY <2>1, <2>2, <2>3, <2>4, <2>5, <1>1 DEF TreeTypeOK
<1>4. LinkCounts /\ LinksFinite /\ SortedInv
  BY <1>2 DEF LinkCounts, LinksFinite, SortedInv
<1>5. ParentInv
  BY <1>1, <1>2 DEF ParentInv
<1>6. BuildInv
  BY <1>1, <1>2 DEF BuildInv
<1>7. StackInv
  BY <1>1 DEF StackInv
<1>8. RecordInv
  BY <1>1, <1>2 DEF RecordInv
<1>9. ListingInv
  BY <1>1 DEF ListingInv, DirectoriesOnDisk
<1> QED BY <1>3, <1>4, <1>5, <1>6, <1>7, <1>8, <1>9 DEF IInv, TreeInv

\* libsqfs_image_set_root keeps the invariant: the root gets a link for the image.
LEMMA SetRootKeeps ==
    ASSUME IInv, NEW d \in Inodes, SetRoot(d)
    PROVE  IInv'
<1>1. TreeTypeOK /\ TreeInv
  BY DEF IInv, TreeInv
<1>2. /\ phase = "build" /\ root = 0 /\ kind[d] = "dir" /\ root' = d
      /\ nlink' = [nlink EXCEPT ![d] = @ + 1]
      /\ kind' = kind /\ xattr' = xattr /\ parent' = parent /\ entries' = entries /\ oom' = oom
      /\ etype' = etype /\ place' = place /\ inodeTable' = inodeTable /\ inodeSize' = inodeSize
      /\ dirTable' = dirTable /\ dirSize' = dirSize /\ phase' = phase /\ stack' = stack
  BY DEF SetRoot, tableVars, runVars
<1>3. Inodes' = Inodes /\ Entry' = Entry /\ Dirs' = Dirs
  BY <1>2 DEF Inodes, Entry, Dirs
<1>4. nlink' \in Seq(Nat) /\ Len(nlink') = Len(kind')
  BY <1>1, <1>2 DEF TreeTypeOK, Inodes
<1>5. root' \in 0 .. Len(kind')
  BY <1>1, <1>2 DEF TreeTypeOK, Inodes
<1>6. TreeTypeOK'
  BY <1>1, <1>2, <1>3, <1>4, <1>5 DEF TreeTypeOK, Item
<1>7. SortedInv' /\ ParentInv'
  BY <1>1, <1>2, <1>3 DEF TreeInv, SortedInv, ParentInv
<1>8. \A i \in Inodes : Links(i)' = Links(i) /\ Subdirectories(i)' = Subdirectories(i)
  BY <1>2, <1>3 DEF Links, Subdirectories, Entered
<1>9. LinksFinite'
  BY <1>3, <1>8 DEF LinksFinite, IInv
<1>10. LinkCounts'
  <2> SUFFICES ASSUME NEW i \in Inodes
               PROVE  IF oom /\ kind[i] = "dir" THEN nlink'[i] >= LinkCount(i)'
                      ELSE nlink'[i] = LinkCount(i)'
    BY <1>2, <1>3 DEF LinkCounts
  <2>1. PICK c \in Nat : c = Cardinality(Links(i)) + Cardinality(Subdirectories(i))
    BY FS_CardinalityType DEF IInv, LinksFinite
  <2>2. LinkCount(i) = c + (IF i = root THEN 1 ELSE 0)
    BY <2>1 DEF LinkCount
  <2>3. i # 0 /\ nlink[i] \in Nat
    BY <1>1, InodeFacts
  <2>4. LinkCount(i) = c
    BY <2>2, <2>3, <1>2
  <2>5. IF oom /\ kind[i] = "dir" THEN nlink[i] >= c ELSE nlink[i] = c
    BY <2>4 DEF IInv, LinkCounts
  <2>6. LinkCount(i)' = c + (IF i = d THEN 1 ELSE 0)
    BY <2>1, <1>2, <1>8 DEF LinkCount
  <2>7. nlink'[i] = nlink[i] + (IF i = d THEN 1 ELSE 0)
    <3>1. nlink \in Seq(Nat) /\ i \in DOMAIN nlink /\ d \in DOMAIN nlink
      BY <1>1, SMTT(20) DEF TreeTypeOK, Inodes
    <3> QED BY <3>1, <2>3, <1>2
  <2> QED BY <2>3, <2>5, <2>6, <2>7
<1>11. \A i \in Inodes' : etype'[i] = "none"
  BY <1>1, <1>2, <1>3 DEF TreeInv, BuildInv
<1>12. BuildInv' /\ StackInv' /\ RecordInv' /\ ListingInv'
  BY <1>1, <1>2, <1>11, NothingOnDisk DEF TreeInv
<1> QED BY <1>6, <1>7, <1>9, <1>10, <1>12 DEF IInv, TreeInv

\* Elements of a sequence with one more.
LEMMA Appended ==
    ASSUME NEW A, NEW s \in Seq(A), NEW x \in A
    PROVE  /\ Append(s, x) \in Seq(A) /\ Len(Append(s, x)) = Len(s) + 1
           /\ Append(s, x)[Len(s) + 1] = x
           /\ \A k \in 1 .. Len(s) : Append(s, x)[k] = s[k]
  OBVIOUS

\* A sequence of elements of a set is one of elements of a larger set.
LEMMA WiderSeq ==
    ASSUME NEW A, NEW B, A \subseteq B, NEW s \in Seq(A)
    PROVE  s \in Seq(B)
  OBVIOUS

\* libsqfs_inode_init keeps the invariant: the new inode has no links.
LEMMA CreateInodeKeeps ==
    ASSUME IInv, NEW m \in Makes, CreateInode(m)
    PROVE  IInv'
<1>1. TreeTypeOK /\ TreeInv
  BY DEF IInv, TreeInv
<1>2. /\ phase = "build" /\ Len(kind) < MaxInodes
      /\ kind' = Append(kind, m.kind) /\ xattr' = Append(xattr, m.xattr)
      /\ nlink' = Append(nlink, 0) /\ parent' = Append(parent, 0) /\ entries' = Append(entries, <<>>)
      /\ etype' = Append(etype, "none") /\ place' = Append(place, -1)
      /\ root' = root /\ oom' = oom /\ inodeTable' = inodeTable /\ inodeSize' = inodeSize
      /\ dirTable' = dirTable /\ dirSize' = dirSize /\ phase' = phase /\ stack' = stack
  BY DEF CreateInode, runVars
<1>3. PICK n \in Nat : n = Len(kind)
  BY <1>1 DEF TreeTypeOK
<1>4. m.kind \in Kinds /\ m.xattr \in BOOLEAN
  BY MakesAreInodes
<1>5. /\ kind \in Seq(Kinds) /\ xattr \in Seq(BOOLEAN) /\ Len(xattr) = n
      /\ nlink \in Seq(Nat) /\ Len(nlink) = n
      /\ parent \in Seq(0 .. n) /\ Len(parent) = n
      /\ entries \in Seq(Seq(Entry)) /\ Len(entries) = n
      /\ etype \in Seq({"none", "short", "long"}) /\ Len(etype) = n
      /\ place \in Seq(Nat \cup {-1}) /\ Len(place) = n
      /\ root \in 0 .. n /\ oom \in BOOLEAN /\ inodeSize \in Nat /\ dirSize \in Nat
      /\ dirTable \in Seq(Item)
      /\ phase \in {"build", "serialize", "serialized", "failed"}
  BY <1>1, <1>3 DEF TreeTypeOK
<1>6. kind' \in Seq(Kinds) /\ Len(kind') = n + 1 /\ kind'[n + 1] = m.kind
      /\ \A i \in 1 .. n : kind'[i] = kind[i]
  BY <1>2, <1>3, <1>4, <1>5, Appended
<1>7. Inodes = 1 .. n /\ Inodes' = 1 .. n + 1
  BY <1>3, <1>6 DEF Inodes
<1>8. Entry \subseteq Entry'
  BY <1>7 DEF Entry
<1>9. xattr' \in Seq(BOOLEAN) /\ Len(xattr') = n + 1
  BY <1>2, <1>4, <1>5, Appended
<1>10. /\ nlink' \in Seq(Nat) /\ Len(nlink') = n + 1 /\ nlink'[n + 1] = 0
       /\ \A i \in 1 .. n : nlink'[i] = nlink[i]
  <2>1. 0 \in Nat /\ nlink \in Seq(Nat)
    BY <1>5
  <2>2. /\ Append(nlink, 0) \in Seq(Nat) /\ Len(Append(nlink, 0)) = Len(nlink) + 1
        /\ Append(nlink, 0)[Len(nlink) + 1] = 0
        /\ \A i \in 1 .. Len(nlink) : Append(nlink, 0)[i] = nlink[i]
    BY <2>1, Appended
  <2> QED BY <2>2, <1>2, <1>5
<1>11. /\ parent' \in Seq(0 .. n + 1) /\ Len(parent') = n + 1 /\ parent'[n + 1] = 0
       /\ \A i \in 1 .. n : parent'[i] = parent[i]
  <2>1. 0 .. n \subseteq 0 .. n + 1
    OBVIOUS
  <2>2. parent \in Seq(0 .. n + 1) /\ 0 \in 0 .. n + 1
    BY <1>5, <2>1, WiderSeq
  <2> QED BY <1>2, <1>5, <2>2, Appended
<1>12. /\ entries' \in Seq(Seq(Entry')) /\ Len(entries') = n + 1 /\ entries'[n + 1] = <<>>
       /\ \A i \in 1 .. n : entries'[i] = entries[i]
  <2>1. Seq(Entry) \subseteq Seq(Entry')
    BY <1>8, WiderSeq
  <2>2. entries \in Seq(Seq(Entry'))
    BY <1>5, <2>1, WiderSeq
  <2>3. <<>> \in Seq(Entry')
    OBVIOUS
  <2>4. /\ Append(entries, <<>>) \in Seq(Seq(Entry')) /\ Len(Append(entries, <<>>)) = Len(entries) + 1
        /\ Append(entries, <<>>)[Len(entries) + 1] = <<>>
        /\ \A i \in 1 .. Len(entries) : Append(entries, <<>>)[i] = entries[i]
    BY <2>2, <2>3, Appended
  <2> QED BY <2>4, <1>2, <1>5
<1>13. /\ etype' \in Seq({"none", "short", "long"}) /\ Len(etype') = n + 1
       /\ etype'[n + 1] = "none" /\ \A i \in 1 .. n : etype'[i] = etype[i]
  <2>1. "none" \in {"none", "short", "long"} /\ etype \in Seq({"none", "short", "long"})
    BY <1>5
  <2>2. /\ Append(etype, "none") \in Seq({"none", "short", "long"}) /\ Len(Append(etype, "none")) = Len(etype) + 1
        /\ Append(etype, "none")[Len(etype) + 1] = "none"
        /\ \A i \in 1 .. Len(etype) : Append(etype, "none")[i] = etype[i]
    BY <2>1, Appended
  <2> QED BY <2>2, <1>2, <1>5
<1>14. place' \in Seq(Nat \cup {-1}) /\ Len(place') = n + 1
  <2>1. -1 \in Nat \cup {-1}
    OBVIOUS
  <2> QED BY <2>1, <1>2, <1>5, Appended
<1>15. stack' = <<>> /\ Len(kind') <= MaxInodes
  BY <1>1, <1>2, <1>3, <1>6, TreeBounds DEF TreeInv, BuildInv
<1>16. TreeTypeOK'
  <2>1. stack' \in Seq([dir : Inodes', next : Nat \ {0}])
        /\ \A j \in DOMAIN stack' : stack'[j].next <= Len(entries'[stack'[j].dir]) + 1
    BY <1>15
  <2>2. dirTable' \in Seq(Item')
    BY <1>2, <1>5 DEF Item
  <2>3. root' \in 0 .. Len(kind')
    BY <1>2, <1>5, <1>6
  <2>4. parent' \in Seq(0 .. Len(kind')) /\ Len(parent') = Len(kind')
    BY <1>6, <1>11
  <2>5. /\ Len(xattr') = Len(kind') /\ Len(nlink') = Len(kind') /\ Len(entries') = Len(kind')
        /\ Len(etype') = Len(kind') /\ Len(place') = Len(kind')
    BY <1>6, <1>9, <1>10, <1>12, <1>13, <1>14
  <2>6. oom' \in BOOLEAN /\ inodeSize' \in Nat /\ dirSize' \in Nat
        /\ phase' \in {"build", "serialize", "serialized", "failed"}
    BY <1>2, <1>5
  <2> QED BY <2>1, <2>2, <2>3, <2>4, <2>5, <2>6, <1>6, <1>9, <1>10, <1>12, <1>13, <1>14, <1>15
          DEF TreeTypeOK
<1>17. SortedInv'
  <2> SUFFICES ASSUME NEW d \in 1 .. n + 1, NEW k \in 1 .. Len(entries'[d]) - 1
               PROVE  entries'[d][k].name <= entries'[d][k + 1].name
    BY <1>7 DEF SortedInv
  <2>1. CASE d = n + 1
    BY <2>1, <1>12
  <2>2. CASE d \in 1 .. n
    BY <2>2, <1>1, <1>7, <1>12 DEF TreeInv, SortedInv
  <2> QED BY <2>1, <2>2
<1>18. ParentInv'
  <2>1. ASSUME NEW d \in 1 .. n + 1, NEW k \in DOMAIN entries'[d]
        PROVE  kind'[d] = "dir"
               /\ (kind'[entries'[d][k].inode] = "dir" => parent'[entries'[d][k].inode] = d)
    <3>1. d \in 1 .. n
      <4>1. entries'[n + 1] = <<>>
        BY <1>12
      <4>2. DOMAIN entries'[n + 1] = {}
        BY <4>1
      <4> QED BY <4>2
    <3>2. PICK e : e = entries[d][k] /\ e = entries'[d][k] /\ e.inode \in 1 .. n /\ k \in DOMAIN entries[d]
      BY <3>1, <1>1, <1>7, <1>12, EntryFacts
    <3>3. \A a \in Inodes : \A b \in DOMAIN entries[a] :
             kind[a] = "dir" /\ (kind[entries[a][b].inode] = "dir" => parent[entries[a][b].inode] = a)
      BY <1>1 DEF TreeInv, ParentInv
    <3>4. kind[d] = "dir" /\ (kind[e.inode] = "dir" => parent[e.inode] = d)
      BY <3>1, <3>2, <3>3, <1>7
    <3> QED BY <3>1, <3>2, <3>4, <1>6, <1>11
  <2>2. ASSUME NEW S \in SUBSET (1 .. n + 1), S # {} PROVE \E x \in S : parent'[x] \notin S
    <3>1. CASE n + 1 \in S
      <4>1. 0 \notin S
        OBVIOUS
      <4> QED BY <3>1, <4>1, <1>11
    <3>2. CASE n + 1 \notin S
      <4>1. S \in SUBSET (1 .. n)
        BY <3>2
      <4>2. PICK x \in S : parent[x] \notin S
        BY <4>1, <2>2, <1>1, <1>7 DEF TreeInv, ParentInv
      <4> QED BY <4>1, <4>2, <1>11
    <3> QED BY <3>1, <3>2
  <2>3. root' # 0 => kind'[root'] = "dir"
    BY <1>1, <1>2, <1>5, <1>6 DEF TreeInv, ParentInv
  <2> QED BY <2>1, <2>2, <2>3, <1>7 DEF ParentInv
<1>19. ASSUME NEW i \in 1 .. n
       PROVE  Links(i)' = Links(i) /\ Subdirectories(i)' = Subdirectories(i)
  <2>1. /\ Links(i)' = Pairs(entries', Inodes', {i})
        /\ Subdirectories(i)' = Pairs(entries', {i}, Dirs')
    BY <1>7, <1>16, LinksArePairsNext
  <2>2. Links(i) = Pairs(entries, Inodes, {i}) /\ Subdirectories(i) = Pairs(entries, {i}, Dirs)
    BY <1>1, <1>7, LinksArePairs
  <2>3. Pairs(entries', Inodes', {i}) = Pairs(entries, Inodes, {i})
    <3>1. DOMAIN entries'[n + 1] = {}
      <4>1. entries'[n + 1] = <<>>
        BY <1>12
      <4> QED BY <4>1
    <3>2. \A d, k : <<d, k>> \in Pairs(entries', Inodes', {i}) <=>
             d \in 1 .. n + 1 /\ k \in Nat /\ k \in DOMAIN entries'[d] /\ entries'[d][k].inode \in {i}
      BY <1>7 DEF Pairs
    <3>3. \A d, k : <<d, k>> \in Pairs(entries, Inodes, {i}) <=>
             d \in 1 .. n /\ k \in Nat /\ k \in DOMAIN entries[d] /\ entries[d][k].inode \in {i}
      BY <1>7 DEF Pairs
    <3>4. \A d, k : <<d, k>> \in Pairs(entries', Inodes', {i}) <=> <<d, k>> \in Pairs(entries, Inodes, {i})
      <4>1. SUFFICES ASSUME NEW d, NEW k
                     PROVE  <<d, k>> \in Pairs(entries', Inodes', {i})
                                <=> <<d, k>> \in Pairs(entries, Inodes, {i})
        OBVIOUS
      <4>2. CASE d \in 1 .. n
        <5>1. entries'[d] = entries[d] /\ d \in 1 .. n + 1
          BY <4>2, <1>12
        <5> QED BY <4>2, <5>1, <3>2, <3>3
      <4>3. CASE d = n + 1
        <5>1. d \notin 1 .. n /\ DOMAIN entries'[d] = {}
          BY <4>3, <3>1
        <5>2. ~(<<d, k>> \in Pairs(entries, Inodes, {i}))
          BY <5>1, <3>3, Zenon
        <5>3. ~(<<d, k>> \in Pairs(entries', Inodes', {i}))
          BY <5>1, <3>2, Zenon
        <5> QED BY <5>2, <5>3
      <4>4. CASE d \notin 1 .. n + 1
        <5>1. d \notin 1 .. n
          BY <4>4
        <5> QED BY <4>4, <5>1, <3>2, <3>3
      <4> QED BY <4>2, <4>3, <4>4
    <3>5. (\A p \in Pairs(entries', Inodes', {i}) : p = <<p[1], p[2]>>)
          /\ (\A p \in Pairs(entries, Inodes, {i}) : p = <<p[1], p[2]>>)
      BY DEF Pairs
    <3>6. ASSUME NEW p \in Pairs(entries', Inodes', {i}) PROVE p \in Pairs(entries, Inodes, {i})
      BY <3>4, <3>5
    <3>7. ASSUME NEW p \in Pairs(entries, Inodes, {i}) PROVE p \in Pairs(entries', Inodes', {i})
      BY <3>4, <3>5
    <3> QED BY <3>6, <3>7
  <2>4. Pairs(entries', {i}, Dirs') = Pairs(entries, {i}, Dirs)
    <3>1. entries'[i] = entries[i]
      BY <1>12
    <3>2. ASSUME NEW k \in DOMAIN entries[i]
          PROVE  entries[i][k].inode \in Dirs' <=> entries[i][k].inode \in Dirs
      <4>1. entries[i][k].inode \in 1 .. n
        BY <1>1, <1>7, EntryFacts
      <4> QED BY <4>1, <1>6, <1>7 DEF Dirs
    <3> QED BY <3>1, <3>2 DEF Pairs
  <2> QED BY <2>1, <2>2, <2>3, <2>4
<1>20. Links(n + 1)' = {} /\ Subdirectories(n + 1)' = {}
  <2>1. n + 1 \in Inodes'
    BY <1>7
  <2>2. /\ Links(n + 1)' = Pairs(entries', Inodes', {n + 1})
        /\ Subdirectories(n + 1)' = Pairs(entries', {n + 1}, Dirs')
    BY <2>1, <1>16, LinksArePairsNext
  <2>3. entries'[n + 1] = <<>>
    BY <1>12
  <2>4. DOMAIN entries'[n + 1] = {}
    BY <2>3
  <2>5. ASSUME NEW d \in 1 .. n, NEW k \in DOMAIN entries'[d] PROVE entries'[d][k].inode # n + 1
    <3>1. entries'[d] = entries[d] /\ entries[d][k].inode \in 1 .. n
      BY <1>1, <1>7, <1>12, EntryFacts
    <3> QED BY <3>1
  <2>6. Pairs(entries', Inodes', {n + 1}) = {}
    BY <2>4, <2>5, <1>7 DEF Pairs
  <2>7. Pairs(entries', {n + 1}, Dirs') = {}
    BY <2>4 DEF Pairs
  <2> QED BY <2>2, <2>6, <2>7
<1>21. LinksFinite'
  <2> SUFFICES ASSUME NEW i \in 1 .. n + 1
               PROVE  IsFiniteSet(Links(i)') /\ IsFiniteSet(Subdirectories(i)')
    BY <1>7 DEF LinksFinite
  <2>1. CASE i = n + 1
    BY <2>1, <1>20, FS_EmptySet
  <2>2. CASE i \in 1 .. n
    BY <2>2, <1>7, <1>19 DEF IInv, LinksFinite
  <2> QED BY <2>1, <2>2
<1>22. LinkCounts'
  <2> SUFFICES ASSUME NEW i \in 1 .. n + 1
               PROVE  IF oom' /\ kind'[i] = "dir" THEN nlink'[i] >= LinkCount(i)'
                      ELSE nlink'[i] = LinkCount(i)'
    BY <1>7 DEF LinkCounts
  <2>1. CASE i = n + 1
    <3>1. LinkCount(i)' = 0 + 0 + 0
      <4>1. i # root'
        BY <2>1, <1>2, <1>5
      <4>2. Cardinality(Links(i)') = 0 /\ Cardinality(Subdirectories(i)') = 0
        BY <2>1, <1>20, FS_EmptySet
      <4> QED BY <4>1, <4>2 DEF LinkCount
    <3> QED BY <2>1, <3>1, <1>10
  <2>2. CASE i \in 1 .. n
    <3>1. LinkCount(i)' = LinkCount(i)
      BY <2>2, <1>2, <1>19 DEF LinkCount
    <3> QED BY <2>2, <3>1, <1>2, <1>6, <1>7, <1>10 DEF IInv, LinkCounts
  <2> QED BY <2>1, <2>2
<1>23. \A i \in Inodes' : etype'[i] = "none"
  BY <1>1, <1>2, <1>7, <1>13 DEF TreeInv, BuildInv
<1>24. BuildInv' /\ StackInv' /\ RecordInv' /\ ListingInv'
  BY <1>1, <1>2, <1>23, NothingOnDisk DEF TreeInv
<1> QED BY <1>16, <1>17, <1>18, <1>21, <1>22, <1>24 DEF IInv, TreeInv

\* A directory is not put below itself: with its new parent, going up still ends.
Rooted(p, d, i) ==
    /\ d # i /\ p \in Seq(0 .. Len(kind)) /\ Len(p) = Len(kind)
    /\ kind[i] = "dir" => p[i] = d
    /\ \A e \in Inodes : \A k \in DOMAIN entries[e] :
          kind[entries[e][k].inode] = "dir" => p[entries[e][k].inode] = e
    /\ \A S \in SUBSET Inodes : S # {} => \E x \in S : p[x] \notin S

\* Entering a directory that is not above its new parent makes no cycle.
LEMMA ParentKept ==
    ASSUME IInv, NEW d \in Inodes, NEW i \in Inodes, MayAdd(d, i),
           NEW p, p = IF kind[i] = "dir" THEN [parent EXCEPT ![i] = d] ELSE parent
    PROVE  Rooted(p, d, i)
<1>1. TreeTypeOK /\ ParentInv
  BY DEF IInv, TreeInv
<1>2. kind[d] = "dir" /\ (kind[i] = "dir" => parent[i] = 0 /\ ~IsAbove(i, d))
  BY DEF MayAdd
<1>3. PICK n \in Nat : n = Len(kind) /\ Inodes = 1 .. n /\ parent \in Seq(0 .. n) /\ Len(parent) = n
  BY <1>1 DEF TreeTypeOK, Inodes
<1>4. d # i
  BY <1>2 DEF IsAbove
<1>5. p \in Seq(0 .. n) /\ Len(p) = n /\ (kind[i] = "dir" => p[i] = d)
      /\ (\A x \in 1 .. n : x # i \/ kind[i] # "dir" => p[x] = parent[x])
  <2>1. CASE kind[i] = "dir"
    <3>1. p = [parent EXCEPT ![i] = d]
      BY <2>1
    <3>2. d \in 0 .. n /\ i \in 1 .. n
      BY <1>3
    <3> QED BY <3>1, <3>2, <2>1, <1>3
  <2>2. CASE kind[i] # "dir"
    BY <2>2, <1>3
  <2> QED BY <2>1, <2>2
<1>6. \A e \in Inodes : \A k \in DOMAIN entries[e] :
         kind[entries[e][k].inode] = "dir" => parent[entries[e][k].inode] = e
  BY <1>1 DEF ParentInv
<1>7. ASSUME NEW e \in Inodes, NEW k \in DOMAIN entries[e], kind[entries[e][k].inode] = "dir"
      PROVE  p[entries[e][k].inode] = e
  <2>1. PICK j \in 1 .. n : j = entries[e][k].inode
    BY <1>1, <1>3, EntryFacts
  <2>2. parent[j] = e
    BY <2>1, <1>6, <1>7
  <2>3. e # 0
    BY <1>3
  <2>4. j # i
    BY <2>1, <2>2, <2>3, <1>2, <1>7
  <2> QED BY <2>1, <2>2, <2>4, <1>5
<1>8. ASSUME NEW S \in SUBSET Inodes, S # {} PROVE \E x \in S : p[x] \notin S
  <2> SUFFICES ASSUME \A x \in S : p[x] \in S PROVE FALSE
    OBVIOUS
  <2>1. \A R \in SUBSET Inodes : R # {} => \E x \in R : parent[x] \notin R
    BY <1>1 DEF ParentInv
  <2>2. PICK x \in S : parent[x] \notin S
    BY <2>1, <1>8
  <2>3. x = i /\ kind[i] = "dir"
    BY <2>2, <1>3, <1>5
  <2>4. d \in S
    BY <2>3, <1>5
  <2>5. PICK T \in SUBSET Inodes : d \in T /\ HasParents(T) /\ i \notin T
    BY <2>3, <1>2 DEF IsAbove
  <2>6. S \cap T \in SUBSET Inodes /\ S \cap T # {}
    BY <2>4, <2>5
  <2>7. PICK y \in S \cap T : parent[y] \notin S \cap T
    BY <2>1, <2>6
  <2>8. p[y] = parent[y] /\ parent[y] \in S
    BY <2>5, <2>7, <1>3, <1>5
  <2>9. parent[y] # 0
    BY <2>8, <1>3
  <2>10. parent[y] \in T
    BY <2>5, <2>7, <2>9 DEF HasParents
  <2> QED BY <2>7, <2>8, <2>10
<1> QED BY <1>3, <1>4, <1>5, <1>7, <1>8 DEF Rooted

\* The links of the directory: one more for a subdirectory.
LEMMA AdoptFacts ==
    ASSUME TreeTypeOK, NEW d \in Inodes, NEW i \in Inodes
    PROVE  /\ Adopt(d, i) \in Seq(Nat) /\ Len(Adopt(d, i)) = Len(kind)
           /\ \A j \in Inodes : Adopt(d, i)[j] = nlink[j] + (IF kind[i] = "dir" /\ j = d THEN 1 ELSE 0)
<1>1. nlink \in Seq(Nat) /\ Len(nlink) = Len(kind) /\ Inodes = 1 .. Len(kind) /\ Len(kind) \in Nat
  BY DEF TreeTypeOK, Inodes
<1>2. CASE kind[i] = "dir"
  <2>1. Adopt(d, i) = [nlink EXCEPT ![d] = nlink[d] + 1]
    BY <1>2 DEF Adopt
  <2>2. nlink[d] \in Nat
    BY <1>1
  <2> QED BY <2>1, <2>2, <1>1, <1>2
<1>3. CASE kind[i] # "dir"
  <2>1. Adopt(d, i) = nlink
    BY <1>3 DEF Adopt
  <2> QED BY <2>1, <1>1, <1>3
<1> QED BY <1>2, <1>3

\* A failing libsqfs_directory_add_entry keeps the invariant: at most the directory has a
\* link too many.
LEMMA AddEntryFailKeeps ==
    ASSUME IInv, NEW d \in Inodes, NEW i \in Inodes, NEW name \in Names, AddEntryFail(d, name, i)
    PROVE  IInv'
<1>1. TreeTypeOK /\ TreeInv
  BY DEF IInv, TreeInv
<1>2. /\ MayAdd(d, i) /\ nlink' = Adopt(d, i) /\ oom' = TRUE
      /\ parent' = IF kind[i] = "dir" THEN [parent EXCEPT ![i] = d] ELSE parent
      /\ kind' = kind /\ xattr' = xattr /\ entries' = entries /\ root' = root
      /\ etype' = etype /\ place' = place /\ inodeTable' = inodeTable /\ inodeSize' = inodeSize
      /\ dirTable' = dirTable /\ dirSize' = dirSize /\ phase' = phase /\ stack' = stack
  BY DEF AddEntryFail, tableVars, runVars
<1>3. phase = "build" /\ kind[d] = "dir"
  BY <1>2 DEF MayAdd
<1>4. Inodes' = Inodes /\ Entry' = Entry /\ Dirs' = Dirs
  BY <1>2 DEF Inodes, Entry, Dirs
<1>5. /\ parent' \in Seq(0 .. Len(kind)) /\ Len(parent') = Len(kind)
      /\ \A e \in Inodes : \A k \in DOMAIN entries[e] :
            kind[entries[e][k].inode] = "dir" => parent'[entries[e][k].inode] = e
      /\ \A S \in SUBSET Inodes : S # {} => \E x \in S : parent'[x] \notin S
  <2>1. PICK p : p = parent'
    OBVIOUS
  <2>2. p = IF kind[i] = "dir" THEN [parent EXCEPT ![i] = d] ELSE parent
    BY <2>1, <1>2
  <2>3. MayAdd(d, i)
    BY <1>2
  <2>4. Rooted(p, d, i)
    BY <2>2, <2>3, ParentKept
  <2> QED BY <2>1, <2>4 DEF Rooted
<1>6. /\ nlink' \in Seq(Nat) /\ Len(nlink') = Len(kind)
      /\ \A j \in Inodes : nlink'[j] = nlink[j] + (IF kind[i] = "dir" /\ j = d THEN 1 ELSE 0)
  BY <1>1, <1>2, AdoptFacts
<1>7. TreeTypeOK'
  BY <1>1, <1>2, <1>4, <1>5, <1>6 DEF TreeTypeOK, Item
<1>8. SortedInv'
  BY <1>1, <1>2, <1>4 DEF TreeInv, SortedInv
<1>9. ParentInv'
  <2>1. \A e \in Inodes : \A k \in DOMAIN entries[e] : kind[e] = "dir"
    BY <1>1 DEF TreeInv, ParentInv
  <2>2. root' # 0 => kind'[root'] = "dir"
    BY <1>1, <1>2 DEF TreeInv, ParentInv
  <2> QED BY <2>1, <2>2, <1>2, <1>4, <1>5 DEF ParentInv
<1>10. \A j \in Inodes : Links(j)' = Links(j) /\ Subdirectories(j)' = Subdirectories(j)
  BY <1>2, <1>4 DEF Links, Subdirectories, Entered
<1>11. LinksFinite'
  BY <1>4, <1>10 DEF LinksFinite, IInv
<1>12. LinkCounts'
  <2> SUFFICES ASSUME NEW j \in Inodes
               PROVE  IF kind[j] = "dir" THEN nlink'[j] >= LinkCount(j)' ELSE nlink'[j] = LinkCount(j)'
    BY <1>2, <1>4 DEF LinkCounts
  <2>1. LinkCount(j)' = LinkCount(j)
    BY <1>2, <1>10 DEF LinkCount
  <2>2. LinkCount(j) \in Nat
    <3>1. Cardinality(Links(j)) \in Nat /\ Cardinality(Subdirectories(j)) \in Nat
      BY FS_CardinalityType DEF IInv, LinksFinite
    <3> QED BY <3>1 DEF LinkCount
  <2>3. nlink[j] \in Nat
    BY <1>1, InodeFacts
  <2>4. IF oom /\ kind[j] = "dir" THEN nlink[j] >= LinkCount(j) ELSE nlink[j] = LinkCount(j)
    BY DEF IInv, LinkCounts
  <2>5. nlink'[j] = nlink[j] + (IF kind[i] = "dir" /\ j = d THEN 1 ELSE 0)
    BY <1>6
  <2> QED BY <2>1, <2>2, <2>3, <2>4, <2>5, <1>3
<1>13. \A j \in Inodes' : etype'[j] = "none"
  BY <1>1, <1>2, <1>3, <1>4 DEF TreeInv, BuildInv
<1>14. BuildInv' /\ StackInv' /\ RecordInv' /\ ListingInv'
  BY <1>1, <1>2, <1>3, <1>13, NothingOnDisk DEF TreeInv
<1> QED BY <1>7, <1>8, <1>9, <1>11, <1>12, <1>14 DEF IInv, TreeInv

\* libsqfs_directory_add_entry keeps the invariant: the entry is where it belongs, and the
\* links of the inode and of the directory are counted.
LEMMA AddEntryKeeps ==
    ASSUME IInv, NEW d \in Inodes, NEW i \in Inodes, NEW name \in Names, AddEntry(d, name, i)
    PROVE  IInv'
<1>1. TreeTypeOK /\ TreeInv /\ SortedInv
  BY DEF IInv, TreeInv
<1>2. /\ MayAdd(d, i) /\ nlink' = [Adopt(d, i) EXCEPT ![i] = @ + 1] /\ oom' = oom
      /\ parent' = IF kind[i] = "dir" THEN [parent EXCEPT ![i] = d] ELSE parent
      /\ entries' = [entries EXCEPT ![d] = EntriesWith(d, name, i)]
      /\ kind' = kind /\ xattr' = xattr /\ root' = root
      /\ etype' = etype /\ place' = place /\ inodeTable' = inodeTable /\ inodeSize' = inodeSize
      /\ dirTable' = dirTable /\ dirSize' = dirSize /\ phase' = phase /\ stack' = stack
  BY DEF AddEntry, tableVars, runVars
<1>3. phase = "build" /\ kind[d] = "dir"
  BY <1>2 DEF MayAdd
<1>4. Inodes' = Inodes /\ Entry' = Entry /\ Dirs' = Dirs
  BY <1>2 DEF Inodes, Entry, Dirs
<1>5. /\ d # i /\ parent' \in Seq(0 .. Len(kind)) /\ Len(parent') = Len(kind)
      /\ kind[i] = "dir" => parent'[i] = d
      /\ \A e \in Inodes : \A k \in DOMAIN entries[e] :
            kind[entries[e][k].inode] = "dir" => parent'[entries[e][k].inode] = e
      /\ \A S \in SUBSET Inodes : S # {} => \E x \in S : parent'[x] \notin S
  <2>1. PICK p : p = parent'
    OBVIOUS
  <2>2. p = IF kind[i] = "dir" THEN [parent EXCEPT ![i] = d] ELSE parent
    BY <2>1, <1>2
  <2>3. MayAdd(d, i)
    BY <1>2
  <2>4. Rooted(p, d, i)
    BY <2>2, <2>3, ParentKept
  <2> QED BY <2>1, <2>4 DEF Rooted
<1>6. /\ nlink' \in Seq(Nat) /\ Len(nlink') = Len(kind)
      /\ \A j \in Inodes : nlink'[j] = nlink[j] + (IF kind[i] = "dir" /\ j = d THEN 1 ELSE 0)
                                                + (IF j = i THEN 1 ELSE 0)
  <2>1. PICK a : a = Adopt(d, i) /\ a \in Seq(Nat) /\ Len(a) = Len(kind)
                 /\ \A j \in Inodes : a[j] = nlink[j] + (IF kind[i] = "dir" /\ j = d THEN 1 ELSE 0)
    BY <1>1, AdoptFacts
  <2>2. Inodes = 1 .. Len(kind) /\ Len(kind) \in Nat
    BY <1>1 DEF Inodes, TreeTypeOK
  <2>3. a[i] \in Nat /\ nlink' = [a EXCEPT ![i] = a[i] + 1]
    BY <2>1, <2>2, <1>2
  <2>4. nlink' \in Seq(Nat) /\ Len(nlink') = Len(kind)
    BY <2>1, <2>2, <2>3
  <2>5. ASSUME NEW j \in Inodes PROVE nlink'[j] = a[j] + (IF j = i THEN 1 ELSE 0)
    <3>1. a[j] \in Nat
      BY <2>1, <2>2
    <3> QED BY <3>1, <2>1, <2>2, <2>3
  <2> QED BY <2>1, <2>4, <2>5
<1>7. PICK t : t = EntriesWith(d, name, i)
  OBVIOUS
<1>8. PICK x : x = [name |-> name, inode |-> i]
  OBVIOUS
<1>9. /\ t \in Seq(Entry) /\ Len(t) = Len(entries[d]) + 1
      /\ \A k \in 1 .. Len(t) - 1 : t[k].name <= t[k + 1].name
  BY <1>1, <1>7, InsertionFacts
<1>10. PICK m : IsInserted(t, entries[d], m, x)
  BY <1>1, <1>7, <1>8, InsertionFacts
<1>11. entries \in Seq(Seq(Entry)) /\ Len(entries) = Len(kind) /\ Inodes = 1 .. Len(kind) /\ Len(kind) \in Nat
  BY <1>1 DEF TreeTypeOK, Inodes
<1>12. /\ entries' = [entries EXCEPT ![d] = t] /\ entries' \in Seq(Seq(Entry)) /\ Len(entries') = Len(kind)
       /\ entries'[d] = t /\ \A e \in Inodes : e # d => entries'[e] = entries[e]
  BY <1>2, <1>7, <1>9, <1>11
<1>13. TreeTypeOK'
  <2>1. stack' = <<>>
    BY <1>1, <1>2, <1>3 DEF TreeInv, BuildInv
  <2>2. \A n \in DOMAIN stack' : stack'[n].next <= Len(entries'[stack'[n].dir]) + 1
    BY <2>1
  <2> QED BY <2>2, <1>1, <1>2, <1>4, <1>5, <1>6, <1>12 DEF TreeTypeOK, Item
<1>14. SortedInv'
  <2> SUFFICES ASSUME NEW e \in Inodes, NEW k \in 1 .. Len(entries'[e]) - 1
               PROVE  entries'[e][k].name <= entries'[e][k + 1].name
    BY <1>4 DEF SortedInv
  <2>1. CASE e = d
    BY <2>1, <1>9, <1>12
  <2>2. CASE e # d
    BY <2>2, <1>1, <1>12 DEF SortedInv
  <2> QED BY <2>1, <2>2
<1>15. ParentInv'
  <2>1. \A e \in Inodes : \A k \in DOMAIN entries[e] : kind[e] = "dir"
    BY <1>1 DEF TreeInv, ParentInv
  <2>2. ASSUME NEW e \in Inodes, NEW k \in DOMAIN entries'[e]
        PROVE  kind[e] = "dir"
               /\ (kind[entries'[e][k].inode] = "dir" => parent'[entries'[e][k].inode] = e)
    <3>1. CASE e # d
      BY <3>1, <2>1, <1>5, <1>12
    <3>2. CASE e = d
      <4>1. t[k] = x \/ \E l \in DOMAIN entries[d] : t[k] = entries[d][l]
        <5>1. /\ m \in Nat /\ m <= Len(entries[d]) /\ DOMAIN entries[d] = 1 .. Len(entries[d]) /\ Len(entries[d]) \in Nat
              /\ DOMAIN t = 1 .. Len(entries[d]) + 1 /\ t[m + 1] = x
              /\ \A l \in 1 .. Len(entries[d]) : t[IF l > m THEN l + 1 ELSE l] = entries[d][l]
          BY <1>10 DEF IsInserted
        <5>2. PICK N \in Nat : N = Len(entries[d])
          BY <5>1
        <5>3. k \in 1 .. N + 1
          BY <5>1, <5>2, <3>2, <1>12
        <5>4. CASE k = m + 1
          BY <5>1, <5>4
        <5>5. CASE k > m + 1
          <6>1. k - 1 \in 1 .. N /\ k - 1 > m /\ (k - 1) + 1 = k
            BY <5>1, <5>3, <5>5
          <6>2. t[IF k - 1 > m THEN (k - 1) + 1 ELSE k - 1] = entries[d][k - 1]
            BY <5>1, <5>2, <6>1
          <6>3. t[k] = entries[d][k - 1]
            BY <6>1, <6>2
          <6> QED BY <6>1, <6>3, <5>1, <5>2
        <5>6. CASE k < m + 1
          <6>1. k \in 1 .. N /\ ~(k > m)
            <7>1. m \in Nat /\ m <= N
              BY <5>1, <5>2
            <7> QED BY <7>1, <5>3, <5>6
          <6>2. t[IF k > m THEN k + 1 ELSE k] = entries[d][k]
            BY <5>1, <5>2, <6>1
          <6> QED BY <6>1, <6>2, <5>1, <5>2
        <5> QED BY <5>1, <5>3, <5>4, <5>5, <5>6
      <4>2. CASE t[k] = x
        BY <4>2, <3>2, <1>3, <1>5, <1>8, <1>12
      <4>3. CASE \E l \in DOMAIN entries[d] : t[k] = entries[d][l]
        BY <4>3, <3>2, <1>3, <1>5, <1>12
      <4> QED BY <4>1, <4>2, <4>3
    <3> QED BY <3>1, <3>2
  <2>3. \A e \in Inodes' : \A k \in DOMAIN entries'[e] :
           kind'[e] = "dir" /\ (kind'[entries'[e][k].inode] = "dir" => parent'[entries'[e][k].inode] = e)
    BY <2>2, <1>2, <1>4
  <2>4. \A S \in SUBSET Inodes' : S # {} => \E y \in S : parent'[y] \notin S
    BY <1>4, <1>5
  <2>5. root' # 0 => kind'[root'] = "dir"
    BY <1>1, <1>2 DEF TreeInv, ParentInv
  <2> QED BY <2>3, <2>4, <2>5 DEF ParentInv
<1>16. ASSUME NEW j \in Inodes
       PROVE  /\ IsFiniteSet(Links(j)') /\ IsFiniteSet(Subdirectories(j)')
              /\ Cardinality(Links(j)') = Cardinality(Links(j)) + (IF j = i THEN 1 ELSE 0)
              /\ Cardinality(Subdirectories(j)')
                     = Cardinality(Subdirectories(j)) + (IF j = d /\ kind[i] = "dir" THEN 1 ELSE 0)
  <2>1. Links(j) = Pairs(entries, Inodes, {j}) /\ Subdirectories(j) = Pairs(entries, {j}, Dirs)
    BY <1>1, LinksArePairs
  <2>2. Links(j)' = Pairs(entries', Inodes, {j}) /\ Subdirectories(j)' = Pairs(entries', {j}, Dirs)
    BY <1>4, <1>13, LinksArePairsNext
  <2>3. IsFiniteSet(Links(j)) /\ IsFiniteSet(Subdirectories(j))
    BY DEF IInv, LinksFinite
  <2>4. /\ Inodes \in SUBSET (DOMAIN entries) /\ {j} \in SUBSET (DOMAIN entries)
        /\ d \in DOMAIN entries
        /\ IsFiniteSet(Pairs(entries, Inodes, {j})) /\ IsFiniteSet(Pairs(entries, {j}, Dirs))
    BY <1>11, <2>1, <2>3
  <2>8. PICK fs : fs = [entries EXCEPT ![d] = t] /\ fs = entries'
    BY <1>12
  <2>5. /\ IsFiniteSet(Links(j)')
        /\ Cardinality(Links(j)') = Cardinality(Links(j)) + (IF d \in Inodes /\ x.inode \in {j} THEN 1 ELSE 0)
    <3>1. OneMore(fs, entries, Inodes, {j}, d \in Inodes /\ x.inode \in {j})
      BY <2>4, <2>8, <1>10, PairsInserted
    <3> QED BY <3>1, <2>1, <2>2, <2>8 DEF OneMore
  <2>6. /\ IsFiniteSet(Subdirectories(j)')
        /\ Cardinality(Subdirectories(j)')
               = Cardinality(Subdirectories(j)) + (IF d \in {j} /\ x.inode \in Dirs THEN 1 ELSE 0)
    <3>1. OneMore(fs, entries, {j}, Dirs, d \in {j} /\ x.inode \in Dirs)
      BY <2>4, <2>8, <1>10, PairsInserted
    <3> QED BY <3>1, <2>1, <2>2, <2>8 DEF OneMore
  <2>7. (d \in Inodes /\ x.inode \in {j} <=> j = i) /\ (d \in {j} /\ x.inode \in Dirs <=> j = d /\ kind[i] = "dir")
    BY <1>8 DEF Dirs
  <2> QED BY <2>5, <2>6, <2>7
<1>17. LinksFinite'
  BY <1>4, <1>16 DEF LinksFinite
<1>18. LinkCounts'
  <2> SUFFICES ASSUME NEW j \in Inodes
               PROVE  IF oom /\ kind[j] = "dir" THEN nlink'[j] >= LinkCount(j)'
                      ELSE nlink'[j] = LinkCount(j)'
    BY <1>2, <1>4 DEF LinkCounts
  <2>1. PICK a \in Nat, b \in Nat : a = Cardinality(Links(j)) /\ b = Cardinality(Subdirectories(j))
    BY FS_CardinalityType DEF IInv, LinksFinite
  <2>2. PICK c \in Nat : c = IF j = root THEN 1 ELSE 0
    OBVIOUS
  <2>3. LinkCount(j) = a + b + c
    BY <2>1, <2>2 DEF LinkCount
  <2>4. PICK u \in Nat, v \in Nat : u = (IF j = i THEN 1 ELSE 0) /\ v = (IF kind[i] = "dir" /\ j = d THEN 1 ELSE 0)
    OBVIOUS
  <2>5. LinkCount(j)' = (a + u) + (b + v) + c
    <3>1. Cardinality(Links(j)') = a + u /\ Cardinality(Subdirectories(j)') = b + v
      BY <2>1, <2>4, <1>16
    <3>2. (IF j = root' THEN 1 ELSE 0) = c
      BY <2>2, <1>2
    <3> QED BY <3>1, <3>2 DEF LinkCount
  <2>6. nlink'[j] = nlink[j] + v + u /\ nlink[j] \in Nat
    BY <2>4, <1>1, <1>6, InodeFacts
  <2>7. IF oom /\ kind[j] = "dir" THEN nlink[j] >= a + b + c ELSE nlink[j] = a + b + c
    BY <2>3 DEF IInv, LinkCounts
  <2> QED BY <2>5, <2>6, <2>7
<1>19. \A j \in Inodes' : etype'[j] = "none"
  BY <1>1, <1>2, <1>3, <1>4 DEF TreeInv, BuildInv
<1>20. BuildInv' /\ StackInv' /\ RecordInv' /\ ListingInv'
  BY <1>1, <1>2, <1>3, <1>19, NothingOnDisk DEF TreeInv
<1> QED BY <1>13, <1>14, <1>15, <1>17, <1>18, <1>20 DEF IInv, TreeInv

-----------------------------------------------------------------------------
(* Serializing the tree.                                                   *)

\* The steps of the serialization leave the tree alone.
LEMMA TreeUnchanged ==
    ASSUME IInv, UNCHANGED treeVars
    PROVE  /\ Inodes' = Inodes /\ Entry' = Entry
           /\ SortedInv' /\ ParentInv' /\ LinksFinite' /\ LinkCounts'
<1>1. /\ kind' = kind /\ xattr' = xattr /\ nlink' = nlink /\ parent' = parent
      /\ entries' = entries /\ root' = root /\ oom' = oom
  BY DEF treeVars
<1>2. Inodes' = Inodes /\ Entry' = Entry
  BY <1>1 DEF Inodes, Entry
<1>3. SortedInv' /\ ParentInv'
  BY <1>1, <1>2 DEF IInv, TreeInv, SortedInv, ParentInv
<1>4. \A i \in Inodes : Links(i)' = Links(i) /\ Subdirectories(i)' = Subdirectories(i)
  BY <1>1, <1>2 DEF Links, Subdirectories, Entered
<1>5. LinksFinite'
  BY <1>2, <1>4 DEF IInv, LinksFinite
<1>6. \A i \in Inodes : LinkCount(i)' = LinkCount(i)
  BY <1>1, <1>4 DEF LinkCount
<1>7. LinkCounts'
  BY <1>1, <1>2, <1>6 DEF IInv, LinkCounts
<1> QED BY <1>2, <1>3, <1>5, <1>7

CallFrame == [dir : Inodes, next : Nat \ {0}]
FramesOK(s) == s \in Seq(CallFrame) /\ \A n \in DOMAIN s : s[n].next <= Len(entries[s[n].dir]) + 1
Etypes(s) == s \in Seq({"none", "short", "long"}) /\ Len(s) = Len(kind)
Places(s) == s \in Seq(Nat \cup {-1}) /\ Len(s) = Len(kind)

\* The types of the state behind a step of the serialization.
LEMMA TypesKept ==
    ASSUME IInv, UNCHANGED treeVars, FramesOK(stack'), Etypes(etype'), Places(place'),
           inodeSize' \in Nat, dirSize' \in Nat, dirTable' \in Seq(Item),
           phase' \in {"serialize", "serialized", "failed"}
    PROVE  TreeTypeOK'
<1>1. /\ kind' = kind /\ xattr' = xattr /\ nlink' = nlink /\ parent' = parent
      /\ entries' = entries /\ root' = root /\ oom' = oom
  BY DEF treeVars
<1>2. Inodes' = Inodes /\ Entry' = Entry /\ Item' = Item
  BY <1>1, TreeUnchanged DEF Item
<1>3. stack' \in Seq([dir : Inodes, next : Nat \ {0}])
      /\ \A n \in DOMAIN stack' : stack'[n].next <= Len(entries[stack'[n].dir]) + 1
  BY DEF FramesOK, CallFrame
<1>4. etype' \in Seq({"none", "short", "long"}) /\ Len(etype') = Len(kind)
      /\ place' \in Seq(Nat \cup {-1}) /\ Len(place') = Len(kind)
  BY DEF Etypes, Places
<1> QED BY <1>1, <1>2, <1>3, <1>4 DEF IInv, TreeInv, TreeTypeOK

\* Types the invariant implies.
LEMMA InvTypes ==
    ASSUME IInv
    PROVE  /\ TreeTypeOK /\ TreeInv /\ FramesOK(stack) /\ Etypes(etype) /\ Places(place)
           /\ inodeSize \in Nat /\ dirSize \in Nat /\ dirTable \in Seq(Item)
  BY DEF IInv, TreeInv, TreeTypeOK, FramesOK, CallFrame, Etypes, Places

\* The call that runs.
LEMMA TopFacts ==
    ASSUME IInv, phase = "serialize"
    PROVE  /\ Len(stack) \in Nat /\ Len(stack) >= 1 /\ Top = stack[Len(stack)] /\ Top \in CallFrame
           /\ Top.dir \in Inodes /\ kind[Top.dir] = "dir" /\ etype[Top.dir] = "none"
           /\ Top.next \in 1 .. Len(entries[Top.dir]) + 1
           /\ \A k \in 1 .. Top.next - 1 : etype[entries[Top.dir][k].inode] # "none"
<1>1. FramesOK(stack)
  BY InvTypes
<1>2. stack # <<>>
  BY DEF IInv, TreeInv, StackInv
<1>3. PICK L \in Nat : L = Len(stack) /\ L >= 1 /\ L \in DOMAIN stack
  BY <1>1, <1>2 DEF FramesOK
<1>4. PICK top : top = Top /\ top = stack[L] /\ top \in CallFrame
  BY <1>1, <1>3 DEF Top, FramesOK
<1>5. top.dir \in Inodes /\ top.next \in Nat /\ top.next >= 1
  BY <1>4 DEF CallFrame
<1>6. top.next <= Len(entries[top.dir]) + 1
  BY <1>1, <1>3, <1>4 DEF FramesOK
<1>7. /\ kind[top.dir] = "dir" /\ etype[top.dir] = "none"
      /\ \A k \in 1 .. top.next - 1 : etype[entries[top.dir][k].inode] # "none"
  BY <1>3, <1>4 DEF IInv, TreeInv, StackInv
<1>8. Len(entries[top.dir]) \in Nat
  BY <1>5, InvTypes, EntryFacts
<1>9. top.next \in 1 .. Len(entries[top.dir]) + 1
  BY <1>5, <1>6, <1>8
<1> QED BY <1>3, <1>4, <1>5, <1>7, <1>9

\* The entry the running call has reached.
LEMMA ChildFacts ==
    ASSUME IInv, AtEntry
    PROVE  /\ phase = "serialize" /\ Child \in Inodes
           /\ Top.next \in DOMAIN entries[Top.dir] /\ Child = entries[Top.dir][Top.next].inode
           /\ Top.next \in 1 .. Len(entries[Top.dir])
<1>1. phase = "serialize" /\ Top.next <= Len(entries[Top.dir])
  BY DEF AtEntry
<1>2. Top.dir \in Inodes /\ Top.next \in 1 .. Len(entries[Top.dir]) + 1
  BY <1>1, TopFacts
<1>3. Len(entries[Top.dir]) \in Nat /\ DOMAIN entries[Top.dir] = 1 .. Len(entries[Top.dir])
  BY <1>2, InvTypes, EntryFacts
<1>4. Top.next \in 1 .. Len(entries[Top.dir])
  BY <1>1, <1>2, <1>3
<1>5. entries[Top.dir][Top.next].inode \in Inodes
  BY <1>2, <1>3, <1>4, InvTypes, EntryFacts
<1> QED BY <1>1, <1>3, <1>4, <1>5 DEF Child

\* Going on to the next entry changes the last frame only.
LEMMA AdvanceFacts ==
    ASSUME NEW s \in Seq(CallFrame), NEW N \in Nat, N = Len(s), N >= 1
    PROVE  /\ Advance(s) \in Seq(CallFrame) /\ Len(Advance(s)) = N
           /\ \A n \in 1 .. N - 1 : Advance(s)[n] = s[n]
           /\ Advance(s)[N].dir = s[N].dir /\ Advance(s)[N].next = s[N].next + 1
<1>1. s # <<>>
  OBVIOUS
<1>2. s[N] \in CallFrame
  OBVIOUS
<1>3. PICK d \in Inodes, k \in Nat \ {0} : s[N] = [dir |-> d, next |-> k]
  BY <1>2 DEF CallFrame
<1>4. PICK f : f = [dir |-> d, next |-> k + 1] /\ f \in CallFrame
  <2>1. [dir |-> d, next |-> k + 1] \in CallFrame
    BY DEF CallFrame
  <2> QED BY <2>1
<1>5. Advance(s) = [s EXCEPT ![N].next = @ + 1]
  BY <1>1 DEF Advance
<1>6. Advance(s) = [s EXCEPT ![N] = f]
  <2>1. [s[N] EXCEPT !.next = @ + 1] = f
    BY <1>3, <1>4
  <2>2. Advance(s) = [s EXCEPT ![N] = [s[N] EXCEPT !.next = s[N].next + 1]]
    BY <1>5
  <2> QED BY <2>1, <2>2
<1>7. N \in 1 .. N /\ DOMAIN s = 1 .. N
  OBVIOUS
<1>8. Advance(s) \in Seq(CallFrame) /\ Len(Advance(s)) = N
  BY <1>4, <1>6, <1>7
<1>9. Advance(s)[N] = f /\ \A n \in 1 .. N - 1 : Advance(s)[n] = s[n]
  BY <1>6, <1>7
<1> QED BY <1>3, <1>4, <1>8, <1>9

\* What StackInv says of running calls, of given frames and types.
Running(s, types) ==
    /\ s # <<>> /\ s[1].dir = root
    /\ \A n \in DOMAIN s :
          /\ kind[s[n].dir] = "dir" /\ types[s[n].dir] = "none"
          /\ \A k \in 1 .. s[n].next - 1 : types[entries[s[n].dir][k].inode] # "none"
    /\ \A n \in 1 .. Len(s) - 1 :
          /\ s[n].next <= Len(entries[s[n].dir])
          /\ entries[s[n].dir][s[n].next].inode = s[n + 1].dir

\* The calls run as the invariant says.
LEMMA IsRunning ==
    ASSUME IInv, phase = "serialize"
    PROVE  Running(stack, etype)
  BY DEF IInv, TreeInv, StackInv, Running

\* What is to be shown of the calls behind a step.
LEMMA RunningNext ==
    ASSUME UNCHANGED treeVars, phase' = "serialize", Running(stack', etype')
    PROVE  StackInv'
<1>1. kind' = kind /\ entries' = entries /\ root' = root
  BY DEF treeVars
<1> QED BY <1>1 DEF StackInv, Running

\* Listings that do not change are still right.
LEMMA ListingsKept ==
    ASSUME IInv, UNCHANGED treeVars, UNCHANGED tableVars
    PROVE  ListingInv'
<1>1. /\ entries' = entries /\ kind' = kind /\ etype' = etype /\ place' = place
      /\ inodeTable' = inodeTable /\ dirTable' = dirTable /\ dirSize' = dirSize
  BY DEF treeVars, tableVars
<1>2. DirectoriesOnDisk' = DirectoriesOnDisk
  BY <1>1 DEF DirectoriesOnDisk
<1>3. \A d : Seen(d)' = Seen(d)
  BY <1>1 DEF Seen, SeenEntry
<1>4. \A lo, r, es, from : ListedBehind(lo, r, es, from)' <=> ListedBehind(lo, r, es, from)
  BY <1>1 DEF ListedBehind
<1> QED BY <1>1, <1>2, <1>3, <1>4 DEF IInv, TreeInv, ListingInv

\* Tables that do not change are still right.
LEMMA TablesKept ==
    ASSUME IInv, UNCHANGED treeVars, UNCHANGED tableVars, phase' = "serialize",
           phase \in {"build", "serialize"}
    PROVE  RecordInv' /\ ListingInv' /\ BuildInv'
<1>1. /\ kind' = kind /\ nlink' = nlink /\ entries' = entries /\ Inodes' = Inodes
      /\ etype' = etype /\ place' = place /\ inodeTable' = inodeTable
      /\ dirTable' = dirTable /\ dirSize' = dirSize
  BY TreeUnchanged DEF treeVars, tableVars
<1>2. \A i \in Inodes : etype[i] # "none" => \E r \in inodeTable : r.inode = i
  BY DEF IInv, TreeInv, RecordInv, BuildInv
<1>3. RecordInv'
  BY <1>1, <1>2 DEF IInv, TreeInv, RecordInv
<1>4. ListingInv'
  BY ListingsKept
<1>5. BuildInv'
  BY DEF BuildInv
<1> QED BY <1>3, <1>4, <1>5

\* The call for the root begins.
LEMMA SerializeRootKeeps ==
    ASSUME IInv, SerializeRoot
    PROVE  IInv'
<1>1. /\ phase = "build" /\ root # 0 /\ phase' = "serialize" /\ UNCHANGED treeVars /\ UNCHANGED tableVars
      /\ stack' = <<[dir |-> root, next |-> 1]>>
  BY DEF SerializeRoot
<1>2. root \in Inodes /\ kind[root] = "dir"
  BY <1>1 DEF IInv, TreeInv, TreeTypeOK, ParentInv, Inodes
<1>3. etype[root] = "none"
  BY <1>1, <1>2 DEF IInv, TreeInv, BuildInv
<1>4. PICK f : f = [dir |-> root, next |-> 1] /\ f \in CallFrame
  <2>1. [dir |-> root, next |-> 1] \in CallFrame
    BY <1>2 DEF CallFrame
  <2> QED BY <2>1
<1>5. stack' = <<f>> /\ f.dir = root /\ f.next = 1
  BY <1>1, <1>4
<1>6. Len(entries[root]) \in Nat
  BY <1>2, InvTypes, EntryFacts
<1>7. stack' \in Seq(CallFrame) /\ Len(stack') = 1 /\ DOMAIN stack' = {1} /\ stack'[1] = f
  BY <1>4, <1>5
<1>8. FramesOK(stack')
  BY <1>5, <1>6, <1>7 DEF FramesOK
<1>9. /\ etype' = etype /\ place' = place /\ inodeSize' = inodeSize /\ dirTable' = dirTable
      /\ dirSize' = dirSize
  BY <1>1 DEF tableVars
<1>10. TreeTypeOK'
  BY <1>1, <1>8, <1>9, InvTypes, TypesKept
<1>11. Running(stack', etype')
  BY <1>2, <1>3, <1>5, <1>7, <1>9 DEF Running
<1>12. StackInv'
  BY <1>1, <1>11, RunningNext
<1>13. RecordInv' /\ ListingInv' /\ BuildInv'
  BY <1>1, TablesKept
<1>14. SortedInv' /\ ParentInv' /\ LinksFinite' /\ LinkCounts'
  BY <1>1, TreeUnchanged
<1> QED BY <1>10, <1>12, <1>13, <1>14 DEF IInv, TreeInv

\* Going on behind an entry that has been encoded.
LEMMA AdvanceRuns ==
    ASSUME IInv, NEW s \in Seq(CallFrame), FramesOK(s), NEW types, Running(s, types),
           s[Len(s)].next <= Len(entries[s[Len(s)].dir]),
           types[entries[s[Len(s)].dir][s[Len(s)].next].inode] # "none"
    PROVE  FramesOK(Advance(s)) /\ Running(Advance(s), types)
<1>1. PICK N \in Nat : N = Len(s) /\ N >= 1 /\ DOMAIN s = 1 .. N /\ N \in 1 .. N
  BY DEF Running
<1>2. PICK t : t = Advance(s)
  OBVIOUS
<1>3. /\ t \in Seq(CallFrame) /\ Len(t) = N /\ DOMAIN t = 1 .. N
      /\ \A n \in 1 .. N - 1 : t[n] = s[n]
      /\ t[N].dir = s[N].dir /\ t[N].next = s[N].next + 1
  <2>1. /\ t \in Seq(CallFrame) /\ Len(t) = N /\ \A n \in 1 .. N - 1 : t[n] = s[n]
        /\ t[N].dir = s[N].dir /\ t[N].next = s[N].next + 1
    BY <1>1, <1>2, AdvanceFacts
  <2> QED BY <2>1
<1>4. s[N].next \in Nat /\ s[N].next >= 1 /\ s[N].dir \in Inodes
  <2>1. s[N] \in CallFrame
    BY <1>1
  <2> QED BY <2>1 DEF CallFrame
<1>5. Len(entries[s[N].dir]) \in Nat
  BY <1>4, InvTypes, EntryFacts
<1>6. /\ s[1].dir = root
      /\ \A n \in 1 .. N : kind[s[n].dir] = "dir" /\ types[s[n].dir] = "none"
      /\ \A n \in 1 .. N : \A k \in 1 .. s[n].next - 1 : types[entries[s[n].dir][k].inode] # "none"
      /\ \A n \in 1 .. N - 1 : /\ s[n].next <= Len(entries[s[n].dir])
                               /\ entries[s[n].dir][s[n].next].inode = s[n + 1].dir
  BY <1>1 DEF Running
<1>7. ASSUME NEW n \in 1 .. N PROVE t[n].dir = s[n].dir
  BY <1>1, <1>3
<1>8. ASSUME NEW n \in 1 .. N PROVE t[n].next <= Len(entries[t[n].dir]) + 1
  <2>1. CASE n = N
    BY <2>1, <1>1, <1>3, <1>4, <1>5
  <2>2. CASE n # N
    <3>1. n \in 1 .. N - 1
      BY <2>2
    <3>2. t[n] = s[n] /\ n \in DOMAIN s
      BY <3>1, <1>1, <1>3
    <3>3. s[n].next <= Len(entries[s[n].dir]) + 1
      BY <3>2 DEF FramesOK
    <3> QED BY <3>2, <3>3
  <2> QED BY <2>1, <2>2
<1>9. ASSUME NEW n \in 1 .. N, NEW k \in 1 .. t[n].next - 1
      PROVE  types[entries[t[n].dir][k].inode] # "none"
  <2>1. CASE n = N
    <3>1. t[n].next = s[N].next + 1 /\ t[n].dir = s[N].dir
      BY <2>1, <1>3
    <3>2. k \in 1 .. s[N].next
      BY <3>1, <1>4
    <3>3. CASE k = s[N].next
      BY <3>1, <3>3, <1>1
    <3>4. CASE k \in 1 .. s[N].next - 1
      BY <3>1, <3>4, <1>1, <1>6
    <3> QED BY <3>2, <3>3, <3>4, <1>4
  <2>2. CASE n # N
    <3>1. n \in 1 .. N - 1 /\ t[n] = s[n]
      BY <2>2, <1>3
    <3> QED BY <3>1, <1>6, <1>9
  <2> QED BY <2>1, <2>2
<1>10. ASSUME NEW n \in 1 .. N - 1
       PROVE  /\ t[n].next <= Len(entries[t[n].dir])
              /\ entries[t[n].dir][t[n].next].inode = t[n + 1].dir
  <2>1. t[n] = s[n] /\ t[n + 1].dir = s[n + 1].dir
    BY <1>3, <1>7
  <2> QED BY <2>1, <1>6
<1>11. FramesOK(t)
  BY <1>3, <1>8 DEF FramesOK
<1>12. t # <<>> /\ t[1].dir = root
  BY <1>1, <1>3, <1>6, <1>7
<1>13. Running(t, types)
  BY <1>3, <1>6, <1>7, <1>9, <1>10, <1>12, ZenonT(40) DEF Running
<1> QED BY <1>2, <1>11, <1>13

\* Passing over an inode that has been encoded keeps the invariant.
LEMMA VisitEncodedKeeps ==
    ASSUME IInv, VisitEncoded
    PROVE  IInv'
<1>1. /\ AtEntry /\ etype[Child] # "none" /\ stack' = Advance(stack)
      /\ UNCHANGED treeVars /\ UNCHANGED tableVars /\ phase' = phase
  BY DEF VisitEncoded
<1>2. phase = "serialize"
  BY <1>1, ChildFacts
<1>3. /\ etype' = etype /\ place' = place /\ inodeSize' = inodeSize /\ dirTable' = dirTable
      /\ dirSize' = dirSize
  BY <1>1 DEF tableVars
<1>4. FramesOK(stack) /\ stack \in Seq(CallFrame)
  BY InvTypes DEF FramesOK
<1>5. Top = stack[Len(stack)] /\ Top.next <= Len(entries[Top.dir])
      /\ etype[entries[Top.dir][Top.next].inode] # "none"
  BY <1>1, <1>2, TopFacts, ChildFacts DEF AtEntry
<1>6. Running(stack, etype)
  BY <1>2, IsRunning
<1>7. FramesOK(Advance(stack)) /\ Running(Advance(stack), etype)
  BY <1>4, <1>5, <1>6, AdvanceRuns
<1>8. TreeTypeOK'
  BY <1>1, <1>2, <1>3, <1>7, InvTypes, TypesKept
<1>9. StackInv'
  BY <1>1, <1>2, <1>3, <1>7, RunningNext
<1>10. RecordInv' /\ ListingInv' /\ BuildInv'
  BY <1>1, <1>2, TablesKept
<1>11. SortedInv' /\ ParentInv' /\ LinksFinite' /\ LinkCounts'
  BY <1>1, TreeUnchanged
<1> QED BY <1>8, <1>9, <1>10, <1>11 DEF IInv, TreeInv

\* Going down into a directory keeps the invariant.
LEMMA VisitDirectoryKeeps ==
    ASSUME IInv, VisitDirectory
    PROVE  IInv'
<1>1. /\ AtEntry /\ etype[Child] = "none" /\ kind[Child] = "dir"
      /\ stack' = Append(stack, [dir |-> Child, next |-> 1])
      /\ UNCHANGED treeVars /\ UNCHANGED tableVars /\ phase' = phase
  BY DEF VisitDirectory
<1>2. phase = "serialize" /\ Child \in Inodes
  BY <1>1, ChildFacts
<1>3. /\ etype' = etype /\ place' = place /\ inodeSize' = inodeSize /\ dirTable' = dirTable
      /\ dirSize' = dirSize
  BY <1>1 DEF tableVars
<1>4. FramesOK(stack) /\ stack \in Seq(CallFrame)
  BY InvTypes DEF FramesOK
<1>5. PICK N \in Nat : N = Len(stack) /\ N >= 1 /\ DOMAIN stack = 1 .. N
  BY <1>2, <1>4, TopFacts
<1>6. PICK top, c : top = Top /\ top = stack[N] /\ c = Child /\ top.next <= Len(entries[top.dir])
                    /\ entries[top.dir][top.next].inode = c
  BY <1>1, <1>2, <1>5, TopFacts, ChildFacts DEF AtEntry
<1>7. PICK f : f = [dir |-> c, next |-> 1] /\ f \in CallFrame
  <2>1. [dir |-> c, next |-> 1] \in CallFrame
    BY <1>2, <1>6 DEF CallFrame
  <2> QED BY <2>1
<1>8. PICK t : t = stack' /\ t = Append(stack, f)
  BY <1>1, <1>6, <1>7
<1>9. /\ t \in Seq(CallFrame) /\ Len(t) = N + 1 /\ DOMAIN t = 1 .. N + 1 /\ t[N + 1] = f
      /\ \A n \in 1 .. N : t[n] = stack[n]
  <2>1. /\ t \in Seq(CallFrame) /\ Len(t) = Len(stack) + 1 /\ t[Len(stack) + 1] = f
        /\ \A n \in 1 .. Len(stack) : t[n] = stack[n]
    BY <1>4, <1>7, <1>8, Appended
  <2> QED BY <2>1, <1>5
<1>10. Len(entries[c]) \in Nat
  BY <1>2, <1>6, InvTypes, EntryFacts
<1>11. FramesOK(t)
  <2>1. ASSUME NEW n \in 1 .. N + 1 PROVE t[n].next <= Len(entries[t[n].dir]) + 1
    <3>1. CASE n = N + 1
      BY <3>1, <1>7, <1>9, <1>10
    <3>2. CASE n \in 1 .. N
      BY <3>2, <1>4, <1>5, <1>9 DEF FramesOK
    <3> QED BY <3>1, <3>2
  <2> QED BY <2>1, <1>9 DEF FramesOK
<1>12. Running(t, etype)
  <2>1. /\ stack[1].dir = root
        /\ \A n \in 1 .. N : kind[stack[n].dir] = "dir" /\ etype[stack[n].dir] = "none"
        /\ \A n \in 1 .. N : \A k \in 1 .. stack[n].next - 1 :
              etype[entries[stack[n].dir][k].inode] # "none"
        /\ \A n \in 1 .. N - 1 : /\ stack[n].next <= Len(entries[stack[n].dir])
                                 /\ entries[stack[n].dir][stack[n].next].inode = stack[n + 1].dir
    BY <1>2, <1>5, IsRunning DEF Running
  <2>2. f.dir = c /\ f.next = 1 /\ kind[c] = "dir" /\ etype[c] = "none"
    BY <1>1, <1>6, <1>7
  <2>3. ASSUME NEW n \in 1 .. N + 1
        PROVE  /\ kind[t[n].dir] = "dir" /\ etype[t[n].dir] = "none"
               /\ \A k \in 1 .. t[n].next - 1 : etype[entries[t[n].dir][k].inode] # "none"
    <3>1. CASE n = N + 1
      BY <3>1, <2>2, <1>9
    <3>2. CASE n \in 1 .. N
      BY <3>2, <2>1, <1>9
    <3> QED BY <3>1, <3>2
  <2>4. ASSUME NEW n \in 1 .. N
        PROVE  /\ t[n].next <= Len(entries[t[n].dir])
               /\ entries[t[n].dir][t[n].next].inode = t[n + 1].dir
    <3>1. CASE n = N
      BY <3>1, <2>2, <1>6, <1>9
    <3>2. CASE n \in 1 .. N - 1
      <4>1. n + 1 \in 1 .. N
        BY <3>2
      <4> QED BY <3>2, <4>1, <2>1, <1>9
    <3> QED BY <3>1, <3>2
  <2>5. t # <<>> /\ t[1].dir = root
    BY <2>1, <1>5, <1>9
  <2> QED BY <2>3, <2>4, <2>5, <1>9 DEF Running
<1>13. TreeTypeOK'
  BY <1>1, <1>2, <1>3, <1>8, <1>11, InvTypes, TypesKept
<1>14. StackInv'
  BY <1>1, <1>2, <1>3, <1>8, <1>12, RunningNext
<1>15. RecordInv' /\ ListingInv' /\ BuildInv'
  BY <1>1, <1>2, TablesKept
<1>16. SortedInv' /\ ParentInv' /\ LinksFinite' /\ LinkCounts'
  BY <1>1, TreeUnchanged
<1> QED BY <1>13, <1>14, <1>15, <1>16 DEF IInv, TreeInv

-----------------------------------------------------------------------------
(* Writing to the tables.                                                  *)

\* An inode is typed and has its place, and no other changes.
Typed(c, type) ==
    /\ c \in Inodes /\ etype[c] = "none" /\ type \in {"short", "long"}
    /\ etype' = [etype EXCEPT ![c] = type]
    /\ place' = [place EXCEPT ![c] = inodeSize]

\* What changes when an inode gets its type and its place.
LEMMA TypedFacts ==
    ASSUME IInv, NEW c, NEW type, Typed(c, type)
    PROVE  /\ Etypes(etype') /\ Places(place')
           /\ etype'[c] = type /\ place'[c] = inodeSize /\ inodeSize \in Nat
           /\ \A i \in Inodes : i # c => etype'[i] = etype[i] /\ place'[i] = place[i]
<1>1. /\ etype \in Seq({"none", "short", "long"}) /\ Len(etype) = Len(kind)
      /\ place \in Seq(Nat \cup {-1}) /\ Len(place) = Len(kind)
      /\ inodeSize \in Nat /\ Inodes = 1 .. Len(kind) /\ Len(kind) \in Nat
  BY InvTypes DEF Etypes, Places, TreeTypeOK, Inodes
<1>2. c \in 1 .. Len(kind) /\ type \in {"none", "short", "long"}
      /\ etype' = [etype EXCEPT ![c] = type] /\ place' = [place EXCEPT ![c] = inodeSize]
  BY <1>1 DEF Typed
<1>3. Etypes(etype')
  BY <1>1, <1>2 DEF Etypes
<1>4. Places(place')
  BY <1>1, <1>2 DEF Places
<1>5. DOMAIN etype = 1 .. Len(kind) /\ DOMAIN place = 1 .. Len(kind)
  BY <1>1
<1>6. etype'[c] = type /\ place'[c] = inodeSize
  BY <1>2, <1>5
<1>7. \A i \in Inodes : i # c => etype'[i] = etype[i] /\ place'[i] = place[i]
  BY <1>1, <1>2, <1>5
<1> QED BY <1>1, <1>3, <1>4, <1>6, <1>7

\* Running calls of other directories still run.
LEMMA TypedRuns ==
    ASSUME IInv, NEW c, NEW type, Typed(c, type), NEW s, FramesOK(s), Running(s, etype),
           \A n \in DOMAIN s : s[n].dir # c
    PROVE  Running(s, etype')
<1>1. /\ etype'[c] = type /\ type # "none"
      /\ \A i \in Inodes : i # c => etype'[i] = etype[i]
  BY TypedFacts DEF Typed
<1>2. s \in Seq(CallFrame) /\ \A n \in DOMAIN s : s[n].next <= Len(entries[s[n].dir]) + 1
  BY DEF FramesOK
<1>3. ASSUME NEW n \in DOMAIN s
      PROVE  s[n].dir \in Inodes /\ s[n].next \in Nat
  <2>1. s[n] \in CallFrame
    BY <1>2
  <2> QED BY <2>1 DEF CallFrame
<1>4. ASSUME NEW n \in DOMAIN s, NEW k \in 1 .. s[n].next - 1
      PROVE  etype'[entries[s[n].dir][k].inode] # "none"
  <2>1. PICK d \in Inodes : d = s[n].dir
    BY <1>3
  <2>2. Len(entries[d]) \in Nat /\ DOMAIN entries[d] = 1 .. Len(entries[d])
    BY InvTypes, EntryFacts
  <2>3. s[n].next <= Len(entries[d]) + 1 /\ s[n].next \in Nat
    BY <1>2, <1>3, <2>1
  <2>4. k \in DOMAIN entries[d]
    BY <2>2, <2>3
  <2>5. entries[d][k].inode \in Inodes
    BY <2>4, InvTypes, EntryFacts
  <2>6. etype[entries[d][k].inode] # "none"
    BY <1>4, <2>1 DEF Running
  <2> QED BY <2>1, <2>5, <2>6, <1>1
<1>5. \A n \in DOMAIN s : kind[s[n].dir] = "dir" /\ etype[s[n].dir] = "none"
  BY DEF Running
<1>6. \A n \in DOMAIN s : kind[s[n].dir] = "dir" /\ etype'[s[n].dir] = "none"
  BY <1>1, <1>3, <1>5
<1> QED BY <1>4, <1>6 DEF Running

\* The record of an inode is appended to the inode table, or the append fails.
Recorded(c, r) ==
    /\ inodeTable' = inodeTable \cup {r}
    /\ r.inode = c /\ r.kind = kind[c] /\ r.at = inodeSize
    /\ (IF r.nlink = -1 THEN 1 ELSE r.nlink) = nlink[c]
    /\ phase' \in {"serialize", "serialized"}
Failed == inodeTable' = inodeTable /\ phase' = "failed"

\* Records stay right when an inode gets one, or fails to get it.
LEMMA RecordsKept ==
    ASSUME IInv, UNCHANGED treeVars, phase = "serialize", NEW c, NEW type, Typed(c, type),
           NEW r, Recorded(c, r) \/ Failed
    PROVE  RecordInv'
<1>1. kind' = kind /\ nlink' = nlink /\ Inodes' = Inodes
  BY TreeUnchanged DEF treeVars
<1>2. /\ etype'[c] = type /\ type # "none" /\ place'[c] = inodeSize /\ inodeSize \in Nat
      /\ \A i \in Inodes : i # c => etype'[i] = etype[i] /\ place'[i] = place[i]
      /\ c \in Inodes /\ etype[c] = "none"
  BY TypedFacts DEF Typed
<1>3. \A q \in inodeTable :
          /\ q.inode \in Inodes /\ etype[q.inode] # "none"
          /\ q.kind = kind[q.inode] /\ q.at = place[q.inode] /\ q.at \in Nat
          /\ (IF q.nlink = -1 THEN 1 ELSE q.nlink) = nlink[q.inode]
  BY DEF IInv, TreeInv, RecordInv
<1>4. \A p, q \in inodeTable : p.inode = q.inode => p = q
  BY DEF IInv, TreeInv, RecordInv
<1>5. \A i \in Inodes : etype[i] # "none" => \E q \in inodeTable : q.inode = i
  BY DEF IInv, TreeInv, RecordInv
<1>6. ASSUME NEW q \in inodeTable
      PROVE  /\ q.inode \in Inodes /\ q.inode # c /\ etype'[q.inode] # "none"
             /\ q.kind = kind[q.inode] /\ q.at = place'[q.inode] /\ q.at \in Nat
             /\ (IF q.nlink = -1 THEN 1 ELSE q.nlink) = nlink[q.inode]
  <2>1. q.inode \in Inodes /\ etype[q.inode] # "none"
    BY <1>3
  <2>2. q.inode # c
    BY <2>1, <1>2
  <2>3. etype'[q.inode] = etype[q.inode] /\ place'[q.inode] = place[q.inode]
    BY <2>1, <2>2, <1>2
  <2> QED BY <2>1, <2>2, <2>3, <1>3
<1>7. CASE Failed
  <2>1. inodeTable' = inodeTable /\ phase' = "failed"
    BY <1>7 DEF Failed
  <2> QED BY <2>1, <1>1, <1>4, <1>6 DEF RecordInv
<1>8. CASE Recorded(c, r)
  <2>1. /\ inodeTable' = inodeTable \cup {r}
        /\ r.inode = c /\ r.kind = kind[c] /\ r.at = inodeSize
        /\ (IF r.nlink = -1 THEN 1 ELSE r.nlink) = nlink[c]
    BY <1>8 DEF Recorded
  <2>2. ASSUME NEW q \in inodeTable'
        PROVE  /\ q.inode \in Inodes' /\ etype'[q.inode] # "none"
               /\ q.kind = kind'[q.inode] /\ q.at = place'[q.inode] /\ q.at \in Nat
               /\ (IF q.nlink = -1 THEN 1 ELSE q.nlink) = nlink'[q.inode]
    <3>1. CASE q = r
      BY <3>1, <2>1, <1>1, <1>2
    <3>2. CASE q \in inodeTable
      BY <3>2, <1>1, <1>6
    <3> QED BY <3>1, <3>2, <2>1
  <2>3. \A p, q \in inodeTable' : p.inode = q.inode => p = q
    BY <2>1, <1>4, <1>6
  <2>4. \A i \in Inodes' : etype'[i] # "none" => \E q \in inodeTable' : q.inode = i
    BY <2>1, <1>1, <1>2, <1>5
  <2> QED BY <2>2, <2>3, <2>4 DEF RecordInv
<1> QED BY <1>7, <1>8

\* The directory table grows.
Extends(t, z) ==
    /\ t \in Seq(Item) /\ z \in Nat /\ z >= dirSize /\ Len(t) >= Len(dirTable)
    /\ \A k \in 1 .. Len(dirTable) : t[k] = dirTable[k]
    /\ \A k \in 1 .. Len(t) : k > Len(dirTable) => t[k].at >= dirSize
    /\ \A k, l \in 1 .. Len(t) : k < l => t[k].at < t[l].at
    /\ \A k \in 1 .. Len(t) : t[k].at < z

\* A table extends itself.
LEMMA NotExtended ==
    ASSUME IInv
    PROVE  Extends(dirTable, dirSize)
<1>1. dirTable \in Seq(Item) /\ dirSize \in Nat
  BY InvTypes
<1>2. (\A m, n \in DOMAIN dirTable : m < n => dirTable[m].at < dirTable[n].at)
      /\ \A n \in DOMAIN dirTable : dirTable[n].at < dirSize
  BY DEF IInv, TreeInv, ListingInv
<1>3. DOMAIN dirTable = 1 .. Len(dirTable) /\ Len(dirTable) \in Nat
  BY <1>1
<1> QED BY <1>1, <1>2, <1>3 DEF Extends

\* Types of an encoded entry.
LEMMA ItemTyped ==
    ASSUME NEW es \in Seq(SeenType), NEW from \in Nat, NEW k \in 1 .. Len(es)
    PROVE  /\ EncodedEntry(es, k, from) \in Item
           /\ EncodedEntry(es, k, from).at = from + Scan(es)[k - 1].end
           /\ Scan(es)[k - 1].end \in Nat
<1>1. PICK a \in Nat : a = from + Scan(es)[k - 1].end
  BY ScanNext
<1>2. PICK h : /\ h = IF IsRef(es, k) THEN Header(es, k) ELSE NoHeader
               /\ h \in [count : Int, block : Int, number : Int]
  <2>1. CASE IsRef(es, k)
    <3>1. PICK c \in Nat : Header(es, k).count = c
      BY <2>1, RunBehind
    <3>2. es[k].at.block \in Int /\ es[k].inode \in Int
      BY SeenFacts
    <3>3. Header(es, k) = [count |-> Header(es, k).count, block |-> es[k].at.block, number |-> es[k].inode]
      BY DEF Header
    <3>4. Header(es, k) \in [count : Int, block : Int, number : Int]
      BY <3>1, <3>2, <3>3
    <3> QED BY <2>1, <3>4
  <2>2. CASE ~IsRef(es, k)
    <3>1. NoHeader \in [count : Int, block : Int, number : Int]
      BY DEF NoHeader
    <3> QED BY <2>2, <3>1
  <2> QED BY <2>1, <2>2
<1>3. es[k].name \in Names /\ es[k].at.offset \in Nat /\ es[k].type \in Kinds \cup {"none"}
  BY SeenFacts
<1>4. PICK x \in Int : x = DiffField(es[k].inode, es[Scan(es)[k].ref].inode)
  <2>1. PICK ref \in 1 .. k : ref = Scan(es)[k].ref
    BY RefFacts DEF Run
  <2>2. PICK i \in Nat, j \in Nat : i = es[k].inode /\ j = es[ref].inode
    <3>1. ref \in 1 .. Len(es)
      OBVIOUS
    <3> QED BY <3>1, SeenFacts
  <2>3. PICK H \in Nat : H = HalfDiff /\ H >= 1
    BY TreeSizes
  <2>4. ((i - j + H) % (2 * H)) - H \in Int
    BY <2>3
  <2> QED BY <2>1, <2>2, <2>3, <2>4 DEF DiffField, Diff
<1>5. EncodedEntry(es, k, from) = [at |-> a, header |-> h, name |-> es[k].name,
          offset |-> es[k].at.offset, diff |-> x, type |-> es[k].type]
  BY <1>1, <1>2, <1>4 DEF EncodedEntry
<1>6. EncodedEntry(es, k, from) \in Item
  BY <1>2, <1>3, <1>5 DEF Item
<1> QED BY <1>1, <1>5, <1>6, ScanNext

\* Entries of a listing that are appended extend the directory table.
LEMMA TableExtended ==
    ASSUME IInv, NEW es \in Seq(SeenType), NEW n \in 0 .. Len(es), NEW t,
           t = dirTable \o SubSeq(Encoded(es, dirSize), 1, n)
    PROVE  /\ Extends(t, dirSize + Scan(es)[n].end) /\ Len(t) = Len(dirTable) + n
           /\ \A k \in 1 .. n : t[Len(dirTable) + k] = EncodedEntry(es, k, dirSize)
<1>1. PICK D \in Nat, N \in Nat : D = Len(dirTable) /\ N = Len(es) /\ dirTable \in Seq(Item)
  BY InvTypes
<1>2. PICK w \in Nat : w = dirSize
  BY InvTypes
<1>3. PICK z \in Nat : z = Scan(es)[n].end
  BY ScanFacts DEF ScanType
<1>4. PICK x : x = Encoded(es, w)
  OBVIOUS
<1>5. x \in Seq(Item) /\ Len(x) = N /\ \A k \in 1 .. N : x[k] = EncodedEntry(es, k, w)
  <2>1. \A k \in 1 .. N : EncodedEntry(es, k, w) \in Item
    BY <1>1, ItemTyped
  <2>2. x = [k \in 1 .. N |-> EncodedEntry(es, k, w)]
    BY <1>1, <1>4 DEF Encoded
  <2>3. x \in [1 .. N -> Item]
    BY <2>1, <2>2
  <2> QED BY <2>2, <2>3
<1>6. PICK y : y = SubSeq(x, 1, n) /\ y \in Seq(Item) /\ Len(y) = n /\ \A k \in 1 .. n : y[k] = x[k]
  <2>1. n \in 0 .. N
    BY <1>1
  <2>2. SubSeq(x, 1, n) \in Seq(Item) /\ Len(SubSeq(x, 1, n)) = n
        /\ \A k \in 1 .. n : SubSeq(x, 1, n)[k] = x[k]
    BY <2>1, <1>5
  <2> QED BY <2>2
<1>7. t = dirTable \o y
  BY <1>2, <1>4, <1>6
<1>8. /\ t \in Seq(Item) /\ Len(t) = D + n
      /\ \A k \in 1 .. D : t[k] = dirTable[k]
      /\ \A k \in 1 .. n : t[D + k] = y[k]
  <2>1. /\ dirTable \o y \in Seq(Item) /\ Len(dirTable \o y) = Len(dirTable) + Len(y)
        /\ \A k \in 1 .. Len(dirTable) : (dirTable \o y)[k] = dirTable[k]
        /\ \A k \in 1 .. Len(y) : (dirTable \o y)[Len(dirTable) + k] = y[k]
    BY <1>1, <1>6, Concatenated
  <2> QED BY <2>1, <1>1, <1>6, <1>7
<1>9. ASSUME NEW k \in 1 .. n PROVE t[D + k] = EncodedEntry(es, k, w)
  <2>1. k \in 1 .. N
    BY <1>1
  <2>2. t[D + k] = y[k]
    BY <1>8
  <2>3. y[k] = x[k]
    BY <1>6
  <2>4. x[k] = EncodedEntry(es, k, w)
    BY <2>1, <1>5
  <2> QED BY <2>2, <2>3, <2>4
<1>10. Extends(dirTable, w)
  BY <1>2, NotExtended
<1>11. PICK at : at = [k \in 1 .. D + n |-> t[k].at]
  OBVIOUS
<1>12. ASSUME NEW k \in 1 .. D + n PROVE at[k] \in Nat /\ at[k] = t[k].at
  <2>1. at[k] = t[k].at
    BY <1>11
  <2>2. t[k] \in Item
    BY <1>8
  <2>3. t[k].at \in Nat
    BY <2>2 DEF Item
  <2> QED BY <2>1, <2>3
<1>17. ASSUME NEW k \in 1 .. D PROVE at[k] < w
  <2>1. k \in 1 .. D + n
    OBVIOUS
  <2>2. dirTable[k].at < w
    BY <1>1, <1>10 DEF Extends
  <2> QED BY <2>1, <2>2, <1>8, <1>12
<1>18. ASSUME NEW k \in 1 .. D, NEW l \in 1 .. D, k < l PROVE at[k] < at[l]
  <2>1. k \in 1 .. D + n /\ l \in 1 .. D + n
    OBVIOUS
  <2>2. dirTable[k].at < dirTable[l].at
    BY <1>1, <1>10, <1>18 DEF Extends
  <2> QED BY <2>1, <2>2, <1>8, <1>12
<1>19. PICK e : e = [k \in 0 .. n |-> Scan(es)[k].end]
  OBVIOUS
<1>20. e \in [0 .. n -> Nat] /\ e[n] = z
  <2>1. ASSUME NEW k \in 0 .. n PROVE Scan(es)[k].end \in Nat
    BY ScanFacts DEF ScanType
  <2> QED BY <2>1, <1>3, <1>19
<1>21. ASSUME NEW i \in 0 .. n, NEW j \in 0 .. n, i < j PROVE e[i] < e[j]
  <2>1. i \in 0 .. Len(es) /\ j \in 0 .. Len(es)
    OBVIOUS
  <2>2. Scan(es)[i].end < Scan(es)[j].end
    BY <2>1, <1>21, ScanGrows
  <2> QED BY <2>2, <1>19
<1>22. ASSUME NEW k \in D + 1 .. D + n PROVE k - D - 1 \in 0 .. n /\ at[k] = w + e[k - D - 1]
  <2>1. PICK m \in 1 .. n : k = D + m /\ m - 1 \in 0 .. n /\ k - D - 1 = m - 1
    <3>1. k - D \in 1 .. n /\ k = D + (k - D) /\ (k - D) - 1 \in 0 .. n
      OBVIOUS
    <3> QED BY <3>1
  <2>2. m \in 1 .. Len(es) /\ k \in 1 .. D + n
    BY <1>1
  <2>3. t[k] = EncodedEntry(es, m, w)
    BY <2>1, <1>9
  <2>4. EncodedEntry(es, m, w).at = w + Scan(es)[m - 1].end
    BY <2>2, ItemTyped
  <2>5. e[m - 1] = Scan(es)[m - 1].end
    BY <2>1, <1>19
  <2> QED BY <2>1, <2>2, <2>3, <2>4, <2>5, <1>12
<1>13. ASSUME NEW k \in 1 .. D + n, k > D PROVE at[k] >= w
  <2>1. k \in D + 1 .. D + n
    BY <1>13
  <2>2. PICK i \in 0 .. n : at[k] = w + e[i]
    BY <2>1, <1>22
  <2>3. e[i] \in Nat
    BY <1>20
  <2> QED BY <2>2, <2>3
<1>14. ASSUME NEW k \in 1 .. D + n, NEW l \in 1 .. D + n, k < l PROVE at[k] < at[l]
  <2>1. CASE l <= D
    <3>1. k \in 1 .. D /\ l \in 1 .. D
      BY <2>1, <1>14
    <3> QED BY <3>1, <1>14, <1>18
  <2>2. CASE k <= D /\ l > D
    <3>1. k \in 1 .. D
      BY <2>2
    <3>2. at[k] < w /\ at[l] >= w
      BY <2>2, <3>1, <1>13, <1>17
    <3>3. at[k] \in Nat /\ at[l] \in Nat
      BY <1>12
    <3> QED BY <3>2, <3>3
  <2>3. CASE k > D
    <3>1. k \in D + 1 .. D + n /\ l \in D + 1 .. D + n
      BY <2>3, <1>14
    <3>2. PICK i \in 0 .. n, j \in 0 .. n : at[k] = w + e[i] /\ at[l] = w + e[j] /\ i < j
      <4>1. k - D - 1 \in 0 .. n /\ at[k] = w + e[k - D - 1]
        BY <3>1, <1>22
      <4>2. l - D - 1 \in 0 .. n /\ at[l] = w + e[l - D - 1]
        BY <3>1, <1>22
      <4>3. k - D - 1 < l - D - 1
        BY <1>14
      <4> QED BY <4>1, <4>2, <4>3
    <3>3. e[i] < e[j] /\ e[i] \in Nat /\ e[j] \in Nat
      BY <3>2, <1>20, <1>21
    <3> QED BY <3>2, <3>3
  <2> QED BY <2>1, <2>2, <2>3
<1>15. ASSUME NEW k \in 1 .. D + n PROVE at[k] < w + z
  <2>1. CASE k <= D
    <3>1. k \in 1 .. D
      BY <2>1
    <3>2. at[k] < w /\ at[k] \in Nat
      BY <3>1, <1>12, <1>17
    <3> QED BY <3>2
  <2>2. CASE k > D
    <3>1. k \in D + 1 .. D + n
      BY <2>2
    <3>2. PICK i \in 0 .. n : at[k] = w + e[i] /\ i < n
      <4>1. k - D - 1 \in 0 .. n /\ at[k] = w + e[k - D - 1]
        BY <3>1, <1>22
      <4>2. k - D - 1 < n
        OBVIOUS
      <4> QED BY <4>1, <4>2
    <3>3. e[i] < z /\ e[i] \in Nat
      BY <3>2, <1>20, <1>21
    <3> QED BY <3>2, <3>3
  <2> QED BY <2>1, <2>2
<1>23. /\ \A k \in 1 .. D + n : k > D => t[k].at >= w
       /\ \A k, l \in 1 .. D + n : k < l => t[k].at < t[l].at
       /\ \A k \in 1 .. D + n : t[k].at < w + z
  BY <1>12, <1>13, <1>14, <1>15
<1>16. Extends(t, w + z)
  <2>1. w + z \in Nat /\ w + z >= dirSize /\ Len(t) >= Len(dirTable)
    BY <1>1, <1>2, <1>8
  <2> QED BY <2>1, <1>1, <1>2, <1>8, <1>23 DEF Extends
<1> QED BY <1>1, <1>2, <1>3, <1>8, <1>9, <1>16

\* Listings stay where they are when the table grows.
LEMMA StillListed ==
    ASSUME IInv, Extends(dirTable', dirSize'), NEW es \in Seq(SeenType), NEW from \in Nat, NEW r,
           NEW lo \in 0 .. Len(dirTable), ListedBehind(lo, r, es, from)
    PROVE  lo \in 0 .. Len(dirTable') /\ ListedBehind(lo, r, es, from)'
<1>1. PICK D \in Nat, N \in Nat : D = Len(dirTable) /\ N = Len(es) /\ DOMAIN dirTable = 1 .. D
                                  /\ DOMAIN es = 1 .. N
  BY InvTypes
<1>2. PICK z \in Nat : z = ListingSize(es)
  BY EndsFacts
<1>3. /\ lo \in Nat /\ lo + N <= D
      /\ \A k \in 1 .. N : dirTable[lo + k] = EncodedEntry(es, k, from)
      /\ \A n \in 1 .. D : n > lo + N => dirTable[n].at >= from + z
      /\ from + z <= dirSize
      /\ r.size = z + 3
      /\ r.index = [n \in DOMAIN PrunedIndex(es) |-> IndexEntry(es, PrunedIndex(es)[n], from)]
  <2>1. /\ lo + Len(es) <= Len(dirTable)
        /\ \A k \in DOMAIN es : dirTable[lo + k] = EncodedEntry(es, k, from)
        /\ \A n \in DOMAIN dirTable :
              n > lo + Len(es) => dirTable[n].at >= from + ListingSize(es)
        /\ from + ListingSize(es) <= dirSize
        /\ r.size = ListingSize(es) + 3
    BY DEF ListedBehind
  <2>2. r.index = [n \in DOMAIN PrunedIndex(es) |-> IndexEntry(es, PrunedIndex(es)[n], from)]
    BY Zenon DEF ListedBehind
  <2>3. lo \in Nat /\ lo + N <= D
    BY <2>1, <1>1
  <2>4. /\ \A k \in 1 .. N : dirTable[lo + k] = EncodedEntry(es, k, from)
        /\ \A n \in 1 .. D : n > lo + N => dirTable[n].at >= from + z
        /\ from + z <= dirSize /\ r.size = z + 3
    BY <2>1, <1>1, <1>2
  <2> QED BY <2>2, <2>3, <2>4
<1>4. PICK t, E : t = dirTable' /\ E = Len(t) /\ E \in Nat /\ DOMAIN t = 1 .. E
  BY DEF Extends
<1>5. PICK w \in Nat, v \in Nat : w = dirSize /\ v = dirSize' /\ v >= w
  BY InvTypes DEF Extends
<1>6. /\ E >= D
      /\ \A k \in 1 .. D : t[k] = dirTable[k]
      /\ \A k \in 1 .. E : k > D => t[k].at >= w
  BY <1>1, <1>4, <1>5 DEF Extends
<1>7. \A k \in 1 .. E : t[k].at \in Nat
  <2>1. \A k \in 1 .. E : t[k] \in Item
    BY <1>4 DEF Extends
  <2> QED BY <2>1 DEF Item
<1>8. ASSUME NEW k \in 1 .. N PROVE t[lo + k] = EncodedEntry(es, k, from)
  <2>1. lo + k \in 1 .. D
    BY <1>3
  <2> QED BY <2>1, <1>3, <1>6
<1>9. ASSUME NEW n \in 1 .. E, n > lo + N PROVE t[n].at >= from + z
  <2>1. CASE n <= D
    <3>1. n \in 1 .. D
      BY <2>1
    <3> QED BY <3>1, <1>3, <1>6, <1>9
  <2>2. CASE n > D
    <3>1. t[n].at >= w /\ t[n].at \in Nat
      BY <2>2, <1>6, <1>7
    <3> QED BY <3>1, <1>3, <1>5, SMTT(20)
  <2> QED BY <2>1, <2>2, <1>1
<1>10. from + z <= v
  BY <1>3, <1>5
<1>11. lo + N <= E
  <2>1. lo + N \in Int
    BY <1>3
  <2> QED BY <2>1, <1>1, <1>3, <1>4, <1>6
<1>12. ListedBehind(lo, r, es, from)'
  BY <1>1, <1>2, <1>3, <1>4, <1>5, <1>8, <1>9, <1>10, <1>11 DEF ListedBehind
<1> QED BY <1>3, <1>4, <1>11, <1>12

\* What ListingInv says of a directory on disk.
OnDiskRight(r) ==
    /\ \A k \in DOMAIN entries[r.inode] :
          \E q \in inodeTable : q.inode = entries[r.inode][k].inode
    /\ r.start = Place(Position(r.start)) /\ Position(r.start) \in Nat
    /\ \E lo \in 0 .. Len(dirTable) : ListedBehind(lo, r, Seen(r.inode), Position(r.start))

\* The entries of a directory are seen as before when an inode that is not one of them
\* is typed.
LEMMA SeenKept ==
    ASSUME IInv, UNCHANGED treeVars, NEW d \in Inodes, NEW c,
           \A i \in Inodes : i # c => etype'[i] = etype[i] /\ place'[i] = place[i],
           \A k \in DOMAIN entries[d] : entries[d][k].inode # c
    PROVE  Seen(d)' = Seen(d)
<1>1. kind' = kind /\ entries' = entries
  BY DEF treeVars
<1>2. ASSUME NEW k \in DOMAIN entries[d]
      PROVE  SeenEntry(entries[d][k])' = SeenEntry(entries[d][k])
  <2>1. PICK e : e = entries[d][k] /\ e.inode \in Inodes /\ e.inode # c
    BY InvTypes, EntryFacts
  <2>2. etype'[e.inode] = etype[e.inode] /\ place'[e.inode] = place[e.inode]
    BY <2>1
  <2>3. SeenEntry(e)' = SeenEntry(e)
    BY <2>2, <1>1 DEF SeenEntry
  <2>4. entries'[d][k] = e
    BY <2>1, <1>1
  <2> QED BY <2>1, <2>3, <2>4 DEF SeenEntry
<1>3. Seen(d)' = [k \in DOMAIN entries[d] |-> SeenEntry(entries[d][k])']
  BY <1>1 DEF Seen
<1>4. Seen(d) = [k \in DOMAIN entries[d] |-> SeenEntry(entries[d][k])]
  BY DEF Seen
<1> QED BY <1>2, <1>3, <1>4, Zenon

\* A directory on disk keeps its listing when the table grows and another inode gets its
\* type: none of its entries is that inode, as they have been encoded before.
LEMMA StillRight ==
    ASSUME IInv, UNCHANGED treeVars, NEW r \in DirectoriesOnDisk, NEW c, etype[c] = "none",
           \A i \in Inodes : i # c => etype'[i] = etype[i] /\ place'[i] = place[i],
           inodeTable \subseteq inodeTable', Extends(dirTable', dirSize')
    PROVE  OnDiskRight(r)'
<1>1. entries' = entries
  BY DEF treeVars
<1>2. PICK d \in Inodes : d = r.inode
  <2>1. r \in inodeTable
    BY DEF DirectoriesOnDisk
  <2> QED BY <2>1 DEF IInv, TreeInv, RecordInv
<1>3. \A k \in DOMAIN entries[d] : \E q \in inodeTable : q.inode = entries[d][k].inode
  BY <1>2 DEF IInv, TreeInv, ListingInv
<1>4. \A k \in DOMAIN entries[d] : entries[d][k].inode # c
  BY <1>3 DEF IInv, TreeInv, RecordInv
<1>5. Seen(d)' = Seen(d)
  BY <1>4, SeenKept
<1>6. PICK es : es = Seen(d) /\ es \in Seq(SeenType)
  BY InvTypes, SeenTyped
<1>7. PICK from \in Nat : from = Position(r.start) /\ r.start = Place(from)
  BY DEF IInv, TreeInv, ListingInv
<1>8. PICK lo \in 0 .. Len(dirTable) : ListedBehind(lo, r, es, from)
  BY <1>2, <1>6, <1>7 DEF IInv, TreeInv, ListingInv
<1>9. lo \in 0 .. Len(dirTable') /\ ListedBehind(lo, r, es, from)'
  BY <1>6, <1>8, StillListed
<1>10. ListedBehind(lo, r, Seen(r.inode), Position(r.start))'
  BY <1>2, <1>5, <1>6, <1>7, <1>9 DEF ListedBehind
<1>11. \A k \in DOMAIN entries'[r.inode] : \E q \in inodeTable' : q.inode = entries'[r.inode][k].inode
  BY <1>1, <1>2, <1>3
<1> QED BY <1>7, <1>9, <1>10, <1>11 DEF OnDiskRight

\* What is to be shown of the listings behind a step.
LEMMA ListingNext ==
    ASSUME Extends(dirTable', dirSize'), \A r \in DirectoriesOnDisk' : OnDiskRight(r)'
    PROVE  ListingInv'
<1>1. DOMAIN dirTable' = 1 .. Len(dirTable')
  BY DEF Extends
<1>2. \A m, n \in DOMAIN dirTable' : m < n => dirTable'[m].at < dirTable'[n].at
  BY <1>1 DEF Extends
<1>3. \A n \in DOMAIN dirTable' : dirTable'[n].at < dirSize'
  BY <1>1 DEF Extends
<1> QED BY <1>2, <1>3 DEF ListingInv, OnDiskRight

\* What the record of an inode that is not a directory holds.
LEMMA LeafFacts ==
    ASSUME IInv, NEW i \in Inodes, kind[i] # "dir"
    PROVE  /\ LeafType(i) \in {"short", "long"}
           /\ LeafRecord(i).inode = i /\ LeafRecord(i).kind = kind[i] /\ LeafRecord(i).at = inodeSize
           /\ (IF LeafRecord(i).nlink = -1 THEN 1 ELSE LeafRecord(i).nlink) = nlink[i]
<1>1. kind[i] \in Kinds /\ nlink[i] \in Nat
  BY InvTypes, InodeFacts
<1>2. kind[i] \in {"file", "symlink", "device", "fifo"}
  BY <1>1 DEF Kinds
<1>3. LeafType(i) \in {"short", "long"} /\ (kind[i] = "file" => LeafType(i) = RegularType(i))
  <2>1. CASE kind[i] = "file"
    BY <2>1 DEF LeafType, RegularType
  <2>2. CASE kind[i] = "symlink"
    BY <2>2 DEF LeafType, SymlinkType
  <2>3. CASE kind[i] = "device"
    BY <2>3 DEF LeafType, DeviceType
  <2>4. CASE kind[i] = "fifo"
    BY <2>4 DEF LeafType, FifoType
  <2> QED BY <2>1, <2>2, <2>3, <2>4, <1>2
<1>4. kind[i] = "file" /\ LeafType(i) = "short" => nlink[i] = 1
  BY <1>3 DEF RegularType
<1>5. LeafRecord(i).nlink = IF kind[i] = "file" /\ LeafType(i) = "short" THEN -1 ELSE nlink[i]
  BY DEF LeafRecord
<1>6. (IF LeafRecord(i).nlink = -1 THEN 1 ELSE LeafRecord(i).nlink) = nlink[i]
  BY <1>1, <1>4, <1>5
<1>7. LeafRecord(i).inode = i /\ LeafRecord(i).kind = kind[i] /\ LeafRecord(i).at = inodeSize
  BY DEF LeafRecord
<1> QED BY <1>3, <1>6, <1>7

\* Encoding an inode that is not a directory keeps the invariant, whether the append of its
\* record succeeds or fails.
LEMMA VisitLeafKeeps ==
    ASSUME IInv, VisitLeaf
    PROVE  IInv'
<1>1. /\ AtEntry /\ etype[Child] = "none" /\ kind[Child] # "dir"
      /\ etype' = [etype EXCEPT ![Child] = LeafType(Child)]
      /\ place' = [place EXCEPT ![Child] = inodeSize]
      /\ \/ /\ inodeTable' = inodeTable \cup {LeafRecord(Child)}
            /\ inodeSize' = inodeSize + RecordSize
            /\ stack' = Advance(stack)
            /\ phase' = phase
         \/ /\ phase' = "failed"
            /\ inodeTable' = inodeTable /\ inodeSize' = inodeSize /\ stack' = stack
      /\ UNCHANGED treeVars /\ dirTable' = dirTable /\ dirSize' = dirSize
  BY DEF VisitLeaf
<1>2. phase = "serialize" /\ Child \in Inodes
  BY <1>1, ChildFacts
<1>3. PICK c, type, r : c = Child /\ type = LeafType(c) /\ r = LeafRecord(c)
  OBVIOUS
<1>4. /\ type \in {"short", "long"} /\ r.inode = c /\ r.kind = kind[c] /\ r.at = inodeSize
      /\ (IF r.nlink = -1 THEN 1 ELSE r.nlink) = nlink[c]
  BY <1>1, <1>2, <1>3, LeafFacts
<1>5. Typed(c, type)
  BY <1>1, <1>2, <1>3, <1>4 DEF Typed
<1>6. /\ Etypes(etype') /\ Places(place') /\ etype'[c] = type /\ type # "none" /\ inodeSize \in Nat
      /\ \A i \in Inodes : i # c => etype'[i] = etype[i] /\ place'[i] = place[i]
  BY <1>4, <1>5, TypedFacts
<1>7. FramesOK(stack) /\ stack \in Seq(CallFrame)
  BY InvTypes DEF FramesOK
<1>8. Running(stack, etype')
  <2>1. Running(stack, etype)
    BY <1>2, IsRunning
  <2>2. \A n \in DOMAIN stack : stack[n].dir # c
    BY <2>1, <1>1, <1>3 DEF Running
  <2> QED BY <2>1, <2>2, <1>5, <1>7, TypedRuns
<1>9. FramesOK(Advance(stack)) /\ Running(Advance(stack), etype')
  <2>1. Top = stack[Len(stack)] /\ Top.next <= Len(entries[Top.dir])
        /\ etype'[entries[Top.dir][Top.next].inode] # "none"
    BY <1>1, <1>2, <1>3, <1>6, TopFacts, ChildFacts DEF AtEntry
  <2> QED BY <2>1, <1>7, <1>8, AdvanceRuns
<1>10. Extends(dirTable', dirSize')
  BY <1>1, NotExtended
<1>11. Recorded(c, r) \/ Failed
  BY <1>1, <1>2, <1>3, <1>4 DEF Recorded, Failed
<1>12. RecordInv'
  BY <1>1, <1>2, <1>5, <1>11, RecordsKept
<1>13. ListingInv'
  <2>1. inodeTable \subseteq inodeTable'
    BY <1>1
  <2>2. DirectoriesOnDisk' = DirectoriesOnDisk
    BY <1>1, <1>3, <1>4 DEF DirectoriesOnDisk
  <2>3. etype[c] = "none"
    BY <1>1, <1>3
  <2>4. \A q \in DirectoriesOnDisk : OnDiskRight(q)'
    BY <2>1, <2>3, <1>1, <1>6, <1>10, StillRight
  <2> QED BY <2>2, <2>4, <1>10, ListingNext
<1>14. StackInv' /\ FramesOK(stack') /\ inodeSize' \in Nat /\ phase' \in {"serialize", "failed"}
  <2>1. CASE phase' = "failed" /\ stack' = stack /\ inodeSize' = inodeSize
    <3>1. StackInv'
      BY <2>1 DEF StackInv
    <3> QED BY <2>1, <3>1, <1>6, <1>7
  <2>2. CASE phase' = phase /\ stack' = Advance(stack) /\ inodeSize' = inodeSize + RecordSize
    <3>1. StackInv'
      BY <2>2, <1>1, <1>2, <1>9, RunningNext
    <3>2. inodeSize + RecordSize \in Nat
      BY <1>6, TreeSizes
    <3> QED BY <2>2, <3>1, <3>2, <1>2, <1>9
  <2> QED BY <2>1, <2>2, <1>1
<1>15. BuildInv'
  BY <1>14 DEF BuildInv
<1>16. TreeTypeOK'
  BY <1>1, <1>6, <1>14, InvTypes, TypesKept
<1>17. SortedInv' /\ ParentInv' /\ LinksFinite' /\ LinkCounts'
  BY <1>1, TreeUnchanged
<1> QED BY <1>12, <1>13, <1>14, <1>15, <1>16, <1>17 DEF IInv, TreeInv

\* At the end of its loop, every entry of a directory has been encoded.
LEMMA EndFacts ==
    ASSUME IInv, AtEnd
    PROVE  /\ phase = "serialize" /\ Top.dir \in Inodes /\ kind[Top.dir] = "dir"
           /\ etype[Top.dir] = "none"
           /\ \A k \in DOMAIN entries[Top.dir] : etype[entries[Top.dir][k].inode] # "none"
           /\ Seen(Top.dir) \in Seq(SeenType) /\ Len(Seen(Top.dir)) = Len(entries[Top.dir])
<1>1. phase = "serialize" /\ Top.next > Len(entries[Top.dir])
  BY DEF AtEnd
<1>2. /\ Top.dir \in Inodes /\ kind[Top.dir] = "dir" /\ etype[Top.dir] = "none"
      /\ Top.next \in 1 .. Len(entries[Top.dir]) + 1
      /\ \A k \in 1 .. Top.next - 1 : etype[entries[Top.dir][k].inode] # "none"
  BY <1>1, TopFacts
<1>3. PICK N \in Nat : N = Len(entries[Top.dir]) /\ DOMAIN entries[Top.dir] = 1 .. N
  BY <1>2, InvTypes, EntryFacts
<1>4. Top.next - 1 = N
  BY <1>1, <1>2, <1>3
<1>5. \A k \in DOMAIN entries[Top.dir] : etype[entries[Top.dir][k].inode] # "none"
  BY <1>2, <1>3, <1>4
<1>6. Seen(Top.dir) \in Seq(SeenType) /\ Len(Seen(Top.dir)) = Len(entries[Top.dir])
  BY <1>2, InvTypes, SeenTyped
<1> QED BY <1>1, <1>2, <1>5, <1>6

\* No directory is serialized inside its own serialization.
LEMMA RunsOnce ==
    ASSUME IInv, phase = "serialize", NEW m \in 1 .. Len(stack) - 1
    PROVE  stack[m].dir # stack[Len(stack)].dir
<1> SUFFICES ASSUME stack[m].dir = stack[Len(stack)].dir PROVE FALSE
  OBVIOUS
<1>1. PICK N \in Nat : N = Len(stack) /\ N >= 1 /\ DOMAIN stack = 1 .. N
  BY TopFacts, InvTypes DEF FramesOK
<1>2. /\ \A n \in 1 .. N : kind[stack[n].dir] = "dir"
      /\ \A n \in 1 .. N - 1 : /\ stack[n].next <= Len(entries[stack[n].dir])
                               /\ entries[stack[n].dir][stack[n].next].inode = stack[n + 1].dir
  BY <1>1, IsRunning DEF Running
<1>3. ASSUME NEW n \in 1 .. N PROVE stack[n].dir \in Inodes /\ stack[n].next \in Nat \ {0}
  <2>1. stack[n] \in CallFrame
    BY <1>1, InvTypes DEF FramesOK
  <2> QED BY <2>1 DEF CallFrame
<1>4. ASSUME NEW n \in 1 .. N - 1 PROVE parent[stack[n + 1].dir] = stack[n].dir
  <2>1. n \in 1 .. N /\ n + 1 \in 1 .. N
    BY <1>1
  <2>2. PICK d \in Inodes, k \in Nat \ {0} : d = stack[n].dir /\ k = stack[n].next
    BY <2>1, <1>3
  <2>3. k \in DOMAIN entries[d]
    <3>1. k <= Len(entries[d])
      BY <2>2, <1>2
    <3> QED BY <3>1, InvTypes, EntryFacts
  <2>4. entries[d][k].inode = stack[n + 1].dir /\ kind[stack[n + 1].dir] = "dir"
    BY <2>1, <2>2, <1>2
  <2>5. \A e \in Inodes : \A l \in DOMAIN entries[e] :
           kind[entries[e][l].inode] = "dir" => parent[entries[e][l].inode] = e
    BY DEF IInv, TreeInv, ParentInv
  <2> QED BY <2>2, <2>3, <2>4, <2>5
<1>5. PICK S : S = {stack[n].dir : n \in m + 1 .. N}
  OBVIOUS
<1>6. S \in SUBSET Inodes /\ S # {}
  <2>1. m + 1 \in m + 1 .. N /\ \A n \in m + 1 .. N : n \in 1 .. N
    BY <1>1
  <2> QED BY <2>1, <1>3, <1>5
<1>7. ASSUME NEW x \in S PROVE parent[x] \in S
  <2>1. PICK n \in m + 1 .. N : x = stack[n].dir
    BY <1>5
  <2>2. PICK l : l = n - 1 /\ l \in 1 .. N - 1 /\ l + 1 = n /\ l \in m .. N - 1
    BY <1>1
  <2>3. parent[x] = stack[l].dir
    BY <2>1, <2>2, <1>4
  <2>4. CASE l = m
    <3>1. N \in m + 1 .. N /\ stack[l].dir = stack[N].dir
      BY <2>4, <1>1
    <3> QED BY <2>3, <3>1, <1>5
  <2>5. CASE l # m
    <3>1. l \in m + 1 .. N
      BY <2>2, <2>5, <1>1
    <3> QED BY <2>3, <3>1, <1>5
  <2> QED BY <2>4, <2>5
<1>8. \A R \in SUBSET Inodes : R # {} => \E x \in R : parent[x] \notin R
  BY DEF IInv, TreeInv, ParentInv
<1> QED BY <1>6, <1>7, <1>8

\* A listing of which only a part gets into the directory table does no harm: no inode
\* refers to it.
LEMMA EncodeFailKeeps ==
    ASSUME IInv, EncodeFail
    PROVE  IInv'
<1>1. /\ AtEnd /\ phase' = "failed" /\ UNCHANGED treeVars /\ etype' = etype /\ place' = place
      /\ inodeTable' = inodeTable /\ inodeSize' = inodeSize /\ stack' = stack
  BY DEF EncodeFail
<1>2. PICK n \in 0 .. Len(entries[Top.dir]) - 1 :
          /\ dirTable' = dirTable \o SubSeq(Encoded(Seen(Top.dir), dirSize), 1, n)
          /\ dirSize' = dirSize + Scan(Seen(Top.dir))[n].end
  BY DEF EncodeFail
<1>3. PICK d \in Inodes, es \in Seq(SeenType) :
          d = Top.dir /\ es = Seen(d) /\ Len(es) = Len(entries[d]) /\ etype[d] = "none"
  BY <1>1, EndFacts
<1>4. PICK t : t = dirTable' /\ t = dirTable \o SubSeq(Encoded(es, dirSize), 1, n)
  BY <1>2, <1>3
<1>5. n \in 0 .. Len(es)
  BY <1>3
<1>6. Extends(t, dirSize + Scan(es)[n].end)
  BY <1>4, <1>5, TableExtended
<1>7. Extends(dirTable', dirSize')
  BY <1>2, <1>3, <1>4, <1>6
<1>8. DirectoriesOnDisk' = DirectoriesOnDisk /\ inodeTable \subseteq inodeTable'
  BY <1>1 DEF DirectoriesOnDisk
<1>9. ListingInv'
  <2>1. \A q \in DirectoriesOnDisk : OnDiskRight(q)'
    BY <1>1, <1>3, <1>7, <1>8, StillRight
  <2> QED BY <2>1, <1>7, <1>8, ListingNext
<1>10. RecordInv'
  <2>1. kind' = kind /\ nlink' = nlink /\ Inodes' = Inodes
    BY <1>1, TreeUnchanged DEF treeVars
  <2> QED BY <2>1, <1>1 DEF IInv, TreeInv, RecordInv
<1>11. StackInv' /\ BuildInv'
  BY <1>1 DEF StackInv, BuildInv
<1>12. TreeTypeOK'
  <2>1. dirTable' \in Seq(Item) /\ dirSize' \in Nat
    BY <1>7 DEF Extends
  <2> QED BY <2>1, <1>1, InvTypes, TypesKept
<1>13. SortedInv' /\ ParentInv' /\ LinksFinite' /\ LinkCounts'
  BY <1>1, TreeUnchanged
<1> QED BY <1>9, <1>10, <1>11, <1>12, <1>13 DEF IInv, TreeInv

\* The index of a listing that begins at from.
IndexAt(es, from) ==
    [n \in DOMAIN PrunedIndex(es) |-> IndexEntry(es, PrunedIndex(es)[n], from)]

\* What the inode of a directory holds.
LEMMA RecordFacts ==
    ASSUME IInv, NEW d \in Inodes, NEW es, es = Seen(d), NEW from \in Nat,
           NEW r, r = DirRecord(d, from)
    PROVE  /\ r.inode = d /\ r.kind = "dir" /\ r.at = inodeSize /\ r.nlink = nlink[d]
           /\ DirType(d) \in {"short", "long"}
           /\ r.start = IF entries[d] = <<>> THEN Place(0) ELSE Place(from)
           /\ r.size = ListingSize(es) + 3
           /\ r.index = IndexAt(es, from)
           /\ Len(r.index) \in Nat
<1>1. es = Seen(d) /\ es \in Seq(SeenType)
  BY InvTypes, SeenTyped
<1>2. PICK z \in Nat : z = ListingSize(es)
  BY <1>1, EndsFacts
<1>3. PICK p : p = PrunedIndex(es) /\ p \in Seq(Nat)
  BY <1>1, PrunedFacts
<1>4. PICK type : type = DirType(d) /\ type \in {"short", "long"}
                  /\ (type = "short" => p = <<>> /\ z <= ShortMax - 3)
  <2>1. DirType(d) = IF p # <<>> \/ z > ShortMax - 3 \/ xattr[d] THEN "long" ELSE "short"
    BY <1>1, <1>2, <1>3 DEF DirType
  <2>2. DirType(d) \in {"short", "long"}
    BY <2>1
  <2>3. ShortMax - 3 \in Int
    BY TreeSizes
  <2>4. DirType(d) = "short" => p = <<>> /\ ~(z > ShortMax - 3)
    BY <2>1
  <2> QED BY <2>2, <2>3, <2>4
<1>5. /\ r.inode = d /\ r.kind = "dir" /\ r.at = inodeSize /\ r.nlink = nlink[d]
      /\ r.start = IF entries[d] = <<>> THEN Place(0) ELSE Place(from)
  BY DEF DirRecord
<1>6. /\ r.size = IF type = "long" THEN z + 3 ELSE (z + 3) % (ShortMax + 1)
      /\ r.index = IF type = "short" THEN <<>> ELSE [n \in DOMAIN p |-> IndexEntry(es, p[n], from)]
  BY <1>1, <1>2, <1>3, <1>4 DEF DirRecord
<1>7. r.size = z + 3
  <2>1. CASE type = "long"
    BY <2>1, <1>6
  <2>2. CASE type = "short"
    <3>1. PICK a \in Nat, b \in Nat : a = z + 3 /\ b = ShortMax + 1 /\ a < b
      BY <2>2, <1>4, TreeSizes
    <3>2. a % b = a
      BY <3>1
    <3> QED BY <3>1, <3>2, <2>2, <1>6
  <2> QED BY <2>1, <2>2, <1>4
<1>8. r.index = [n \in DOMAIN p |-> IndexEntry(es, p[n], from)]
  <2>1. CASE type = "long"
    BY <2>1, <1>6
  <2>2. CASE type = "short"
    <3>1. r.index = <<>> /\ DOMAIN p = {}
      BY <2>2, <1>4, <1>6
    <3>2. [n \in DOMAIN p |-> IndexEntry(es, p[n], from)] = <<>>
      BY <3>1
    <3> QED BY <3>1, <3>2
  <2> QED BY <2>1, <2>2, <1>4
<1>9. Len(r.index) \in Nat
  <2>1. PICK N \in Nat : N = Len(p) /\ DOMAIN p = 1 .. N
    BY <1>3
  <2>2. r.index = [n \in 1 .. N |-> IndexEntry(es, p[n], from)]
    BY <2>1, <1>8
  <2>3. Len(r.index) = N
    BY <2>2
  <2> QED BY <2>3
<1>10. r.index = IndexAt(es, from)
  BY <1>3, <1>8 DEF IndexAt
<1> QED BY <1>1, <1>2, <1>4, <1>5, <1>7, <1>9, <1>10

\* A sequence of no elements is the empty one.
LEMMA EmptySeq == ASSUME NEW S, NEW s \in Seq(S), Len(s) = 0 PROVE s = <<>>
  OBVIOUS

\* The listing of the directory just encoded is where its inode says.
LEMMA NewListing ==
    ASSUME IInv, NEW d \in Inodes, NEW es, es = Seen(d), NEW w, w = dirSize,
           NEW t, t = dirTable \o Encoded(es, w), NEW r, r = DirRecord(d, w),
           dirTable' = t, dirSize' = w + ListingSize(es)
    PROVE  /\ Extends(dirTable', dirSize')
           /\ r.start = Place(Position(r.start)) /\ Position(r.start) \in Nat
           /\ \E lo \in 0 .. Len(dirTable') : ListedBehind(lo, r, es, Position(r.start))'
<1>1. PICK N \in Nat : N = Len(es) /\ es \in Seq(SeenType) /\ DOMAIN es = 1 .. N /\ N = Len(entries[d])
  BY InvTypes, SeenTyped
<1>2. w \in Nat
  BY InvTypes
<1>3. PICK z \in Nat : z = ListingSize(es) /\ z = Scan(es)[N].end /\ (N = 0 => z = 0)
  BY <1>1, EndsFacts DEF ListingSize
<1>4. PICK D \in Nat : D = Len(dirTable) /\ dirTable \in Seq(Item)
  BY InvTypes
<1>5. Encoded(es, w) = SubSeq(Encoded(es, w), 1, N)
  <2>1. \A k \in 1 .. N : EncodedEntry(es, k, w) \in Item
    BY <1>1, <1>2, ItemTyped
  <2>2. PICK x : x = Encoded(es, w) /\ x = [k \in 1 .. N |-> EncodedEntry(es, k, w)]
    BY <1>1 DEF Encoded
  <2>3. x \in Seq(Item) /\ Len(x) = N
    BY <2>1, <2>2
  <2>4. x = SubSeq(x, 1, N)
    BY <2>3
  <2> QED BY <2>2, <2>4
<1>6. t = dirTable \o SubSeq(Encoded(es, dirSize), 1, N)
  BY <1>5
<1>7. /\ Extends(t, dirSize + Scan(es)[N].end) /\ Len(t) = D + N
      /\ \A k \in 1 .. N : t[D + k] = EncodedEntry(es, k, dirSize)
  <2>1. N \in 0 .. Len(es)
    BY <1>1
  <2> QED BY <2>1, <1>1, <1>4, <1>6, TableExtended
<1>8. Extends(dirTable', dirSize')
  BY <1>3, <1>7
<1>9. /\ r.start = IF entries[d] = <<>> THEN Place(0) ELSE Place(w)
      /\ r.size = z + 3 /\ r.index = IndexAt(es, w)
  <2>1. r.size = ListingSize(es) + 3 /\ r.index = IndexAt(es, w)
    BY <1>2, RecordFacts
  <2>2. r.start = IF entries[d] = <<>> THEN Place(0) ELSE Place(w)
    BY <1>2, RecordFacts
  <2> QED BY <2>1, <2>2, <1>3
<1>10. entries[d] \in Seq(Entry)
  BY InvTypes, EntryFacts
<1>11. dirTable' \in Seq(Item) /\ DOMAIN dirTable' = 1 .. D + N /\ Len(dirTable') = D + N
       /\ \A k \in 1 .. D + N : dirTable'[k].at \in Nat
  <2>1. t \in Seq(Item)
    BY <1>7 DEF Extends
  <2>2. ASSUME NEW k \in 1 .. D + N PROVE t[k].at \in Nat
    <3>1. t[k] \in Item
      BY <2>1, <1>7
    <3> QED BY <3>1 DEF Item
  <2> QED BY <2>1, <2>2, <1>7
<1>12. PICK T, y : T = dirTable' /\ y = dirSize' /\ y = w + z /\ y \in Nat
  <2>1. PICK y : y = w + z /\ y \in Nat
    BY <1>2
  <2>2. y = dirSize'
    BY <2>1, <1>3
  <2> QED BY <2>1, <2>2
<1>13. ASSUME NEW from \in Nat, NEW lo \in Nat, r.index = IndexAt(es, from), lo + N <= D + N,
              \A k \in 1 .. N : T[lo + k] = EncodedEntry(es, k, from),
              \A n \in 1 .. D + N : n > lo + N => T[n].at >= from + z,
              from + z <= y
       PROVE  ListedBehind(lo, r, es, from)'
  <2>1. r.index = [n \in DOMAIN PrunedIndex(es) |-> IndexEntry(es, PrunedIndex(es)[n], from)]
    BY <1>13 DEF IndexAt
  <2>2. lo + Len(es) <= Len(dirTable')
    BY <1>1, <1>11, <1>13
  <2>3. \A k \in DOMAIN es : dirTable'[lo + k] = EncodedEntry(es, k, from)
    BY <1>1, <1>12, <1>13
  <2>4. \A n \in DOMAIN dirTable' : n > lo + Len(es) => dirTable'[n].at >= from + ListingSize(es)
    BY <1>1, <1>3, <1>11, <1>12, <1>13
  <2>5. from + ListingSize(es) <= dirSize'
    BY <1>3, <1>12, <1>13
  <2>6. r.size = ListingSize(es) + 3
    BY <1>3, <1>9
  <2> QED BY <2>1, <2>2, <2>3, <2>4, <2>5, <2>6 DEF ListedBehind
<1>14. CASE N = 0
  <2>1. entries[d] = <<>>
    BY <1>1, <1>10, <1>14, EmptySeq
  <2>2. r.start = Place(0) /\ Position(r.start) = 0
    BY <2>1, <1>9, PlaceFacts
  <2>3. PrunedIndex(es) = <<>>
    <3>1. es = <<>>
      BY <1>1, <1>14
    <3> QED BY <3>1 DEF PrunedIndex
  <2>4. r.index = IndexAt(es, 0)
    BY <2>3, <1>9 DEF IndexAt
  <2>5. \A k \in 1 .. N : T[0 + k] = EncodedEntry(es, k, 0)
    BY <1>14
  <2>6. \A n \in 1 .. D + N : n > 0 + N => T[n].at >= 0 + z
    <3>1. z = 0
      BY <1>3, <1>14
    <3>2. \A n \in 1 .. D + N : T[n].at \in Nat
      BY <1>11, <1>12
    <3> QED BY <3>1, <3>2
  <2>7. 0 + N <= D + N /\ 0 + z <= y
    BY <1>1, <1>2, <1>3, <1>4, <1>12, <1>14
  <2>8. ListedBehind(0, r, es, 0)'
    BY <2>4, <2>5, <2>6, <2>7, <1>13
  <2>9. ListedBehind(0, r, es, Position(r.start))'
    BY <2>2, <2>8 DEF ListedBehind
  <2>10. 0 \in 0 .. Len(dirTable')
    BY <1>11
  <2> QED BY <2>2, <2>9, <2>10, <1>8
<1>15. CASE N > 0
  <2>1. entries[d] # <<>>
    BY <1>1, <1>15
  <2>2. r.start = Place(w) /\ Position(r.start) = w
    BY <2>1, <1>2, <1>9, PlaceFacts
  <2>3. \A k \in 1 .. N : T[D + k] = EncodedEntry(es, k, w)
    BY <1>7, <1>12
  <2>4. \A n \in 1 .. D + N : n > D + N => T[n].at >= w + z
    OBVIOUS
  <2>5. D + N <= D + N /\ w + z <= y
    <3>1. D + N \in Nat /\ D + N <= D + N
      BY <1>1, <1>4
    <3>2. w + z <= y
      BY <1>12
    <3> QED BY <3>1, <3>2
  <2>6. ListedBehind(D, r, es, w)'
    BY <2>3, <2>4, <2>5, <1>2, <1>9, <1>13
  <2>7. ListedBehind(D, r, es, Position(r.start))'
    BY <2>2, <2>6 DEF ListedBehind
  <2>8. D \in 0 .. Len(dirTable')
    BY <1>11
  <2> QED BY <2>2, <2>7, <2>8, <1>2, <1>8
<1> QED BY <1>1, <1>14, <1>15

\* A sequence of some elements is not the empty one.
LEMMA NoEmptySeq == ASSUME NEW S, NEW s \in Seq(S), Len(s) # 0 PROVE s # <<>>
  OBVIOUS

\* The calls below the one that returns: the directory that is done is the entry
\* the call above it has reached.
LEMMA CallerFacts ==
    ASSUME IInv, phase = "serialize", Len(stack) # 1,
           NEW s, s = SubSeq(stack, 1, Len(stack) - 1), NEW d, d = Top.dir
    PROVE  /\ s \in Seq(CallFrame) /\ FramesOK(s) /\ Running(s, etype)
           /\ \A n \in DOMAIN s : s[n].dir # d
           /\ s[Len(s)].next <= Len(entries[s[Len(s)].dir])
           /\ entries[s[Len(s)].dir][s[Len(s)].next].inode = d
<1>1. PICK N \in Nat : N = Len(stack) /\ N >= 2 /\ DOMAIN stack = 1 .. N /\ d = stack[N].dir
  <2>1. PICK N \in Nat : N = Len(stack) /\ N >= 1 /\ Top = stack[N]
    BY TopFacts
  <2>2. DOMAIN stack = 1 .. N
    BY <2>1, InvTypes DEF FramesOK
  <2>3. N >= 2
    BY <2>1
  <2> QED BY <2>1, <2>2, <2>3
<1>2. /\ stack \in Seq(CallFrame)
      /\ \A n \in 1 .. N : stack[n].next <= Len(entries[stack[n].dir]) + 1
  BY <1>1, InvTypes DEF FramesOK
<1>3. PICK M \in Nat : M = N - 1 /\ M >= 1
  BY <1>1, SMTT(20)
<1>4. s \in Seq(CallFrame) /\ Len(s) = M /\ DOMAIN s = 1 .. M /\ \A n \in 1 .. M : s[n] = stack[n]
  <2>1. s = SubSeq(stack, 1, M)
    BY <1>1, <1>3
  <2>2. M <= Len(stack)
    BY <1>1, <1>3
  <2> QED BY <2>1, <2>2, <1>2
<1>5. \A n \in 1 .. M : n \in 1 .. N
  BY <1>3
<1>6. FramesOK(s)
  BY <1>2, <1>4, <1>5 DEF FramesOK
<1>7. Running(stack, etype)
  BY IsRunning
<1>8. /\ stack # <<>> /\ stack[1].dir = root
      /\ \A n \in 1 .. N :
            /\ kind[stack[n].dir] = "dir" /\ etype[stack[n].dir] = "none"
            /\ \A k \in 1 .. stack[n].next - 1 : etype[entries[stack[n].dir][k].inode] # "none"
      /\ \A n \in 1 .. M :
            /\ stack[n].next <= Len(entries[stack[n].dir])
            /\ entries[stack[n].dir][stack[n].next].inode = stack[n + 1].dir
  BY <1>1, <1>3, <1>7 DEF Running
<1>9. Running(s, etype)
  <2>1. s # <<>> /\ s[1].dir = root
    <3>1. 1 \in 1 .. M
      BY <1>3
    <3>2. s # <<>>
      <4>1. Len(s) # 0
        BY <1>3, <1>4
      <4> QED BY <4>1, <1>4, NoEmptySeq
    <3>3. s[1] = stack[1]
      BY <3>1, <1>4
    <3> QED BY <3>2, <3>3, <1>8
  <2>2. ASSUME NEW n \in 1 .. M
        PROVE  /\ kind[s[n].dir] = "dir" /\ etype[s[n].dir] = "none"
               /\ \A k \in 1 .. s[n].next - 1 : etype[entries[s[n].dir][k].inode] # "none"
    <3>1. s[n] = stack[n] /\ n \in 1 .. N
      BY <1>4, <1>5
    <3> QED BY <3>1, <1>8
  <2>3. ASSUME NEW n \in 1 .. M - 1
        PROVE  /\ s[n].next <= Len(entries[s[n].dir])
               /\ entries[s[n].dir][s[n].next].inode = s[n + 1].dir
    <3>1. n \in 1 .. M /\ n + 1 \in 1 .. M
      BY <1>3
    <3> QED BY <3>1, <1>4, <1>8
  <2>4. /\ \A n \in DOMAIN s :
              /\ kind[s[n].dir] = "dir" /\ etype[s[n].dir] = "none"
              /\ \A k \in 1 .. s[n].next - 1 : etype[entries[s[n].dir][k].inode] # "none"
        /\ \A n \in 1 .. Len(s) - 1 :
              /\ s[n].next <= Len(entries[s[n].dir])
              /\ entries[s[n].dir][s[n].next].inode = s[n + 1].dir
    <3>1. DOMAIN s = 1 .. M /\ Len(s) - 1 = M - 1
      BY <1>4
    <3> QED BY <2>2, <2>3, <3>1
  <2> QED BY <2>1, <2>4 DEF Running
<1>10. \A n \in 1 .. M : s[n].dir # d
  BY <1>1, <1>3, <1>4, RunsOnce
<1>11. s[M].next <= Len(entries[s[M].dir]) /\ entries[s[M].dir][s[M].next].inode = d
  <2>1. M \in 1 .. M /\ M + 1 = N
    BY <1>1, <1>3
  <2> QED BY <2>1, <1>1, <1>4, <1>8
<1> QED BY <1>4, <1>6, <1>9, <1>10, <1>11

\* Encoding a directory keeps the invariant: its listing is behind all the others, and the
\* caller goes on to its next entry.
LEMMA EncodeDirectoryKeeps ==
    ASSUME IInv, EncodeDirectory
    PROVE  IInv'
<1>1. PICK d, es, r : d = Top.dir /\ es = Seen(d) /\ r = DirRecord(d, dirSize)
  OBVIOUS
<1>2. /\ AtEnd
      /\ dirTable' = dirTable \o Encoded(es, dirSize)
      /\ dirSize' = dirSize + ListingSize(es)
      /\ etype' = [etype EXCEPT ![d] = DirType(d)]
      /\ place' = [place EXCEPT ![d] = inodeSize]
      /\ \/ /\ inodeTable' = inodeTable \cup {r}
            /\ inodeSize' = inodeSize + RecordSize + IndexSize * Len(r.index)
            /\ stack' = Advance(SubSeq(stack, 1, Len(stack) - 1))
            /\ phase' = IF Len(stack) = 1 THEN "serialized" ELSE "serialize"
         \/ /\ phase' = "failed"
            /\ inodeTable' = inodeTable /\ inodeSize' = inodeSize /\ stack' = stack
      /\ UNCHANGED treeVars
  BY <1>1 DEF EncodeDirectory
<1>3. /\ phase = "serialize" /\ d \in Inodes /\ kind[d] = "dir" /\ etype[d] = "none"
      /\ \A k \in DOMAIN entries[d] : etype[entries[d][k].inode] # "none"
      /\ es \in Seq(SeenType) /\ Len(es) = Len(entries[d])
  BY <1>1, <1>2, EndFacts
<1>4. /\ r.inode = d /\ r.kind = "dir" /\ r.at = inodeSize /\ r.nlink = nlink[d]
      /\ DirType(d) \in {"short", "long"} /\ Len(r.index) \in Nat
  BY <1>1, <1>3, InvTypes, RecordFacts
<1>5. (IF r.nlink = -1 THEN 1 ELSE r.nlink) = nlink[d]
  <2>1. nlink[d] \in Nat
    BY <1>3, InvTypes, InodeFacts
  <2> QED BY <2>1, <1>4
<1>6. PICK type : type = DirType(d) /\ type \in {"short", "long"} /\ type # "none" /\ Typed(d, type)
  BY <1>2, <1>3, <1>4 DEF Typed
<1>7. /\ Etypes(etype') /\ Places(place') /\ etype'[d] = type /\ inodeSize \in Nat
      /\ \A i \in Inodes : i # d => etype'[i] = etype[i] /\ place'[i] = place[i]
  BY <1>6, TypedFacts
<1>8. Recorded(d, r) \/ Failed
  <2>1. CASE phase' = "failed" /\ inodeTable' = inodeTable
    BY <2>1 DEF Failed
  <2>2. CASE inodeTable' = inodeTable \cup {r} /\ phase' \in {"serialize", "serialized"}
    BY <2>2, <1>3, <1>4, <1>5 DEF Recorded
  <2> QED BY <2>1, <2>2, <1>2
<1>9. RecordInv'
  BY <1>2, <1>3, <1>6, <1>8, RecordsKept
<1>10. /\ Extends(dirTable', dirSize')
       /\ r.start = Place(Position(r.start)) /\ Position(r.start) \in Nat
       /\ \E lo \in 0 .. Len(dirTable') : ListedBehind(lo, r, es, Position(r.start))'
  BY <1>1, <1>2, <1>3, NewListing
<1>11. inodeTable \subseteq inodeTable'
  BY <1>2
<1>12. OnDiskRight(r)'
  <2>1. \A k \in DOMAIN entries[d] : entries[d][k].inode # d
    BY <1>3
  <2>2. Seen(d)' = es
    BY <2>1, <1>1, <1>2, <1>3, <1>7, SeenKept, ZenonT(40)
  <2>3. ASSUME NEW k \in DOMAIN entries[d]
        PROVE  \E q \in inodeTable' : q.inode = entries[d][k].inode
    <3>1. entries[d][k].inode \in Inodes /\ etype[entries[d][k].inode] # "none"
      BY <1>3, InvTypes, EntryFacts
    <3>2. \E q \in inodeTable : q.inode = entries[d][k].inode
      BY <3>1, <1>3 DEF IInv, TreeInv, RecordInv
    <3> QED BY <3>2, <1>11
  <2>4. entries' = entries
    BY <1>2 DEF treeVars
  <2> QED BY <2>2, <2>3, <2>4, <1>4, <1>10 DEF OnDiskRight
<1>13. ListingInv'
  <2>1. \A q \in DirectoriesOnDisk : OnDiskRight(q)'
    BY <1>2, <1>3, <1>7, <1>10, <1>11, StillRight
  <2>2. ASSUME NEW q \in DirectoriesOnDisk' PROVE q = r \/ q \in DirectoriesOnDisk
    BY <1>2 DEF DirectoriesOnDisk
  <2>3. \A q \in DirectoriesOnDisk' : OnDiskRight(q)'
    BY <2>1, <2>2, <1>12
  <2> QED BY <2>3, <1>10, ListingNext
<1>14. inodeSize' \in Nat
  <2>1. PICK m \in Nat, n \in Nat : m = IndexSize /\ n = Len(r.index)
    BY <1>4, TreeSizes
  <2>2. PICK p \in Nat : p = m * n
    BY <2>1
  <2>3. inodeSize + RecordSize + p \in Nat
    BY <1>7, TreeSizes
  <2> QED BY <2>1, <2>2, <2>3, <1>2, <1>7
<1>15. StackInv' /\ FramesOK(stack') /\ phase' \in {"serialize", "serialized", "failed"}
  <2>1. CASE phase' = "failed" /\ stack' = stack
    <3>1. StackInv'
      BY <2>1 DEF StackInv
    <3> QED BY <2>1, <3>1, InvTypes
  <2>2. CASE /\ phase' = IF Len(stack) = 1 THEN "serialized" ELSE "serialize"
             /\ stack' = Advance(SubSeq(stack, 1, Len(stack) - 1))
    <3>1. CASE Len(stack) = 1
      <4>1. SubSeq(stack, 1, Len(stack) - 1) = <<>>
        BY <3>1, InvTypes DEF FramesOK
      <4>2. stack' = <<>> /\ phase' = "serialized"
        BY <4>1, <2>2, <3>1 DEF Advance
      <4>3. root = d
        BY <3>1, <1>1, <1>3, TopFacts, IsRunning DEF Running
      <4>4. root' = d
        BY <4>3, <1>2 DEF treeVars
      <4>5. d # 0 /\ etype'[d] # "none"
        BY <1>3, <1>6, <1>7, InvTypes, InodeFacts
      <4>6. StackInv'
        BY <4>2, <4>4, <4>5 DEF StackInv
      <4>7. FramesOK(stack')
        BY <4>2 DEF FramesOK
      <4> QED BY <4>2, <4>6, <4>7
    <3>2. CASE Len(stack) # 1
      <4>1. PICK s : s = SubSeq(stack, 1, Len(stack) - 1)
        OBVIOUS
      <4>2. /\ s \in Seq(CallFrame) /\ FramesOK(s) /\ Running(s, etype)
            /\ \A n \in DOMAIN s : s[n].dir # d
            /\ s[Len(s)].next <= Len(entries[s[Len(s)].dir])
            /\ entries[s[Len(s)].dir][s[Len(s)].next].inode = d
        BY <4>1, <3>2, <1>1, <1>3, CallerFacts
      <4>3. Running(s, etype')
        BY <4>2, <1>6, TypedRuns
      <4>4. etype'[entries[s[Len(s)].dir][s[Len(s)].next].inode] # "none"
        BY <4>2, <1>6, <1>7
      <4>5. FramesOK(Advance(s)) /\ Running(Advance(s), etype')
        BY <4>2, <4>3, <4>4, AdvanceRuns
      <4>6. stack' = Advance(s) /\ phase' = "serialize"
        BY <4>1, <2>2, <3>2
      <4>7. StackInv'
        BY <4>5, <4>6, <1>2, RunningNext
      <4> QED BY <4>5, <4>6, <4>7
    <3> QED BY <3>1, <3>2
  <2> QED BY <2>1, <2>2, <1>2
<1>16. BuildInv'
  BY <1>15 DEF BuildInv
<1>17. TreeTypeOK'
  <2>1. dirTable' \in Seq(Item) /\ dirSize' \in Nat
    BY <1>10 DEF Extends
  <2> QED BY <2>1, <1>2, <1>7, <1>14, <1>15, InvTypes, TypesKept
<1>18. SortedInv' /\ ParentInv' /\ LinksFinite' /\ LinkCounts'
  BY <1>2, TreeUnchanged
<1> QED BY <1>9, <1>13, <1>15, <1>16, <1>17, <1>18 DEF IInv, TreeInv

----------------------------------------------------------------------------
(* The theorems.                                                            *)

\* Where nothing changes, the invariant stays.
LEMMA StutterKeeps ==
    ASSUME IInv, UNCHANGED <<treeVars, tableVars, runVars>>
    PROVE  IInv'
<1>1. UNCHANGED treeVars
  OBVIOUS
<1>2. SortedInv' /\ ParentInv' /\ LinksFinite' /\ LinkCounts'
  BY <1>1, TreeUnchanged
<1>3. Inodes' = Inodes /\ Entry' = Entry
  BY <1>1, TreeUnchanged
<1>4. /\ etype' = etype /\ place' = place /\ inodeTable' = inodeTable /\ inodeSize' = inodeSize
      /\ dirTable' = dirTable /\ dirSize' = dirSize /\ phase' = phase /\ stack' = stack
      /\ kind' = kind /\ nlink' = nlink /\ entries' = entries /\ root' = root
      /\ xattr' = xattr /\ parent' = parent /\ oom' = oom
  BY DEF treeVars, tableVars, runVars
<1>5. TreeTypeOK'
  BY <1>3, <1>4 DEF IInv, TreeInv, TreeTypeOK
<1>6. BuildInv' /\ StackInv'
  BY <1>3, <1>4 DEF IInv, TreeInv, BuildInv, StackInv
<1>7. RecordInv'
  BY <1>3, <1>4 DEF IInv, TreeInv, RecordInv
<1>8. ListingInv'
  BY <1>1, ListingsKept
<1> QED BY <1>2, <1>5, <1>6, <1>7, <1>8 DEF IInv, TreeInv

\* Every function of the application and every step of the serialization keeps the
\* invariant.
LEMMA NextKeeps ==
    ASSUME IInv, [Next]_<<treeVars, tableVars, runVars>>
    PROVE  IInv'
<1>1. CASE Build
  <2>1. CASE \E m \in Makes : CreateInode(m)
    BY <2>1, CreateInodeKeeps
  <2>2. CASE \E d \in Inodes : SetRoot(d)
    BY <2>2, SetRootKeeps
  <2>3. CASE \E d, i \in Inodes, name \in Names : AddEntry(d, name, i) \/ AddEntryFail(d, name, i)
    BY <2>3, AddEntryKeeps, AddEntryFailKeeps
  <2> QED BY <1>1, <2>1, <2>2, <2>3 DEF Build
<1>2. CASE SerializeRoot
  BY <1>2, SerializeRootKeeps
<1>3. CASE VisitEncoded
  BY <1>3, VisitEncodedKeeps
<1>4. CASE VisitDirectory
  BY <1>4, VisitDirectoryKeeps
<1>5. CASE VisitLeaf
  BY <1>5, VisitLeafKeeps
<1>6. CASE EncodeDirectory
  BY <1>6, EncodeDirectoryKeeps
<1>7. CASE EncodeFail
  BY <1>7, EncodeFailKeeps
<1>8. CASE UNCHANGED <<treeVars, tableVars, runVars>>
  BY <1>8, StutterKeeps
<1> QED BY <1>1, <1>2, <1>3, <1>4, <1>5, <1>6, <1>7, <1>8 DEF Next, SerializeStep

\* The inductive invariant holds in every state.
LEMMA TreeIInv == Spec => []IInv
  BY InitIInv, NextKeeps, PTL DEF Spec

\* The inductive invariant of the tree and its tables: directories stay sorted and
\* free of cycles, the recursion of libsqfs_directory_serialize leads from the root
\* down to directories not yet encoded, every encoded inode has one record, and every
\* encoded directory has its listing, whole and in one piece, in the directory table.
THEOREM TreeInvariant == Spec => []TreeInv
<1>1. IInv => TreeInv
  BY DEF IInv
<1> QED BY <1>1, TreeIInv, PTL

\* The link counts that libsqfs_image_set_root and libsqfs_directory_add_entry keep
\* are the numbers of links in the tree, whatever is entered where, how often, and
\* in which order; a directory has at most too many, after add_entry has run out of
\* memory.
THEOREM LinksAlwaysCounted == Spec => []LinkCounts
<1>1. IInv => LinkCounts
  BY DEF IInv
<1> QED BY <1>1, TreeIInv, PTL

\* Whoever reads the tables, also those of a serialization that failed half-way,
\* finds in the listing of every directory that has an inode on disk its entries with
\* their names, types, numbers and places: for every tree, with hard links, and all
\* sizes of blocks, headers and fields.
THEOREM TreeAlwaysReadBack == Spec => []TreeReadBack
<1>1. IInv => TreeReadBack
  BY InvReadBack DEF IInv
<1> QED BY <1>1, TreeIInv, PTL

\* libsqfs_directory_encode keeps the rules of the format: names are sorted, no header
\* counts more than MaxRun entries, and the entries behind a header that has more than
\* one fit a metadata block with it.
THEOREM ListingsFollowRules == Spec => []ListingRules
<1>1. IInv => ListingRules
  BY InvRules DEF IInv
<1> QED BY <1>1, TreeIInv, PTL

\* Every entry of an index that libsqfs_directory_inode_prune_index leaves leads to
\* the header and the entry it names, more than IndexSpacing entries behind the one
\* before.
THEOREM IndexAlwaysUsable == Spec => []IndexUsable
<1>1. IInv => IndexUsable
  BY InvIndex DEF IInv
<1> QED BY <1>1, TreeIInv, PTL
=============================================================================

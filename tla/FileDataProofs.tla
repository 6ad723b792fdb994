--------------------------- MODULE FileDataProofs ---------------------------
(***************************************************************************)
(* The chunks of a file tile it, and every chunk that is accepted holds    *)
(* the bytes of the source that belong to it, for any size of a block, any *)
(* file, any compound of pieces and any changes of the file in between.    *)
(***************************************************************************)
EXTENDS FileData, WellFoundedInduction, TLAPS

-----------------------------------------------------------------------------
(* Numbers.                                                                *)

\* A set of numbers has a least element.
LEMMA LeastNumber ==
    ASSUME NEW T \in SUBSET Nat, T # {}
    PROVE  \E x \in T : \A y \in T : x <= y
<1> DEFINE R == {ss \in Nat \X Nat : ss[1] < ss[2]}
<1>1. IsWellFoundedOn(R, Nat)
  BY NatLessThanWellFounded, Zenon DEF OpToRel
<1> HIDE DEF R
<1>2. PICK x \in T : \A y \in T : ~(<<y, x>> \in R)
  BY <1>1, WFMin, Zenon
<1>3. \A y \in T : ~(y < x)
  <2> SUFFICES ASSUME NEW y \in T, y < x PROVE FALSE
    OBVIOUS
  <2>1. <<y, x>> \in R
    BY DEF R
  <2> QED BY <1>2, <2>1
<1> QED BY <1>3

\* Quotient and remainder.
LEMMA DivideBySize ==
    ASSUME NEW a \in Nat
    PROVE  /\ a \div BlockSize \in Nat /\ a % BlockSize \in 0 .. BlockSize - 1
           /\ a = BlockSize * (a \div BlockSize) + (a % BlockSize)
  BY FileBlockSizePositive

\* Places of blocks.
LEMMA TimesSize ==
    ASSUME NEW k \in Nat
    PROVE  k * BlockSize \in Nat /\ (k + 1) * BlockSize = k * BlockSize + BlockSize
           /\ BlockSize * k = k * BlockSize
  BY FileBlockSizePositive

\* A later block lies behind the end of an earlier one.
LEMMA LaterBlock ==
    ASSUME NEW k \in Nat, NEW m \in Nat, k < m
    PROVE  k * BlockSize + BlockSize <= m * BlockSize
<1>1. PICK d \in Nat : m = k + 1 + d
  <2>1. m - k - 1 \in Nat /\ m = k + 1 + (m - k - 1)
    OBVIOUS
  <2> QED BY <2>1
<1>2. m * BlockSize = k * BlockSize + BlockSize + d * BlockSize
  BY <1>1, FileBlockSizePositive
<1> QED BY <1>2, TimesSize, FileBlockSizePositive

-----------------------------------------------------------------------------
(* How a file is cut up.                                                   *)

\* The blocks and the tail of a file of a given size: they cover it, all blocks
\* but the last are full, and so is that one if there is a tail.
LEMMA ShapeFacts ==
    ASSUME NEW s \in Nat
    PROVE  \E b \in Nat, t \in Nat :
              /\ BlocksAndTail(s).nblocks = b /\ BlocksAndTail(s).tail = t
              /\ t < BlockSize
              /\ t # 0 => b * BlockSize + t = s /\ b = s \div BlockSize
              /\ t = 0 => /\ s <= b * BlockSize /\ b = RoundUp(s)
                          /\ b # 0 => (b - 1) * BlockSize < s
<1>0. BlockSize \in Nat /\ BlockSize >= 1
  BY FileBlockSizePositive
<1>1. CASE policy = "always"
  <2>1. PICK b \in Nat, t \in Nat : b = s \div BlockSize /\ t = s % BlockSize
    BY DivideBySize
  <2>2. t < BlockSize /\ s = BlockSize * b + t
    BY <2>1, <1>0, DivideBySize
  <2>3. s = b * BlockSize + t /\ b * BlockSize \in Nat
    BY <2>2, TimesSize
  <2>4. BlocksAndTail(s).nblocks = b /\ BlocksAndTail(s).tail = t
    BY <1>1, <2>1 DEF BlocksAndTail
  <2>5. ASSUME b # 0 PROVE (b - 1) * BlockSize + BlockSize = b * BlockSize /\ (b - 1) * BlockSize \in Nat
    <3>1. b - 1 \in Nat /\ (b - 1) + 1 = b
      BY <2>5
    <3> QED BY <3>1, TimesSize
  <2>6. ASSUME t = 0 PROVE b = RoundUp(s)
    <3>1. s + BlockSize - 1 = BlockSize * b + (BlockSize - 1)
      BY <2>2, <2>6, <1>0
    <3>2. PICK x \in Nat : x = s + BlockSize - 1
      BY <1>0
    <3>3. (x \div BlockSize) = b
      BY <3>1, <3>2, <1>0
    <3> QED BY <3>2, <3>3 DEF RoundUp
  <2>7. t # 0 => b * BlockSize + t = s /\ b = s \div BlockSize
    BY <2>1, <2>3
  <2>8. t = 0 => s <= b * BlockSize
    BY <2>3
  <2>9. ASSUME t = 0, b # 0 PROVE (b - 1) * BlockSize < s
    <3>1. PICK m \in Nat, x \in Nat : m = b * BlockSize /\ x = (b - 1) * BlockSize
      BY <2>3, <2>5, <2>9
    <3>2. x + BlockSize = m /\ s = m + 0
      BY <3>1, <2>3, <2>5, <2>9
    <3>3. x < s
      BY <3>2, <1>0
    <3> QED BY <3>1, <3>3
  <2> QED BY <2>2, <2>4, <2>6, <2>7, <2>8, <2>9
<1>2. CASE policy # "always" /\ policy = "small" /\ s < BlockSize
  <2>1. BlocksAndTail(s).nblocks = 0 /\ BlocksAndTail(s).tail = s
    BY <1>2 DEF BlocksAndTail
  <2>2. 0 = s \div BlockSize /\ 0 * BlockSize = 0
    BY <1>0, <1>2
  <2>3. s = 0 => 0 = RoundUp(s)
    BY <1>0 DEF RoundUp
  <2> QED BY <2>1, <2>2, <2>3, <1>2
<1>3. CASE policy # "always" /\ ~(policy = "small" /\ s < BlockSize)
  <2>1. PICK x \in Nat : x = s + BlockSize - 1
    BY <1>0
  <2>2. PICK b \in Nat : b = x \div BlockSize
    BY DivideBySize
  <2>3. BlocksAndTail(s).nblocks = b /\ BlocksAndTail(s).tail = 0 /\ b = RoundUp(s)
    BY <1>3, <2>1, <2>2 DEF BlocksAndTail, RoundUp
  <2>4. PICK r \in 0 .. BlockSize - 1 : x = BlockSize * b + r
    BY <2>2, DivideBySize
  <2>5. BlockSize * b = b * BlockSize /\ b * BlockSize \in Nat
    BY TimesSize
  <2>6. s <= b * BlockSize
    BY <2>1, <2>4, <2>5, <1>0
  <2>7. ASSUME b # 0 PROVE (b - 1) * BlockSize < s
    <3>1. b - 1 \in Nat /\ (b - 1) + 1 = b
      BY <2>7
    <3>2. (b - 1) * BlockSize + BlockSize = b * BlockSize
      BY <3>1, TimesSize
    <3> QED BY <3>1, <3>2, <2>1, <2>4, <2>5, <1>0, TimesSize
  <2> QED BY <2>3, <2>6, <2>7, <1>0
<1> QED BY <1>1, <1>2, <1>3

\* Block k of a file of b blocks and a tail of t bytes.
LEMMA BlockPieceFacts ==
    ASSUME fileSize \in Nat, NEW b \in Nat, NEW t \in Nat, t < BlockSize,
           t # 0 => b * BlockSize + t = fileSize,
           t = 0 => fileSize <= b * BlockSize /\ (b # 0 => (b - 1) * BlockSize < fileSize),
           NEW k \in Nat, k < b
    PROVE  /\ BlockPiece(k) \in ChunkType
           /\ BlockPiece(k).kind = "block" /\ BlockPiece(k).offset = k * BlockSize
           /\ BlockPiece(k).size \in 1 .. BlockSize
           /\ k * BlockSize + BlockPiece(k).size <= fileSize
           /\ k + 1 < b \/ t # 0 => BlockPiece(k).size = BlockSize
           /\ k + 1 = b /\ t = 0 => k * BlockSize + BlockPiece(k).size = fileSize
<1>0. BlockSize \in Nat /\ BlockSize >= 1
  BY FileBlockSizePositive
<1>1. PICK o \in Nat, e \in Nat : o = k * BlockSize /\ e = b * BlockSize
  BY TimesSize
<1>2. o + BlockSize <= e
  BY <1>1, LaterBlock
<1>3. b - 1 \in Nat /\ (b - 1) + 1 = b
  OBVIOUS
<1>4. (b - 1) * BlockSize = e - BlockSize
  BY <1>0, <1>1, <1>3, TimesSize
<1>5. k + 1 < b => o + BlockSize <= e - BlockSize
  <2>1. k + 1 < b => k < b - 1
    OBVIOUS
  <2> QED BY <2>1, <1>1, <1>3, <1>4, LaterBlock
<1>6. k + 1 = b => o = e - BlockSize
  <2>1. k + 1 = b => k = b - 1
    OBVIOUS
  <2> QED BY <2>1, <1>1, <1>4
<1>7. t # 0 => e + t = fileSize
  BY <1>1
<1>8. t = 0 => fileSize <= e /\ e - BlockSize < fileSize
  BY <1>1, <1>3, <1>4
<1>9. o < fileSize
  BY <1>0, <1>2, <1>7, <1>8
<1>10. PICK z \in Nat : z = (IF fileSize - o < BlockSize THEN fileSize - o ELSE BlockSize)
  BY <1>0, <1>9
<1>11. z \in 1 .. BlockSize /\ o + z <= fileSize
  BY <1>0, <1>9, <1>10
<1>12. k + 1 < b \/ t # 0 => z = BlockSize
  BY <1>0, <1>2, <1>5, <1>7, <1>8, <1>10
<1>13. k + 1 = b /\ t = 0 => o + z = fileSize
  BY <1>0, <1>6, <1>8, <1>10
<1>14. BlockPiece(k) = [kind |-> "block", offset |-> o, size |-> z]
  BY <1>1, <1>10 DEF BlockPiece
<1>15. BlockPiece(k).kind = "block" /\ BlockPiece(k).offset = o /\ BlockPiece(k).size = z
  BY <1>14
<1>16. BlockPiece(k) \in ChunkType
  BY <1>14 DEF ChunkType
<1> QED BY <1>1, <1>11, <1>12, <1>13, <1>15, <1>16

\* The tail of a file of b blocks and a tail of t bytes.
LEMMA TailPieceFacts ==
    ASSUME fileSize \in Nat, NEW b \in Nat, NEW t \in Nat, BlocksAndTail(fileSize).tail = t,
           b * BlockSize + t = fileSize
    PROVE  /\ TailPiece \in ChunkType /\ TailPiece.kind = "piece"
           /\ TailPiece.offset = b * BlockSize /\ TailPiece.size = t
<1>1. PICK o \in Nat : o = b * BlockSize
  BY TimesSize
<1>2. fileSize - t = o
  BY <1>1
<1>3. TailPiece = [kind |-> "piece", offset |-> o, size |-> t]
  BY <1>2 DEF TailPiece
<1> QED BY <1>1, <1>3 DEF ChunkType

\* The chunks of a file, one by one.
LEMMA ChunkFacts ==
    ASSUME FileTypeOK, ChunksInv, chunks # <<>>
    PROVE  \E b \in Nat, t \in Nat :
              /\ Shape.nblocks = b /\ Shape.tail = t /\ fileSize \in Nat
              /\ t < BlockSize
              /\ t # 0 => b * BlockSize + t = fileSize /\ b = fileSize \div BlockSize
              /\ t = 0 => b = RoundUp(fileSize)
              /\ \A i \in 1 .. Len(chunks) :
                    /\ chunks[i].offset = (i - 1) * BlockSize /\ chunks[i].size \in 1 .. BlockSize
                    /\ chunks[i].offset + chunks[i].size <= fileSize
                    /\ i < Len(chunks) => chunks[i].size = BlockSize
                    /\ i <= b + (IF t = 0 THEN 0 ELSE 1)
                    /\ i = b + (IF t = 0 THEN 0 ELSE 1) => chunks[i].offset + chunks[i].size = fileSize
                    /\ chunks[i].kind = "piece" <=> i = b + 1
<1>1. fileSize \in Nat
  BY DEF ChunksInv, FileTypeOK
<1>2. PICK b \in Nat, t \in Nat :
              /\ BlocksAndTail(fileSize).nblocks = b /\ BlocksAndTail(fileSize).tail = t
              /\ t < BlockSize
              /\ t # 0 => b * BlockSize + t = fileSize /\ b = fileSize \div BlockSize
              /\ t = 0 => /\ fileSize <= b * BlockSize /\ b = RoundUp(fileSize)
                          /\ b # 0 => (b - 1) * BlockSize < fileSize
  BY <1>1, ShapeFacts
<1>3. Shape.nblocks = b /\ Shape.tail = t
  BY <1>2 DEF Shape
<1>4. chunks \in Seq(ChunkType) /\ Len(chunks) \in Nat /\ BlockSize \in Nat
  BY FileBlockSizePositive DEF FileTypeOK
<1>5. \A i \in 1 .. Len(chunks) :
          \/ i <= b /\ chunks[i] = BlockPiece(i - 1)
          \/ i = b + 1 /\ t # 0 /\ chunks[i] = TailPiece
  BY <1>3, <1>4 DEF ChunksInv
<1>6. ASSUME NEW i \in 1 .. Len(chunks)
      PROVE  /\ chunks[i].offset = (i - 1) * BlockSize /\ chunks[i].size \in 1 .. BlockSize
             /\ chunks[i].offset + chunks[i].size <= fileSize
             /\ i < Len(chunks) => chunks[i].size = BlockSize
             /\ i <= b + (IF t = 0 THEN 0 ELSE 1)
             /\ i = b + (IF t = 0 THEN 0 ELSE 1) => chunks[i].offset + chunks[i].size = fileSize
             /\ chunks[i].kind = "piece" <=> i = b + 1
  <2>1. i - 1 \in Nat /\ (i - 1) + 1 = i
    OBVIOUS
  <2>2. i < Len(chunks) => i < b \/ (i = b /\ t # 0)
    <3> SUFFICES ASSUME i < Len(chunks) PROVE i < b \/ (i = b /\ t # 0)
      OBVIOUS
    <3>1. i + 1 \in 1 .. Len(chunks)
      BY <1>4
    <3>2. i + 1 <= b \/ (i + 1 = b + 1 /\ t # 0)
      BY <3>1, <1>5
    <3> QED BY <3>2
  <2>3. CASE i <= b /\ chunks[i] = BlockPiece(i - 1)
    <3>1. PICK k \in Nat : k = i - 1 /\ k < b
      BY <2>1, <2>3
    <3>2. PICK c : c = BlockPiece(k)
      OBVIOUS
    <3>3. /\ c.kind = "block" /\ c.offset = k * BlockSize /\ c.size \in 1 .. BlockSize
          /\ k * BlockSize + c.size <= fileSize
          /\ k + 1 < b \/ t # 0 => c.size = BlockSize
          /\ k + 1 = b /\ t = 0 => k * BlockSize + c.size = fileSize
      <4>1. /\ BlockPiece(k).kind = "block" /\ BlockPiece(k).offset = k * BlockSize
            /\ BlockPiece(k).size \in 1 .. BlockSize
            /\ k * BlockSize + BlockPiece(k).size <= fileSize
            /\ k + 1 < b \/ t # 0 => BlockPiece(k).size = BlockSize
            /\ k + 1 = b /\ t = 0 => k * BlockSize + BlockPiece(k).size = fileSize
        <5>1. /\ t < BlockSize
              /\ t # 0 => b * BlockSize + t = fileSize
              /\ t = 0 => fileSize <= b * BlockSize /\ (b # 0 => (b - 1) * BlockSize < fileSize)
          BY <1>2, Zenon
        <5>2. k < b
          BY <3>1
        <5> QED BY <1>1, <5>1, <5>2, BlockPieceFacts, Zenon
      <4> QED BY <3>2, <4>1, Zenon
    <3>4. k + 1 = i
      BY <3>1
    <3>5. i < Len(chunks) => c.size = BlockSize
      BY <2>2, <3>3, <3>4
    <3>6. i <= b + (IF t = 0 THEN 0 ELSE 1) /\ i # b + 1
          /\ (i = b + (IF t = 0 THEN 0 ELSE 1) => k + 1 = b /\ t = 0)
      BY <2>3, <3>4
    <3> QED BY <2>3, <3>1, <3>2, <3>3, <3>5, <3>6
  <2>4. CASE i = b + 1 /\ t # 0 /\ chunks[i] = TailPiece
    <3>1. PICK c : c = TailPiece
      OBVIOUS
    <3>2. c.kind = "piece" /\ c.offset = b * BlockSize /\ c.size = t
      BY <2>4, <3>1, <1>1, <1>2, TailPieceFacts
    <3>3. i - 1 = b /\ ~(i < Len(chunks))
      BY <2>2, <2>4
    <3>4. b * BlockSize + t = fileSize /\ t \in 1 .. BlockSize
      BY <2>4, <1>2, <1>4
    <3> QED BY <2>4, <3>1, <3>2, <3>3, <3>4, <1>1
  <2> QED BY <2>3, <2>4, <1>5
<1> QED BY <1>1, <1>2, <1>3, <1>6

\* The number of chunks of a file that has been created.
LEMMA CreatedFacts ==
    ASSUME FileTypeOK, ChunksInv, created
    PROVE  /\ fileSize \in Nat
           /\ chunks = <<>> => fileSize = 0 /\ RoundUp(fileSize) = 0
<1>1. fileSize \in Nat
  BY DEF ChunksInv, FileTypeOK
<1>2. PICK b \in Nat, t \in Nat :
              /\ BlocksAndTail(fileSize).nblocks = b /\ BlocksAndTail(fileSize).tail = t
              /\ t = 0 => fileSize <= b * BlockSize /\ b = RoundUp(fileSize)
  BY <1>1, ShapeFacts
<1>3. Len(chunks) = b + (IF t = 0 THEN 0 ELSE 1)
  BY <1>2 DEF ChunksInv, Shape
<1>4. ASSUME chunks = <<>> PROVE fileSize = 0 /\ RoundUp(fileSize) = 0
  <2>1. b = 0 /\ t = 0
    BY <1>3, <1>4
  <2>2. 0 * BlockSize = 0
    BY FileBlockSizePositive
  <2> QED BY <2>1, <2>2, <1>1, <1>2
<1> QED BY <1>1, <1>4

\* The chunks tile the file.
LEMMA ChunksTile ==
    ASSUME FileTypeOK, ChunksInv
    PROVE  ChunksTileFile
<1>1. CASE chunks = <<>>
  BY <1>1, CreatedFacts DEF ChunksTileFile
<1>2. CASE chunks # <<>>
  <2>1. PICK b \in Nat, t \in Nat :
              /\ Shape.nblocks = b /\ Shape.tail = t
              /\ \A i \in 1 .. Len(chunks) :
                    /\ chunks[i].offset = (i - 1) * BlockSize /\ chunks[i].size \in 1 .. BlockSize
                    /\ i < Len(chunks) => chunks[i].size = BlockSize
                    /\ i = b + (IF t = 0 THEN 0 ELSE 1) => chunks[i].offset + chunks[i].size = fileSize
    BY <1>2, ChunkFacts
  <2>2. chunks \in Seq(ChunkType) /\ Len(chunks) \in Nat /\ Len(chunks) >= 1 /\ BlockSize \in Nat
    BY <1>2, FileBlockSizePositive DEF FileTypeOK
  <2>3. ASSUME NEW i \in 1 .. Len(chunks)
        PROVE  /\ chunks[i].size \in 1 .. BlockSize
               /\ chunks[i].offset = IF i = 1 THEN 0 ELSE chunks[i - 1].offset + chunks[i - 1].size
    <3>1. CASE i = 1
      <4>1. chunks[1].offset = (1 - 1) * BlockSize
        BY <3>1, <2>1
      <4>2. (1 - 1) * BlockSize = 0
        BY <2>2
      <4> QED BY <3>1, <4>1, <4>2, <2>1
    <3>2. CASE i # 1
      <4>1. i - 1 \in 1 .. Len(chunks) /\ i - 1 < Len(chunks) /\ i - 2 \in Nat
        BY <3>2, <2>2
      <4>2. PICK k \in Nat : k = i - 2
        BY <4>1
      <4>3. (i - 1) - 1 = k /\ i - 1 = k + 1
        BY <4>2
      <4>4. chunks[i - 1].offset = k * BlockSize /\ chunks[i - 1].size = BlockSize
        BY <4>1, <4>3, <2>1
      <4>5. chunks[i].offset = (k + 1) * BlockSize
        BY <4>3, <2>1
      <4>6. (k + 1) * BlockSize = k * BlockSize + BlockSize
        BY TimesSize
      <4> QED BY <3>2, <4>4, <4>5, <4>6, <2>1
    <3> QED BY <3>1, <3>2
  <2>4. created => Len(chunks) = b + (IF t = 0 THEN 0 ELSE 1)
    BY <2>1 DEF ChunksInv
  <2>5. created => fileSize = chunks[Len(chunks)].offset + chunks[Len(chunks)].size
    BY <2>1, <2>2, <2>4
  <2> QED BY <1>2, <2>2, <2>3, <2>5 DEF ChunksTileFile
<1> QED BY <1>1, <1>2

\* A reader counts as many blocks as there are.
LEMMA ReaderCounts ==
    ASSUME FileTypeOK, ChunksInv
    PROVE  ReaderCountsBlocks
<1> SUFFICES ASSUME created PROVE ReaderCountsBlocks
  BY DEF ReaderCountsBlocks
<1> DEFINE frag == \E i \in DOMAIN chunks : chunks[i].kind = "piece"
<1> SUFFICES /\ (IF frag THEN Len(chunks) - 1 ELSE Len(chunks))
                   = IF frag THEN fileSize \div BlockSize ELSE RoundUp(fileSize)
             /\ frag => chunks[Len(chunks)].kind = "piece"
             /\ \A i \in 1 .. Len(chunks) - 1 : chunks[i].size = BlockSize
  BY DEF ReaderCountsBlocks
<1>1. CASE chunks = <<>>
  <2>1. ~frag /\ Len(chunks) = 0
    BY <1>1
  <2> QED BY <2>1, <1>1, CreatedFacts
<1>2. CASE chunks # <<>>
  <2>1. PICK b \in Nat, t \in Nat :
              /\ Shape.nblocks = b /\ Shape.tail = t
              /\ t # 0 => b = fileSize \div BlockSize
              /\ t = 0 => b = RoundUp(fileSize)
              /\ \A i \in 1 .. Len(chunks) :
                    /\ i < Len(chunks) => chunks[i].size = BlockSize
                    /\ chunks[i].kind = "piece" <=> i = b + 1
    BY <1>2, ChunkFacts
  <2>2. chunks \in Seq(ChunkType) /\ Len(chunks) \in Nat /\ Len(chunks) >= 1
        /\ DOMAIN chunks = 1 .. Len(chunks)
    BY <1>2 DEF FileTypeOK
  <2>3. Len(chunks) = b + (IF t = 0 THEN 0 ELSE 1)
    BY <2>1 DEF ChunksInv
  <2>4. frag <=> t # 0
    BY <2>1, <2>2, <2>3
  <2>5. \A i \in 1 .. Len(chunks) - 1 : chunks[i].size = BlockSize
    BY <2>1, <2>2
  <2>6. CASE t = 0
    BY <2>1, <2>3, <2>4, <2>5, <2>6
  <2>7. CASE t # 0
    <3>1. Len(chunks) - 1 = b /\ Len(chunks) = b + 1
      BY <2>3, <2>7
    <3>2. chunks[Len(chunks)].kind = "piece"
      BY <3>1, <2>1, <2>2
    <3> QED BY <3>1, <3>2, <2>1, <2>4, <2>5, <2>7
  <2> QED BY <2>6, <2>7
<1> QED BY <1>1, <1>2

-----------------------------------------------------------------------------
(* The pieces of a compound.                                               *)

PieceType == [data : Stores, offset : Nat, size : Nat]

\* The sums of the sizes of the first pieces are defined, and are numbers.
LEMMA SizeSums ==
    ASSUME NEW pieces \in Seq(PieceType)
    PROVE  /\ SizeOfFirst(pieces)[0] = 0
           /\ \A k \in 0 .. Len(pieces) : SizeOfFirst(pieces)[k] \in Nat
           /\ \A k \in 1 .. Len(pieces) :
                 SizeOfFirst(pieces)[k] = SizeOfFirst(pieces)[k - 1] + pieces[k].size
<1> PICK N \in Nat : N = Len(pieces)
  OBVIOUS
<1>0. ASSUME NEW k \in 1 .. N PROVE pieces[k].size \in Nat
  <2>1. pieces[k] \in PieceType
    OBVIOUS
  <2> QED BY <2>1 DEF PieceType
<1> DEFINE Front(g, m) == g[0] = 0 /\ \A k \in 1 .. m : g[k] = g[k - 1] + pieces[k].size
           P(m) == \E g \in [0 .. m -> Nat] : Front(g, m)
<1> HIDE DEF P
<1>1. \A m \in 0 .. N : P(m)
  <2> SUFFICES ASSUME ~\A m \in 0 .. N : P(m) PROVE FALSE
    OBVIOUS
  <2> DEFINE T == {m \in 0 .. N : ~P(m)}
  <2>1. T \in SUBSET Nat /\ T # {}
    OBVIOUS
  <2>2. PICK m \in T : \A y \in T : m <= y
    BY <2>1, LeastNumber
  <2>3. m \in 0 .. N /\ ~P(m)
    OBVIOUS
  <2>4. CASE m = 0
    <3>1. [k \in 0 .. 0 |-> 0] \in [0 .. 0 -> Nat] /\ Front([k \in 0 .. 0 |-> 0], 0)
      OBVIOUS
    <3> QED BY <3>1, <2>3, <2>4 DEF P
  <2>5. CASE m # 0
    <3>1. m - 1 \in 0 .. N /\ m - 1 \notin T
      BY <2>2, <2>3, <2>5
    <3>2. PICK g \in [0 .. m - 1 -> Nat] : Front(g, m - 1)
      BY <3>1 DEF P
    <3> DEFINE h == [k \in 0 .. m |-> IF k < m THEN g[k] ELSE g[m - 1] + pieces[m].size]
    <3>3. m \in 1 .. N /\ m - 1 \in 0 .. m - 1 /\ g[m - 1] \in Nat
      BY <2>3, <2>5
    <3>4. h \in [0 .. m -> Nat]
      BY <1>0, <3>3
    <3>5. h[0] = 0
      BY <3>2, <3>3
    <3>6. ASSUME NEW k \in 1 .. m PROVE h[k] = h[k - 1] + pieces[k].size
      <4>1. h[k - 1] = g[k - 1]
        BY <3>3
      <4>2. CASE k < m
        BY <4>1, <4>2, <3>2, <3>3
      <4>3. CASE k = m
        BY <4>1, <4>3, <3>3
      <4> QED BY <4>2, <4>3, <3>3
    <3>7. P(m)
      BY <3>4, <3>5, <3>6 DEF P
    <3> QED BY <3>7, <2>3
  <2> QED BY <2>4, <2>5
<1>2. PICK g \in [0 .. N -> Nat] : Front(g, N)
  <2>1. P(N)
    BY <1>1
  <2> QED BY <2>1 DEF P
<1> DEFINE IsSum(h) == h = [k \in 0 .. Len(pieces) |-> IF k = 0 THEN 0 ELSE h[k - 1] + pieces[k].size]
           sum == CHOOSE h : IsSum(h)
<1>3. IsSum(g)
  <2>1. \A k \in 0 .. N : g[k] = IF k = 0 THEN 0 ELSE g[k - 1] + pieces[k].size
    BY <1>2
  <2> QED BY <2>1
<1> HIDE DEF IsSum
<1>4. IsSum(sum)
  BY <1>3, Zenon
<1>5. SizeOfFirst(pieces) = sum
  BY Zenon DEF SizeOfFirst, IsSum
<1> HIDE DEF sum
<1>6. sum[0] = 0 /\ \A k \in 1 .. N : sum[k] = sum[k - 1] + pieces[k].size
  BY <1>4 DEF IsSum
<1>7. \A k \in 0 .. N : sum[k] \in Nat
  <2> SUFFICES ASSUME ~\A k \in 0 .. N : sum[k] \in Nat PROVE FALSE
    OBVIOUS
  <2> DEFINE T == {k \in 0 .. N : sum[k] \notin Nat}
  <2>1. T \in SUBSET Nat /\ T # {}
    OBVIOUS
  <2>2. PICK k \in T : \A y \in T : k <= y
    BY <2>1, LeastNumber
  <2>3. k # 0 /\ k \in 1 .. N
    BY <1>6
  <2>4. k - 1 \notin T /\ k - 1 \in 0 .. N
    BY <2>2, <2>3
  <2>5. sum[k - 1] \in Nat
    BY <2>4
  <2> QED BY <2>3, <2>5, <1>0, <1>6
<1> QED BY <1>5, <1>6, <1>7

\* A later piece begins behind the end of an earlier one.
LEMMA PiecesInOrder ==
    ASSUME NEW pieces \in Seq(PieceType), NEW i \in 1 .. Len(pieces), NEW j \in 1 .. Len(pieces), i < j
    PROVE  SizeOfFirst(pieces)[i] <= SizeOfFirst(pieces)[j - 1]
<1> PICK N \in Nat : N = Len(pieces)
  OBVIOUS
<1> PICK sum : sum = SizeOfFirst(pieces)
  OBVIOUS
<1>1. /\ \A k \in 0 .. N : sum[k] \in Nat
      /\ \A k \in 1 .. N : sum[k] = sum[k - 1] + pieces[k].size
  BY SizeSums
<1>2. \A k \in i .. N : sum[i] <= sum[k]
  <2> SUFFICES ASSUME ~\A k \in i .. N : sum[i] <= sum[k] PROVE FALSE
    OBVIOUS
  <2> DEFINE T == {k \in i .. N : ~(sum[i] <= sum[k])}
  <2>1. T \in SUBSET Nat /\ T # {}
    OBVIOUS
  <2>2. PICK k \in T : \A y \in T : k <= y
    BY <2>1, LeastNumber
  <2>3. k \in i .. N /\ ~(sum[i] <= sum[k])
    OBVIOUS
  <2>4. sum[i] \in Nat /\ sum[k] \in Nat
    BY <2>3, <1>1
  <2>5. k # i
    BY <2>3, <2>4
  <2>6. k - 1 \in i .. N /\ k - 1 \notin T /\ k \in 1 .. N
    BY <2>2, <2>3, <2>5
  <2>7. sum[i] <= sum[k - 1] /\ sum[k - 1] \in Nat
    BY <2>6, <1>1
  <2>8. pieces[k].size \in Nat
    <3>1. pieces[k] \in PieceType
      BY <2>6
    <3> QED BY <3>1 DEF PieceType
  <2>9. sum[k] = sum[k - 1] + pieces[k].size
    BY <2>6, <1>1
  <2> QED BY <2>3, <2>4, <2>7, <2>8, <2>9
<1> QED BY <1>2

\* The pieces of a source that is a compound.
LEMMA CompoundPieces ==
    ASSUME src \in Sources, src.kind = "compound"
    PROVE  /\ src.pieces \in Seq(PieceType) /\ Len(src.pieces) \in Nat
           /\ DOMAIN src.pieces = 1 .. Len(src.pieces)
           /\ \A i \in 1 .. Len(src.pieces) :
                 /\ src.pieces[i].data \in Stores /\ src.pieces[i].offset \in Nat
                 /\ src.pieces[i].size \in Nat
                 /\ PieceBegin(i) \in Nat
                 /\ PieceBegin(i + 1) = PieceBegin(i) + src.pieces[i].size
           /\ PieceBegin(1) = 0
           /\ DataGetSize(src) \in Nat
<1>1. src.pieces \in Seq(PieceType)
  BY SourcesWellFormed DEF PieceType
<1>2. Len(src.pieces) \in Nat /\ DOMAIN src.pieces = 1 .. Len(src.pieces)
  BY <1>1
<1>3. PieceBegin(1) = 0
  BY <1>1, SizeSums DEF PieceBegin
<1>4. DataGetSize(src) \in Nat
  BY <1>1, <1>2, SizeSums DEF DataGetSize
<1>5. ASSUME NEW i \in 1 .. Len(src.pieces)
      PROVE  /\ src.pieces[i].data \in Stores /\ src.pieces[i].offset \in Nat
             /\ src.pieces[i].size \in Nat
             /\ PieceBegin(i) \in Nat
             /\ PieceBegin(i + 1) = PieceBegin(i) + src.pieces[i].size
  <2>1. src.pieces[i] \in PieceType
    BY <1>1
  <2>2. i - 1 \in 0 .. Len(src.pieces) /\ (i + 1) - 1 = i
    BY <1>2
  <2>3. PieceBegin(i) \in Nat
    BY <2>2, <1>1, SizeSums DEF PieceBegin
  <2>4. PieceBegin(i + 1) = PieceBegin(i) + src.pieces[i].size
    BY <2>2, <1>1, SizeSums DEF PieceBegin
  <2> QED BY <2>1, <2>3, <2>4 DEF PieceType
<1> QED BY <1>1, <1>2, <1>3, <1>4, <1>5

\* A byte of a compound is that of the piece that contains it: only one does.
LEMMA ByteInPiece ==
    ASSUME src \in Sources, src.kind = "compound", NEW i \in 1 .. Len(src.pieces), NEW p \in Nat,
           ContainsByte(i, p)
    PROVE  ByteOfSource(p) = ByteOfPiece(i, p)
<1>1. src.pieces \in Seq(PieceType) /\ DOMAIN src.pieces = 1 .. Len(src.pieces)
  BY CompoundPieces
<1>2. ASSUME NEW j \in 1 .. Len(src.pieces), NEW k \in 1 .. Len(src.pieces), j < k,
             ContainsByte(j, p), ContainsByte(k, p)
      PROVE  FALSE
  <2>1. /\ PieceBegin(j) \in Nat /\ PieceBegin(k) \in Nat
        /\ PieceBegin(j + 1) = PieceBegin(j) + src.pieces[j].size
    BY CompoundPieces
  <2>2. PieceBegin(j + 1) <= PieceBegin(k)
    <3>1. (j + 1) - 1 = j
      OBVIOUS
    <3>2. SizeOfFirst(src.pieces)[j] <= SizeOfFirst(src.pieces)[k - 1]
      BY <1>1, <1>2, PiecesInOrder
    <3>3. PieceBegin(j + 1) = SizeOfFirst(src.pieces)[j]
      BY <3>1 DEF PieceBegin
    <3>4. PieceBegin(k) = SizeOfFirst(src.pieces)[k - 1]
      BY DEF PieceBegin
    <3> QED BY <3>2, <3>3, <3>4, Zenon
  <2>3. PICK x \in Nat, y \in Nat : x = PieceBegin(k) /\ y = PieceBegin(j + 1)
    <3>1. src.pieces[j].size \in Nat
      BY CompoundPieces, Zenon
    <3> QED BY <2>1, <3>1
  <2>4. x <= p /\ p < y
    BY <2>1, <2>3, <1>2 DEF ContainsByte
  <2> QED BY <2>2, <2>3, <2>4
<1>3. PICK j \in 1 .. Len(src.pieces) :
         j = (CHOOSE l \in DOMAIN src.pieces : ContainsByte(l, p)) /\ ContainsByte(j, p)
  BY <1>1, Zenon
<1>4. j = i
  BY <1>2, <1>3
<1> QED BY <1>3, <1>4 DEF ByteOfSource

-----------------------------------------------------------------------------
(* What the steps leave alone.                                             *)

\* The shape of a file whose size does not change.
LEMMA SameShape ==
    ASSUME UNCHANGED <<policy, fileSize>>
    PROVE  /\ Shape' = Shape /\ TailPiece' = TailPiece
           /\ \A k : BlockPiece(k)' = BlockPiece(k)
  BY DEF Shape, TailPiece, BlockPiece, BlocksAndTail

\* The bytes of a source do not depend on the state of the read, nor on the length
\* a file happens to have.
LEMMA SameSource ==
    ASSUME UNCHANGED src
    PROVE  /\ \A p : ByteOfSource(p)' = ByteOfSource(p)
           /\ \A i : PieceBegin(i)' = PieceBegin(i)
           /\ src.kind = "compound" => DataGetSize(src)' = DataGetSize(src)
<1>1. \A i : PieceBegin(i)' = PieceBegin(i)
  BY DEF PieceBegin
<1>2. \A i, p : ContainsByte(i, p)' <=> ContainsByte(i, p)
  BY <1>1 DEF ContainsByte
<1>3. \A i, p : ByteOfPiece(i, p)' = ByteOfPiece(i, p)
  BY <1>1 DEF ByteOfPiece
<1>4. ASSUME NEW p PROVE ByteOfSource(p)' = ByteOfSource(p)
  BY DEF ByteOfSource, ByteOfPiece, ContainsByte, PieceBegin
<1>5. src.kind = "compound" => DataGetSize(src)' = DataGetSize(src)
  BY DEF DataGetSize
<1> QED BY <1>1, <1>4, <1>5

\* The chunks of a file to which nothing is submitted.
LEMMA SameChunks ==
    ASSUME FileInv, UNCHANGED <<policy, src, fileSize, chunks>>, pc' # "create", pc' # "submit",
           created' = created
    PROVE  ChunksInv'
<1>1. ChunksInv
  BY DEF FileInv
<1>2. Shape' = Shape /\ TailPiece' = TailPiece /\ \A k : BlockPiece(k)' = BlockPiece(k)
  BY SameShape
<1>3. src.kind = "compound" => DataGetSize(src)' = DataGetSize(src)
  BY SameSource
<1> QED BY <1>1, <1>2, <1>3 DEF ChunksInv

\* What has been accepted stays what it was.
LEMMA SameAccepted ==
    ASSUME FileInv, UNCHANGED <<src, accepted>>, Len(chunks') >= Len(chunks),
           \A i \in 1 .. Len(chunks) : chunks'[i] = chunks[i]
    PROVE  AcceptedChunksComplete' /\ accepted' \in Seq(AcceptedBuffers')
<1>1. FileTypeOK /\ AcceptedChunksComplete
  BY DEF FileInv
<1>2. accepted \in Seq(AcceptedBuffers) /\ Len(accepted) <= Len(chunks) /\ Len(chunks) \in Nat
      /\ AcceptedBuffers' = AcceptedBuffers /\ DOMAIN accepted = 1 .. Len(accepted)
  BY <1>1 DEF FileTypeOK, AcceptedBuffers
<1>3. \A p : ByteOfSource(p)' = ByteOfSource(p)
  BY SameSource
<1>4. ASSUME NEW i \in 1 .. Len(accepted)
      PROVE  accepted'[i] = [p \in 0 .. chunks'[i].size - 1 |-> ByteOfSource(chunks[i].offset + p)']
  <2>1. chunks'[i] = chunks[i]
    BY <1>2
  <2>2. PICK o, z : o = chunks[i].offset /\ z = chunks[i].size
    OBVIOUS
  <2>3. accepted[i] = [p \in 0 .. z - 1 |-> ByteOfSource(o + p)]
    BY <2>2, <1>1, <1>2 DEF AcceptedChunksComplete
  <2>4. \A p \in 0 .. z - 1 : ByteOfSource(chunks[i].offset + p)' = ByteOfSource(o + p)
    BY <2>1, <2>2, <1>3 DEF ByteOfSource, ByteOfPiece, ContainsByte, PieceBegin
  <2>5. [p \in 0 .. z - 1 |-> ByteOfSource(o + p)]
        = [p \in 0 .. z - 1 |-> ByteOfSource(chunks[i].offset + p)']
    BY <2>4
  <2> QED BY <2>1, <2>2, <2>3, <2>5
<1>5. AcceptedChunksComplete'
  BY <1>2, <1>4 DEF AcceptedChunksComplete
<1> QED BY <1>2, <1>5

-----------------------------------------------------------------------------
(* libsqfs_regular_inode_create.                                           *)

\* The size of a source is a number.
LEMMA SizeIsNat ==
    ASSUME FileTypeOK
    PROVE  DataGetSize(src) \in Nat
<1>1. CASE src.kind = "compound"
  BY <1>1, CompoundPieces DEF FileTypeOK
<1>2. CASE src.kind # "compound"
  <2>1. src.kind \in Stores
    BY <1>2, SourcesWellFormed DEF FileTypeOK
  <2>2. length[src.kind] \in 0 .. MaxLength
    BY <2>1 DEF FileTypeOK
  <2> QED BY <1>2, <2>2, MaxLengthNat DEF DataGetSize
<1> QED BY <1>1, <1>2

\* The size is taken.
LEMMA NextCreate ==
    ASSUME FileInv, Create
    PROVE  FileInv'
<1>1. FileTypeOK /\ ChunksInv /\ AcceptedChunksComplete
  BY DEF FileInv
<1>2. /\ pc = "create" /\ pc' = "submit" /\ fileSize' = DataGetSize(src)
      /\ UNCHANGED <<policy, src, length, created, chunks, accepted, error, fatal, job,
                     n, current, written, buffer>>
  BY DEF Create, loopVars
<1>3. fileSize' \in Nat /\ fileSize' # -1
  BY <1>1, <1>2, SizeIsNat
<1>4. chunks = <<>> /\ ~created
  BY <1>1, <1>2 DEF ChunksInv
<1>5. AcceptedChunksComplete' /\ accepted' \in Seq(AcceptedBuffers')
  BY <1>1, <1>2, SameAccepted DEF FileTypeOK
<1>6. FileTypeOK'
  BY <1>1, <1>2, <1>3, <1>5 DEF FileTypeOK
<1>7. PICK s \in Nat : s = fileSize'
  BY <1>3
<1>8. BlocksAndTail(s).nblocks \in Nat
  BY ShapeFacts
<1>9. Shape' = BlocksAndTail(s)
  BY <1>2, <1>7 DEF Shape, BlocksAndTail, RoundUp
<1>10. src.kind = "compound" => DataGetSize(src)' = fileSize'
  BY <1>2, SameSource
<1>11. ChunksInv'
  BY <1>2, <1>3, <1>4, <1>8, <1>9, <1>10 DEF ChunksInv
<1>12. ReadInv'
  BY <1>2 DEF ReadInv
<1> QED BY <1>5, <1>6, <1>11, <1>12 DEF FileInv

\* Nothing is created, or no more is submitted.
LEMMA NextGiveUp ==
    ASSUME FileInv, CreateFail \/ StatFail \/ SubmitFail
    PROVE  FileInv'
<1>1. FileTypeOK /\ ChunksInv /\ AcceptedChunksComplete
  BY DEF FileInv
<1>2. /\ pc' = "idle" /\ error' \in BOOLEAN
      /\ UNCHANGED <<policy, src, length, created, fileSize, chunks, accepted, fatal, job,
                     n, current, written, buffer>>
  BY DEF CreateFail, StatFail, SubmitFail, loopVars
<1>3. AcceptedChunksComplete' /\ accepted' \in Seq(AcceptedBuffers')
  BY <1>1, <1>2, SameAccepted DEF FileTypeOK
<1>4. FileTypeOK'
  BY <1>1, <1>2, <1>3 DEF FileTypeOK
<1>5. ChunksInv'
  BY <1>2, SameChunks
<1>6. ReadInv'
  BY <1>2 DEF ReadInv
<1> QED BY <1>3, <1>4, <1>5, <1>6 DEF FileInv

\* The next block is submitted, or the tail, or there is no more.
LEMMA NextSubmit ==
    ASSUME FileInv, SubmitNext
    PROVE  FileInv'
<1>1. FileTypeOK /\ ChunksInv /\ AcceptedChunksComplete
  BY DEF FileInv
<1>2. /\ pc = "submit"
      /\ IF Len(chunks) < Shape.nblocks
         THEN chunks' = Append(chunks, BlockPiece(Len(chunks))) /\ UNCHANGED <<pc, created>>
         ELSE /\ chunks' = IF Shape.tail = 0 THEN chunks ELSE Append(chunks, TailPiece)
              /\ created' = TRUE
              /\ pc' = "idle"
      /\ UNCHANGED <<policy, src, length, fileSize, accepted, error, fatal, job,
                     n, current, written, buffer>>
  BY DEF SubmitNext, Shape, loopVars
<1>3. fileSize \in Nat /\ Len(chunks) <= Shape.nblocks /\ ~created
  BY <1>1, <1>2 DEF ChunksInv, FileTypeOK
<1>4. PICK b \in Nat, t \in Nat :
              /\ Shape.nblocks = b /\ Shape.tail = t
              /\ t < BlockSize
              /\ t # 0 => b * BlockSize + t = fileSize
              /\ t = 0 => fileSize <= b * BlockSize /\ (b # 0 => (b - 1) * BlockSize < fileSize)
  BY <1>3, ShapeFacts DEF Shape
<1>5. chunks \in Seq(ChunkType) /\ Len(chunks) \in Nat
  BY <1>1 DEF FileTypeOK
<1>6. Shape' = Shape /\ TailPiece' = TailPiece /\ \A k : BlockPiece(k)' = BlockPiece(k)
  BY <1>2, SameShape
<1>7. \A i \in 1 .. Len(chunks) :
          \/ i <= b /\ chunks[i] = BlockPiece(i - 1)
          \/ i = b + 1 /\ t # 0 /\ chunks[i] = TailPiece
  BY <1>1, <1>4, <1>5 DEF ChunksInv
<1>8. src.kind = "compound" => fileSize' = DataGetSize(src)'
  <2>1. src.kind = "compound" => DataGetSize(src)' = DataGetSize(src)
    BY <1>2, SameSource
  <2> QED BY <2>1, <1>1, <1>2, <1>3 DEF ChunksInv
<1>9. /\ chunks' \in Seq(ChunkType) /\ Len(chunks') >= Len(chunks) /\ pc' \in {"submit", "idle"}
      /\ \A i \in 1 .. Len(chunks) : chunks'[i] = chunks[i]
      /\ created' \in BOOLEAN
      /\ ChunksInv'
  <2>1. CASE Len(chunks) < b
    <3>1. PICK k \in Nat : k = Len(chunks)
      BY <1>5
    <3> PICK c : c = BlockPiece(k)
      OBVIOUS
    <3>2. c \in ChunkType
      BY <2>1, <3>1, <1>3, <1>4, BlockPieceFacts
    <3>3. chunks' = Append(chunks, c) /\ pc' = "submit" /\ created' = created
      BY <2>1, <3>1, <1>2, <1>4
    <3>4. chunks' \in Seq(ChunkType) /\ Len(chunks') = k + 1 /\ chunks'[k + 1] = c
          /\ \A i \in 1 .. k : chunks'[i] = chunks[i]
      BY <3>1, <3>2, <3>3, <1>5
    <3>5. ASSUME NEW i \in 1 .. k + 1
          PROVE  \/ i <= b /\ chunks'[i] = BlockPiece(i - 1)
                 \/ i = b + 1 /\ t # 0 /\ chunks'[i] = TailPiece
      <4>1. CASE i \in 1 .. k
        BY <4>1, <3>1, <3>4, <1>7
      <4>2. CASE i = k + 1
        <5>1. i - 1 = k /\ i <= b
          BY <4>2, <2>1, <3>1
        <5> QED BY <4>2, <5>1, <3>1, <3>4
      <4> QED BY <4>1, <4>2
    <3>6. ChunksInv'
      <4>1. Len(chunks') <= b /\ DOMAIN chunks' = 1 .. k + 1
        BY <2>1, <3>1, <3>4
      <4>2. \A i \in DOMAIN chunks' :
               \/ i <= Shape'.nblocks /\ chunks'[i] = BlockPiece(i - 1)'
               \/ i = Shape'.nblocks + 1 /\ Shape'.tail # 0 /\ chunks'[i] = TailPiece'
        BY <4>1, <3>5, <1>4, <1>6
      <4> QED BY <4>1, <4>2, <3>3, <1>2, <1>3, <1>4, <1>6, <1>8 DEF ChunksInv
    <3> QED BY <3>1, <3>3, <3>4, <3>6, <1>1 DEF FileTypeOK
  <2>2. CASE ~(Len(chunks) < b) /\ t = 0
    <3>1. chunks' = chunks /\ pc' = "idle" /\ created' = TRUE /\ Len(chunks) = b
      BY <2>2, <1>2, <1>3, <1>4, <1>5
    <3>2. \A i \in DOMAIN chunks' :
               \/ i <= Shape'.nblocks /\ chunks'[i] = BlockPiece(i - 1)'
               \/ i = Shape'.nblocks + 1 /\ Shape'.tail # 0 /\ chunks'[i] = TailPiece'
      BY <3>1, <1>4, <1>5, <1>6, <1>7
    <3>3. Len(chunks') = Shape'.nblocks + (IF Shape'.tail = 0 THEN 0 ELSE 1)
      BY <2>2, <3>1, <1>4, <1>6
    <3>4. ChunksInv'
      BY <3>1, <3>2, <3>3, <1>2, <1>3, <1>8 DEF ChunksInv
    <3> QED BY <3>1, <3>4, <1>5
  <2>3. CASE ~(Len(chunks) < b) /\ t # 0
    <3>1. PICK c : c = TailPiece
      OBVIOUS
    <3>2. c \in ChunkType
      BY <2>3, <3>1, <1>3, <1>4, TailPieceFacts DEF Shape
    <3>3. chunks' = Append(chunks, c) /\ pc' = "idle" /\ created' = TRUE /\ Len(chunks) = b
      BY <2>3, <3>1, <1>2, <1>3, <1>4, <1>5
    <3>4. chunks' \in Seq(ChunkType) /\ Len(chunks') = b + 1 /\ chunks'[b + 1] = c
          /\ \A i \in 1 .. b : chunks'[i] = chunks[i]
      BY <3>2, <3>3, <1>5
    <3>5. ASSUME NEW i \in 1 .. b + 1
          PROVE  \/ i <= b /\ chunks'[i] = BlockPiece(i - 1)
                 \/ i = b + 1 /\ t # 0 /\ chunks'[i] = TailPiece
      <4>1. CASE i \in 1 .. b
        BY <4>1, <3>3, <3>4, <1>7
      <4>2. CASE i = b + 1
        BY <4>2, <2>3, <3>1, <3>4
      <4> QED BY <4>1, <4>2
    <3>6. \A i \in DOMAIN chunks' :
               \/ i <= Shape'.nblocks /\ chunks'[i] = BlockPiece(i - 1)'
               \/ i = Shape'.nblocks + 1 /\ Shape'.tail # 0 /\ chunks'[i] = TailPiece'
      <4>1. DOMAIN chunks' = 1 .. b + 1
        BY <3>4
      <4> QED BY <4>1, <3>5, <1>4, <1>6
    <3>7. Len(chunks') = Shape'.nblocks + (IF Shape'.tail = 0 THEN 0 ELSE 1)
      BY <2>3, <3>4, <1>4, <1>6
    <3>8. ChunksInv'
      BY <3>3, <3>6, <3>7, <1>2, <1>3, <1>8 DEF ChunksInv
    <3> QED BY <3>3, <3>4, <3>8
  <2> QED BY <2>1, <2>2, <2>3
<1>10. AcceptedChunksComplete' /\ accepted' \in Seq(AcceptedBuffers')
  BY <1>2, <1>9, SameAccepted
<1>11. FileTypeOK'
  <2>1. Len(accepted') <= Len(chunks')
    BY <1>1, <1>2, <1>5, <1>9 DEF FileTypeOK
  <2> QED BY <2>1, <1>1, <1>2, <1>9, <1>10 DEF FileTypeOK
<1>12. ReadInv'
  BY <1>9 DEF ReadInv
<1> QED BY <1>9, <1>10, <1>11, <1>12 DEF FileInv

-----------------------------------------------------------------------------
(* libsqfs_chunk_do_read.                                                  *)

\* The chunk that is being read: its place in the file, and its size.
LEMMA JobFacts ==
    ASSUME FileInv, pc = "pread"
    PROVE  /\ job \in 1 .. Len(chunks) /\ job = Len(accepted) + 1 /\ Len(accepted) \in Nat
           /\ chunks[job].offset \in Nat /\ chunks[job].size \in Nat /\ chunks[job].size >= 1
           /\ fileSize \in Nat /\ chunks[job].offset + chunks[job].size <= fileSize
<1>1. FileTypeOK /\ ChunksInv
  BY DEF FileInv
<1>2. chunks \in Seq(ChunkType) /\ job \in 1 .. Len(chunks) /\ job = Len(accepted) + 1
      /\ Len(accepted) \in Nat /\ BlockSize \in Nat
  BY <1>1, FileBlockSizePositive DEF FileTypeOK
<1>3. chunks # <<>> /\ chunks[job] \in ChunkType
  BY <1>2
<1>4. /\ fileSize \in Nat /\ chunks[job].size \in 1 .. BlockSize
      /\ chunks[job].offset + chunks[job].size <= fileSize
  BY <1>1, <1>2, <1>3, ChunkFacts
<1> QED BY <1>2, <1>3, <1>4 DEF ChunkType

\* The read of a chunk has ended: if all of it was read, then what it should be.
LEMMA AfterRead ==
    ASSUME FileInv, pc = "pread", NEW count, NEW bytes, EndRead(count, bytes),
           n' \in Nat, current' \in Nat, written' \in Nat,
           count = chunks[job].size =>
              bytes = [p \in 0 .. chunks[job].size - 1 |-> ByteOfSource(chunks[job].offset + p)]
    PROVE  FileInv'
<1>1. FileTypeOK /\ ChunksInv /\ AcceptedChunksComplete
  BY DEF FileInv
<1>2. /\ pc' = "idle" /\ UNCHANGED <<policy, src, length, created, fileSize, chunks>>
      /\ \/ count = chunks[job].size /\ accepted' = Append(accepted, bytes) /\ UNCHANGED <<error, fatal>>
         \/ error' = TRUE /\ fatal' = TRUE /\ UNCHANGED accepted
  BY DEF EndRead, ReadSucceeded
<1>3. ChunksInv'
  BY <1>2, SameChunks
<1>4. ReadInv'
  BY <1>2 DEF ReadInv
<1>5. AcceptedChunksComplete' /\ accepted' \in Seq(AcceptedBuffers') /\ Len(accepted') <= Len(chunks')
  <2>1. CASE UNCHANGED accepted
    <3>1. AcceptedChunksComplete' /\ accepted' \in Seq(AcceptedBuffers')
      BY <2>1, <1>1, <1>2, SameAccepted DEF FileTypeOK
    <3> QED BY <2>1, <3>1, <1>1, <1>2 DEF FileTypeOK
  <2>2. CASE count = chunks[job].size /\ accepted' = Append(accepted, bytes)
    <3>1. /\ job \in 1 .. Len(chunks) /\ job = Len(accepted) + 1 /\ Len(accepted) \in Nat
          /\ chunks[job].offset \in Nat /\ chunks[job].size \in Nat
      BY JobFacts
    <3>2. accepted \in Seq(AcceptedBuffers)
      BY <1>1 DEF FileTypeOK
    <3>3. PICK B : B = AcceptedBuffers \cup {bytes}
      OBVIOUS
    <3>4. accepted \in Seq(B) /\ bytes \in B
      BY <3>2, <3>3
    <3>5. /\ accepted' \in Seq(B) /\ Len(accepted') = job /\ accepted'[job] = bytes
          /\ \A i \in 1 .. Len(accepted) : accepted'[i] = accepted[i]
      BY <2>2, <3>1, <3>4
    <3>6. DOMAIN accepted' = 1 .. job
      BY <3>5
    <3>7. accepted' \in Seq(AcceptedBuffers')
      <4>1. \A i \in 1 .. Len(accepted') : accepted'[i] \in AcceptedBuffers'
        BY <3>5, <3>6 DEF AcceptedBuffers
      <4> QED BY <3>1, <3>5, <4>1
    <3>8. \A p : ByteOfSource(p)' = ByteOfSource(p)
      BY <1>2, SameSource
    <3>9. ASSUME NEW i \in 1 .. job
          PROVE  accepted'[i] = [p \in 0 .. chunks'[i].size - 1 |-> ByteOfSource(chunks[i].offset + p)']
      <4>1. PICK o, z : o = chunks[i].offset /\ z = chunks[i].size
        OBVIOUS
      <4>2. accepted'[i] = [p \in 0 .. z - 1 |-> ByteOfSource(o + p)]
        <5>1. CASE i = job
          BY <5>1, <4>1, <2>2, <3>5
        <5>2. CASE i # job
          <6>1. i \in 1 .. Len(accepted)
            BY <5>2, <3>1
          <6>2. accepted[i] = [p \in 0 .. z - 1 |-> ByteOfSource(o + p)]
            <7>1. i \in DOMAIN accepted
              BY <6>1, <3>2
            <7>2. accepted[i] = [p \in 0 .. chunks[i].size - 1 |-> ByteOfSource(chunks[i].offset + p)]
              BY <7>1, <1>1 DEF AcceptedChunksComplete
            <7> QED BY <7>2, <4>1
          <6> QED BY <6>1, <6>2, <3>5
        <5> QED BY <5>1, <5>2
      <4>3. \A p \in 0 .. z - 1 : ByteOfSource(chunks[i].offset + p)' = ByteOfSource(o + p)
        BY <4>1, <1>2 DEF ByteOfSource, ByteOfPiece, ContainsByte, PieceBegin
      <4>4. [p \in 0 .. z - 1 |-> ByteOfSource(o + p)]
            = [p \in 0 .. z - 1 |-> ByteOfSource(chunks[i].offset + p)']
        BY <4>3
      <4> QED BY <4>1, <4>2, <4>4, <1>2
    <3>10. AcceptedChunksComplete'
      BY <3>6, <3>9 DEF AcceptedChunksComplete
    <3>11. Len(accepted') <= Len(chunks')
      BY <3>1, <3>5, <1>2
    <3> QED BY <3>7, <3>10, <3>11
  <2> QED BY <2>1, <2>2, <1>2
<1>6. FileTypeOK'
  BY <1>1, <1>2, <1>5 DEF FileTypeOK
<1> QED BY <1>3, <1>4, <1>5, <1>6 DEF FileInv

\* A worker takes a chunk.
LEMMA NextStart ==
    ASSUME FileInv, StartRead
    PROVE  FileInv'
<1>1. FileTypeOK /\ ChunksInv /\ AcceptedChunksComplete
  BY DEF FileInv
<1>2. /\ pc' = "pread" /\ Len(accepted) < Len(chunks) /\ job' = Len(accepted) + 1
      /\ n' = 1 /\ current' = 0 /\ written' = 0 /\ buffer' = <<>>
      /\ UNCHANGED <<policy, src, length, created, fileSize, chunks, accepted, error, fatal>>
  BY DEF StartRead, NoBytes
<1>3. AcceptedChunksComplete' /\ accepted' \in Seq(AcceptedBuffers')
  BY <1>1, <1>2, SameAccepted DEF FileTypeOK
<1>4. chunks \in Seq(ChunkType) /\ Len(chunks) \in Nat /\ Len(accepted) \in Nat
  BY <1>1 DEF FileTypeOK
<1>5. job' \in DOMAIN chunks' /\ job' = Len(accepted') + 1
  BY <1>2, <1>4
<1>6. FileTypeOK'
  BY <1>1, <1>2, <1>3, <1>5 DEF FileTypeOK
<1>7. ChunksInv'
  BY <1>2, SameChunks
<1>8. ReadInv'
  <2>1. buffer' = [p \in 0 .. written' - 1 |-> ByteOfSource(chunks[job].offset + p)']
    <3>1. 0 .. written' - 1 = {}
      BY <1>2
    <3>2. [p \in {} |-> ByteOfSource(chunks[job].offset + p)'] = <<>>
      OBVIOUS
    <3> QED BY <1>2, <3>1, <3>2
  <2>2. ASSUME src.kind = "compound"
        PROVE  n' \in 1 .. Len(src'.pieces) + 1 /\ current' = PieceBegin(1)' /\ PieceBegin(1)' = 0
    <3>1. Len(src.pieces) \in Nat /\ PieceBegin(1) = 0
      BY <2>2, <1>1, CompoundPieces DEF FileTypeOK
    <3>2. PieceBegin(1)' = PieceBegin(1)
      BY <1>2, SameSource
    <3> QED BY <1>2, <3>1, <3>2
  <2>3. chunks'[job'].offset \in Nat
    <3>1. chunks'[job'] \in ChunkType
      BY <1>2, <1>4, <1>5
    <3> QED BY <3>1 DEF ChunkType
  <2>4. src.kind = "compound" => PieceBegin(n)' = 0
    <3>1. src.kind = "compound" => PieceBegin(n)' = PieceBegin(1)'
      BY <1>2 DEF PieceBegin
    <3> QED BY <3>1, <2>2
  <2> QED BY <2>1, <2>2, <2>3, <2>4, <1>2 DEF ReadInv
<1> QED BY <1>3, <1>6, <1>7, <1>8 DEF FileInv

\* The buffer cannot be allocated.
LEMMA NextBufferFail ==
    ASSUME FileInv, BufferFail
    PROVE  FileInv'
<1>1. FileTypeOK /\ ChunksInv /\ AcceptedChunksComplete
  BY DEF FileInv
<1>2. /\ pc = "idle" /\ error' = TRUE /\ fatal' = TRUE
      /\ UNCHANGED <<policy, src, length, pc, created, fileSize, chunks, accepted, job,
                     n, current, written, buffer>>
  BY DEF BufferFail, loopVars
<1>3. AcceptedChunksComplete' /\ accepted' \in Seq(AcceptedBuffers')
  BY <1>1, <1>2, SameAccepted DEF FileTypeOK
<1>4. FileTypeOK'
  BY <1>1, <1>2, <1>3 DEF FileTypeOK
<1>5. ChunksInv'
  BY <1>2, SameChunks
<1>6. ReadInv'
  BY <1>2 DEF ReadInv
<1> QED BY <1>3, <1>4, <1>5, <1>6 DEF FileInv

\* A chunk of a plain file or buffer: pread delivers all of it, or less.
LEMMA NextPlain ==
    ASSUME FileInv, ReadPlain
    PROVE  FileInv'
<1>1. FileTypeOK
  BY DEF FileInv
<1>2. PICK k, o, z, c : k = src.kind /\ o = chunks[job].offset /\ z = chunks[job].size
                        /\ c = StorePread(k, z, o)
  OBVIOUS
<1>3. /\ pc = "pread" /\ src.kind # "compound"
      /\ EndRead(c, Delivered(k, c, o, 0))
      /\ UNCHANGED <<n, current, written, buffer>>
  BY <1>2 DEF ReadPlain, loopVars
<1>4. o \in Nat /\ z \in Nat
  BY <1>2, <1>3, JobFacts
<1>5. c = z => Delivered(k, c, o, 0) = [p \in 0 .. z - 1 |-> ByteOfSource(o + p)]
  <2>1. Delivered(k, z, o, 0) = [p \in 0 .. 0 + z - 1 |-> <<k, o + p - 0>>]
    BY DEF Delivered
  <2>2. 0 .. 0 + z - 1 = 0 .. z - 1
    BY <1>4
  <2>3. \A p \in 0 .. z - 1 : <<k, o + p - 0>> = ByteOfSource(o + p)
    BY <1>2, <1>3, <1>4 DEF ByteOfSource
  <2> QED BY <2>1, <2>2, <2>3
<1>6. n' \in Nat /\ current' \in Nat /\ written' \in Nat
  BY <1>1, <1>3 DEF FileTypeOK
<1> QED BY <1>2, <1>3, <1>5, <1>6, AfterRead

\* The loop over the pieces of a compound, at piece n: the range that is read ends
\* within the compound, and as much of it has been read as lies before the piece.
LEMMA CompoundFacts ==
    ASSUME FileInv, pc = "pread", src.kind = "compound"
    PROVE  \E o \in Nat, z \in Nat :
              /\ o = chunks[job].offset /\ z = chunks[job].size /\ z >= 1
              /\ CompoundEnd = o + z
              /\ n \in 1 .. Len(src.pieces) + 1 /\ current \in Nat /\ current = PieceBegin(n)
              /\ written \in Nat
              /\ current <= o => written = 0
              /\ current > o /\ current <= o + z => written = current - o
              /\ current > o + z => written = z
              /\ LoopEnds => written = z
              /\ buffer = [p \in 0 .. written - 1 |-> ByteOfSource(o + p)]
<1>1. FileTypeOK /\ ChunksInv /\ ReadInv
  BY DEF FileInv
<1>2. PICK o \in Nat, z \in Nat :
         o = chunks[job].offset /\ z = chunks[job].size /\ z >= 1 /\ o + z <= fileSize /\ fileSize \in Nat
  BY JobFacts
<1>3. src \in Sources /\ current \in Nat /\ written \in Nat
  BY <1>1 DEF FileTypeOK
<1>4. PICK l \in Nat : l = Len(src.pieces)
  BY <1>3, CompoundPieces
<1>5. fileSize = DataGetSize(src)
  BY <1>1, <1>2 DEF ChunksInv
<1>6. PieceBegin(l + 1) = fileSize
  <2>1. (l + 1) - 1 = l
    OBVIOUS
  <2> QED BY <2>1, <1>4, <1>5 DEF PieceBegin, DataGetSize
<1>7. CompoundEnd = o + z
  <2>1. CompoundEnd = CopyEnd(o + z, fileSize)
    BY <1>2, <1>5 DEF CompoundEnd
  <2> QED BY <2>1, <1>2 DEF CopyEnd
<1>8. /\ n \in 1 .. l + 1 /\ current = PieceBegin(n)
      /\ written = IF current <= o THEN 0 ELSE CopyEnd(current, o + z) - o
      /\ buffer = [p \in 0 .. written - 1 |-> ByteOfSource(o + p)]
  BY <1>1, <1>2, <1>4, <1>7 DEF ReadInv
<1>9. /\ current <= o => written = 0
      /\ current > o /\ current <= o + z => written = current - o
      /\ current > o + z => written = z
  <2>1. PICK c \in Nat, v \in Nat : c = current /\ v = written
    BY <1>3
  <2>2. v = IF c <= o THEN 0 ELSE CopyEnd(c, o + z) - o
    BY <2>1, <1>8
  <2>3. CASE c <= o
    BY <2>1, <2>2, <2>3, <1>2
  <2>4. CASE c > o /\ c <= o + z
    <3>1. CopyEnd(c, o + z) = c
      BY <2>4, <1>2 DEF CopyEnd
    <3> QED BY <3>1, <2>1, <2>2, <2>4, <1>2
  <2>5. CASE c > o + z
    <3>1. CopyEnd(c, o + z) = o + z
      BY <2>5, <1>2 DEF CopyEnd
    <3> QED BY <3>1, <2>1, <2>2, <2>5, <1>2
  <2> QED BY <2>1, <2>3, <2>4, <2>5, <1>2
<1>10. LoopEnds => current >= o + z
  <2>1. n > l => n = l + 1
    BY <1>8
  <2> QED BY <2>1, <1>2, <1>3, <1>4, <1>6, <1>7, <1>8 DEF LoopEnds
<1>11. LoopEnds => written = z
  BY <1>2, <1>3, <1>9, <1>10
<1> QED BY <1>2, <1>3, <1>4, <1>7, <1>8, <1>9, <1>11

\* The loop goes on to the next piece with so much read.
LEMMA NextPiece ==
    ASSUME FileInv, pc = "pread", src.kind = "compound", ~LoopEnds,
           n' = n + 1, current' = current + src.pieces[n].size,
           UNCHANGED <<policy, src, length, pc, created, fileSize, chunks, accepted, error, fatal, job>>,
           written' \in Nat,
           written' = IF current' <= chunks[job].offset THEN 0
                      ELSE CopyEnd(current', CompoundEnd) - chunks[job].offset,
           buffer' = [p \in 0 .. written' - 1 |-> ByteOfSource(chunks[job].offset + p)]
    PROVE  FileInv'
<1>1. FileTypeOK /\ ChunksInv /\ ReadInv
  BY DEF FileInv
<1>2. /\ n \in 1 .. Len(src.pieces) + 1 /\ current \in Nat /\ current = PieceBegin(n)
  BY CompoundFacts
<1>3. Len(src.pieces) \in Nat
  BY <1>1, CompoundPieces DEF FileTypeOK
<1>4. n \in 1 .. Len(src.pieces)
  BY <1>2, <1>3 DEF LoopEnds
<1>5. src.pieces[n].size \in Nat /\ PieceBegin(n + 1) = PieceBegin(n) + src.pieces[n].size
  BY <1>1, <1>4, CompoundPieces DEF FileTypeOK
<1>6. current' \in Nat /\ n' \in Nat /\ n' \in 1 .. Len(src.pieces) + 1 /\ current' = PieceBegin(n + 1)
  <2>1. n + 1 \in Nat /\ n + 1 \in 1 .. Len(src.pieces) + 1
    BY <1>3, <1>4
  <2>2. PICK c \in Nat, s \in Nat : c = current /\ s = src.pieces[n].size
    BY <1>2, <1>5
  <2>3. c + s \in Nat /\ c + s = PieceBegin(n + 1)
    BY <2>2, <1>2, <1>5
  <2>4. current' \in Nat /\ current' = PieceBegin(n + 1)
    BY <2>2, <2>3, Zenon
  <2> QED BY <2>1, <2>4
<1>7. AcceptedChunksComplete' /\ accepted' \in Seq(AcceptedBuffers')
  BY <1>1, SameAccepted DEF FileTypeOK
<1>8. FileTypeOK'
  BY <1>1, <1>6, <1>7 DEF FileTypeOK
<1>9. ChunksInv'
  BY SameChunks
<1>10. ReadInv'
  <2>1. PieceBegin(n)' = PieceBegin(n + 1)
    BY DEF PieceBegin
  <2>2. CompoundEnd' = CompoundEnd
    <3>1. DataGetSize(src)' = DataGetSize(src)
      BY SameSource
    <3> QED BY <3>1 DEF CompoundEnd
  <2>3. PICK o : o = chunks[job].offset
    OBVIOUS
  <2>4. ASSUME NEW p \in 0 .. written' - 1
        PROVE  ByteOfSource(chunks[job].offset + p)' = ByteOfSource(o + p)
    <3>1. src' = src /\ chunks'[job'].offset = o
      BY <2>3
    <3>2. \A i, x : ContainsByte(i, x)' = ContainsByte(i, x) /\ ByteOfPiece(i, x)' = ByteOfPiece(i, x)
      BY <3>1 DEF ByteOfPiece, ContainsByte, PieceBegin
    <3>3. PICK x : x = o + p /\ x = chunks'[job'].offset + p
      BY <3>1
    <3>4. src'.kind = src.kind /\ src'.pieces = src.pieces
      BY <3>1
    <3> QED BY <3>1, <3>2, <3>3, <3>4 DEF ByteOfSource
  <2>5. buffer' = [p \in 0 .. written' - 1 |-> ByteOfSource(chunks[job].offset + p)']
    BY <2>3, <2>4
  <2>6. written' = IF current' <= chunks'[job'].offset THEN 0
                   ELSE CopyEnd(current, CompoundEnd)' - chunks'[job'].offset
    BY <2>2 DEF CopyEnd
  <2> QED BY <1>6, <2>1, <2>5, <2>6 DEF ReadInv
<1> QED BY <1>7, <1>8, <1>9, <1>10 DEF FileInv

\* A piece before the range is skipped.
LEMMA NextSkip ==
    ASSUME FileInv, SkipPiece
    PROVE  FileInv'
<1>1. FileTypeOK
  BY DEF FileInv
<1>2. /\ pc = "pread" /\ src.kind = "compound" /\ ~LoopEnds
      /\ current + src.pieces[n].size <= chunks[job].offset
      /\ current' = current + src.pieces[n].size /\ n' = n + 1
      /\ UNCHANGED <<policy, src, length, pc, created, fileSize, chunks, accepted, error, fatal,
                     job, written, buffer>>
  BY DEF SkipPiece
<1>3. PICK o \in Nat, z \in Nat :
              /\ o = chunks[job].offset
              /\ n \in 1 .. Len(src.pieces) + 1 /\ current \in Nat
              /\ written \in Nat
              /\ current <= o => written = 0
              /\ buffer = [p \in 0 .. written - 1 |-> ByteOfSource(o + p)]
  BY <1>2, CompoundFacts
<1>4. Len(src.pieces) \in Nat
  BY <1>1, <1>2, CompoundPieces DEF FileTypeOK
<1>5. n \in 1 .. Len(src.pieces)
  BY <1>2, <1>3, <1>4 DEF LoopEnds
<1>6. src.pieces[n].size \in Nat
  BY <1>1, <1>2, <1>5, CompoundPieces DEF FileTypeOK
<1>7. written = 0 /\ current' <= chunks[job].offset
  <2>1. PICK c \in Nat, s \in Nat : c = current /\ s = src.pieces[n].size
    BY <1>3, <1>6, Zenon
  <2>2. c + s <= o /\ current' = c + s /\ (c <= o => written = 0)
    BY <2>1, <1>2, <1>3, Zenon
  <2>3. c <= o
    BY <2>1, <2>2
  <2> QED BY <2>2, <2>3, <1>3, Zenon
<1> QED BY <1>2, <1>3, <1>7, NextPiece

\* The loop has ended: the whole range has been read.
LEMMA NextEnd ==
    ASSUME FileInv, EndCompound
    PROVE  FileInv'
<1>1. /\ pc = "pread" /\ src.kind = "compound" /\ LoopEnds /\ EndRead(written, buffer)
      /\ UNCHANGED <<n, current, written, buffer>>
  BY DEF EndCompound, loopVars
<1>2. n' \in Nat /\ current' \in Nat /\ written' \in Nat
  BY <1>1 DEF FileInv, FileTypeOK
<1>3. PICK o \in Nat, z \in Nat :
              /\ o = chunks[job].offset /\ z = chunks[job].size
              /\ buffer = [p \in 0 .. written - 1 |-> ByteOfSource(o + p)]
  BY <1>1, CompoundFacts
<1> QED BY <1>1, <1>2, <1>3, AfterRead

\* The file of a piece, or the file itself, cannot be opened.
LEMMA NextReadFail ==
    ASSUME FileInv, ReadFail
    PROVE  FileInv'
<1>1. FileTypeOK
  BY DEF FileInv
<1>2. PICK c : c = IF src.kind = "file" THEN -1 ELSE written
  OBVIOUS
<1>3. /\ pc = "pread" /\ (src.kind = "file" \/ src.kind = "compound") /\ EndRead(c, buffer)
      /\ UNCHANGED <<n, current, written, buffer>>
  BY <1>2 DEF ReadFail, loopVars
<1>4. n' \in Nat /\ current' \in Nat /\ written' \in Nat
  BY <1>1, <1>3 DEF FileTypeOK
<1>5. c = chunks[job].size =>
        buffer = [p \in 0 .. chunks[job].size - 1 |-> ByteOfSource(chunks[job].offset + p)]
  <2>1. CASE src.kind = "file"
    <3>1. chunks[job].size \in Nat
      BY <1>3, JobFacts
    <3> QED BY <2>1, <3>1, <1>2
  <2>2. CASE src.kind = "compound"
    <3>1. PICK o \in Nat, z \in Nat :
              /\ o = chunks[job].offset /\ z = chunks[job].size
              /\ buffer = [p \in 0 .. written - 1 |-> ByteOfSource(o + p)]
      BY <1>3, <2>2, CompoundFacts
    <3>2. c = written
      BY <2>2, <1>2
    <3> QED BY <3>1, <3>2
  <2> QED BY <2>1, <2>2, <1>3
<1> QED BY <1>3, <1>4, <1>5, AfterRead

\* How much a store has of a range.
LEMMA ReadCount ==
    ASSUME FileTypeOK, NEW s \in Stores, NEW z \in Nat, NEW o \in Nat
    PROVE  StorePread(s, z, o) \in 0 .. z
<1>1. PICK l \in Nat : l = length[s]
  BY MaxLengthNat DEF FileTypeOK
<1>2. StorePread(s, z, o) = IF o > l THEN 0 ELSE IF o + z > l THEN l - o ELSE z
  BY <1>1 DEF StorePread
<1> QED BY <1>2

\* The overlap of a piece with the range is read.
LEMMA NextCopy ==
    ASSUME FileInv, CopyPiece
    PROVE  FileInv'
<1>1. FileTypeOK
  BY DEF FileInv
<1>2. /\ pc = "pread" /\ src.kind = "compound" /\ ~LoopEnds
      /\ current + src.pieces[n].size > chunks[job].offset
      /\ n' = n + 1 /\ current' = current + src.pieces[n].size
  BY DEF CopyPiece
<1>3. PICK o \in Nat, z \in Nat :
              /\ o = chunks[job].offset /\ z = chunks[job].size /\ z >= 1
              /\ CompoundEnd = o + z
              /\ n \in 1 .. Len(src.pieces) + 1 /\ current \in Nat /\ current = PieceBegin(n)
              /\ written \in Nat
              /\ current <= o => written = 0
              /\ current > o /\ current <= o + z => written = current - o
              /\ buffer = [p \in 0 .. written - 1 |-> ByteOfSource(o + p)]
  BY <1>2, CompoundFacts
<1>4. Len(src.pieces) \in Nat
  BY <1>1, <1>2, CompoundPieces DEF FileTypeOK
<1>5. n \in 1 .. Len(src.pieces) /\ current < o + z
  BY <1>2, <1>3, <1>4 DEF LoopEnds
<1>6. PICK s \in Nat, q \in Nat, d \in Stores :
         s = src.pieces[n].size /\ q = src.pieces[n].offset /\ d = src.pieces[n].data
  BY <1>1, <1>2, <1>5, CompoundPieces DEF FileTypeOK
<1>7. PICK begin \in Nat, stop \in Nat :
         /\ begin = CopyBegin(current, o) /\ stop = CopyEnd(current + s, o + z)
         /\ begin <= stop /\ stop <= o + z /\ stop <= current + s /\ current <= begin
         /\ written = begin - o /\ o <= begin
  <2>0. /\ current \in Nat /\ written \in Nat /\ z >= 1
        /\ current <= o => written = 0
        /\ current > o /\ current <= o + z => written = current - o
    BY <1>3
  <2>1. current + s > o
    BY <1>2, <1>3, <1>6
  <2>2. PICK begin \in Nat : begin = (IF current < o THEN o ELSE current)
    BY <2>0
  <2>3. PICK stop \in Nat : stop = (IF current + s > o + z THEN o + z ELSE current + s)
    BY <2>0
  <2>4. PICK c \in Nat, v \in Nat :
           /\ c = current /\ v = written /\ c < o + z /\ c + s > o
           /\ c <= o => v = 0
           /\ c > o => v = c - o
    BY <2>0, <2>1, <1>5
  <2>5. begin = (IF c < o THEN o ELSE c) /\ stop = (IF c + s > o + z THEN o + z ELSE c + s)
    BY <2>2, <2>3, <2>4
  <2>6. /\ begin <= stop /\ stop <= o + z /\ stop <= c + s
        /\ c <= begin /\ v = begin - o /\ o <= begin
    <3>1. CASE c < o
      BY <3>1, <2>4, <2>5
    <3>2. CASE ~(c < o)
      BY <3>2, <2>4, <2>5
    <3> QED BY <3>1, <3>2
  <2>7. begin = CopyBegin(current, o) /\ stop = CopyEnd(current + s, o + z)
    BY <2>2, <2>3 DEF CopyBegin, CopyEnd
  <2> QED BY <2>4, <2>6, <2>7
<1>8. current \in Nat /\ written \in Nat /\ o \in Nat /\ z \in Nat
  BY <1>3
<1>9. /\ begin \in Nat /\ stop \in Nat /\ begin <= stop /\ stop <= o + z /\ stop <= current + s
       /\ current <= begin /\ written = begin - o /\ o <= begin /\ s \in Nat /\ q \in Nat
  BY <1>6, <1>7
<1>10. PICK from \in Nat, size \in Nat : from = q + begin - current /\ size = stop - begin
  BY <1>8, <1>9
<1>11. PICK count \in 0 .. size : count = StorePread(d, size, from)
  BY <1>1, ReadCount
<1>12. PICK bytes : bytes = PutInto(buffer, Delivered(d, count, from, begin - o))
  OBVIOUS
<1>13. /\ written' = written + count /\ buffer' = bytes
       /\ IF count = size
          THEN UNCHANGED <<policy, src, length, pc, created, fileSize, chunks, accepted,
                           error, fatal, job>>
          ELSE EndRead(written + count, bytes)
  BY <1>3, <1>6, <1>7, <1>10, <1>11, <1>12 DEF CopyPiece
<1>14. written' \in Nat /\ written' = begin - o + count
  BY <1>7, <1>11, <1>13
<1>15. bytes = [p \in 0 .. written' - 1 |-> ByteOfSource(o + p)]
  <2>1. Delivered(d, count, from, begin - o)
        = [p \in begin - o .. begin - o + count - 1 |-> <<d, from + p - (begin - o)>>]
    BY DEF Delivered
  <2>2. PICK D : D = Delivered(d, count, from, begin - o)
    OBVIOUS
  <2>3. DOMAIN D = begin - o .. begin - o + count - 1 /\ DOMAIN buffer = 0 .. begin - o - 1
    BY <2>1, <2>2, <1>3, <1>7
  <2>4. DOMAIN buffer \cup DOMAIN D = 0 .. written' - 1
    BY <2>3, <1>8, <1>9, <1>11, <1>14
  <2>5. bytes = [p \in DOMAIN buffer \cup DOMAIN D |-> IF p \in DOMAIN D THEN D[p] ELSE buffer[p]]
    BY <2>2, <1>12 DEF PutInto
  <2>6. ASSUME NEW p \in 0 .. written' - 1
        PROVE  (IF p \in DOMAIN D THEN D[p] ELSE buffer[p]) = ByteOfSource(o + p)
    <3>1. CASE p \in DOMAIN D
      <4>1. p \in Nat /\ begin <= o + p /\ o + p < begin + count /\ o + p \in Nat
        BY <3>1, <2>3, <1>8, <1>9, <1>11
      <4>2. D[p] = <<d, from + p - (begin - o)>>
        BY <3>1, <2>1, <2>2, <2>3
      <4>3. from + p - (begin - o) = q + (o + p) - current
        BY <4>1, <1>8, <1>9, <1>10
      <4>4. ContainsByte(n, o + p)
        <5>1. current <= o + p /\ o + p < current + s
          BY <4>1, <1>8, <1>9, <1>10, <1>11
        <5> QED BY <5>1, <1>3, <1>6 DEF ContainsByte
      <4>5. ByteOfSource(o + p) = ByteOfPiece(n, o + p)
        BY <4>1, <4>4, <1>1, <1>2, <1>5, ByteInPiece DEF FileTypeOK
      <4>6. ByteOfPiece(n, o + p) = <<d, q + (o + p) - current>>
        BY <1>3, <1>6 DEF ByteOfPiece
      <4> QED BY <3>1, <4>2, <4>3, <4>5, <4>6
    <3>2. CASE p \notin DOMAIN D
      <4>1. p \in 0 .. written - 1
        BY <3>2, <2>3, <1>8, <1>9, <1>11, <1>14
      <4> QED BY <3>2, <4>1, <1>3
    <3> QED BY <3>1, <3>2
  <2> QED BY <2>4, <2>5, <2>6
<1>16. CASE count = size
  <2>1. written' = stop - o
    BY <1>16, <1>7, <1>10, <1>14
  <2>2. current' = current + s /\ ~(current' <= o)
    <3>1. current' = current + s /\ current + s > o
      BY <1>2, <1>3, <1>6
    <3>2. current \in Nat /\ current + s \in Nat
      BY <1>3
    <3> QED BY <3>1, <3>2
  <2>3. written' = IF current' <= chunks[job].offset THEN 0
                   ELSE CopyEnd(current', CompoundEnd) - chunks[job].offset
    BY <2>1, <2>2, <1>3, <1>7
  <2>4. buffer' = [p \in 0 .. written' - 1 |-> ByteOfSource(chunks[job].offset + p)]
    BY <1>3, <1>13, <1>15
  <2>5. UNCHANGED <<policy, src, length, pc, created, fileSize, chunks, accepted, error, fatal, job>>
    BY <1>13, <1>16
  <2> QED BY <2>3, <2>4, <2>5, <1>2, <1>14, NextPiece
<1>17. CASE count # size
  <2>1. EndRead(written + count, bytes)
    BY <1>13, <1>17
  <2>2. written + count # z
    BY <1>7, <1>10, <1>11, <1>17
  <2>3. n' \in Nat /\ current' \in Nat
    <3>1. n' = n + 1 /\ current' = current + s
      BY <1>2, <1>6
    <3>2. n \in Nat /\ current \in Nat
      BY <1>3, <1>4
    <3> QED BY <3>1, <3>2
  <2> QED BY <2>1, <2>2, <2>3, <1>2, <1>3, <1>14, AfterRead
<1> QED BY <1>16, <1>17

-----------------------------------------------------------------------------
(* The theorems.                                                           *)

\* The file changes: only the length of the store does.
LEMMA NextFileChanges ==
    ASSUME FileInv, FileChanges
    PROVE  FileInv'
<1>1. FileTypeOK /\ ChunksInv /\ ReadInv
  BY DEF FileInv
<1>2. /\ length' \in [Stores -> 0 .. MaxLength]
      /\ UNCHANGED <<policy, src, pc, created, fileSize, chunks, accepted, error, fatal, job,
                     n, current, written, buffer>>
  BY <1>1 DEF FileChanges, FileTypeOK, loopVars
<1>3. AcceptedChunksComplete' /\ accepted' \in Seq(AcceptedBuffers')
  BY <1>1, <1>2, SameAccepted DEF FileTypeOK
<1>4. FileTypeOK'
  BY <1>1, <1>2, <1>3 DEF FileTypeOK
<1>5. /\ Shape' = Shape /\ TailPiece' = TailPiece /\ \A k : BlockPiece(k)' = BlockPiece(k)
      /\ src.kind = "compound" => DataGetSize(src)' = DataGetSize(src)
  BY <1>2, SameShape, SameSource
<1>6. ChunksInv'
  BY <1>1, <1>2, <1>5 DEF ChunksInv
<1>7. ReadInv'
  <2> SUFFICES ASSUME pc = "pread" PROVE ReadInv'
    BY <1>2 DEF ReadInv
  <2>1. PICK o : o = chunks[job].offset
    OBVIOUS
  <2>2. buffer = [p \in 0 .. written - 1 |-> ByteOfSource(o + p)]
    BY <2>1, <1>1 DEF ReadInv
  <2>3. \A p \in 0 .. written - 1 : ByteOfSource(chunks[job].offset + p)' = ByteOfSource(o + p)
    BY <2>1, <1>2 DEF ByteOfSource, ByteOfPiece, ContainsByte, PieceBegin
  <2>4. buffer' = [p \in 0 .. written' - 1 |-> ByteOfSource(chunks[job].offset + p)']
    BY <2>2, <2>3, <1>2
  <2>5. src.kind = "compound" => CompoundEnd' = CompoundEnd /\ PieceBegin(n)' = PieceBegin(n)
    BY <1>2, <1>5 DEF CompoundEnd, PieceBegin
  <2> QED BY <2>4, <2>5, <1>1, <1>2 DEF ReadInv, CopyEnd
<1> QED BY <1>3, <1>4, <1>6, <1>7 DEF FileInv

\* A step that changes nothing.
LEMMA NextStutter ==
    ASSUME FileInv, UNCHANGED fileVars
    PROVE  FileInv'
<1>1. UNCHANGED <<policy, src, length, pc, created, fileSize, chunks, accepted, error, fatal, job,
                  n, current, written, buffer>>
  BY DEF fileVars
<1>2. UNCHANGED <<Shape, TailPiece, AcceptedBuffers>> /\ \A k : BlockPiece(k)' = BlockPiece(k)
  BY <1>1, SameShape DEF AcceptedBuffers
<1>3. \A k : DataGetSize(k)' = DataGetSize(k)
  BY <1>1 DEF DataGetSize
<1>4. FileTypeOK'
  BY <1>1, <1>2 DEF FileInv, FileTypeOK
<1>5. ChunksInv'
  BY <1>1, <1>2, <1>3 DEF FileInv, ChunksInv
<1>6. AcceptedChunksComplete'
  BY <1>1, SameAccepted DEF FileInv, FileTypeOK
<1>7. UNCHANGED ReadInv
  BY <1>1 DEF ReadInv, CompoundEnd, CopyEnd, ByteOfSource, ByteOfPiece, ContainsByte, PieceBegin,
              DataGetSize
<1> QED BY <1>4, <1>5, <1>6, <1>7 DEF FileInv

\* At the beginning there is no inode and no chunk.
LEMMA InitFile ==
    ASSUME Init
    PROVE  FileInv
<1>1. FileTypeOK
  <2>1. accepted \in Seq(AcceptedBuffers) /\ Len(accepted) <= Len(chunks) /\ chunks \in Seq(ChunkType)
    BY DEF Init
  <2> QED BY <2>1 DEF Init, FileTypeOK
<1>2. ChunksInv /\ ReadInv /\ AcceptedChunksComplete
  BY DEF Init, ChunksInv, ReadInv, AcceptedChunksComplete
<1> QED BY <1>1, <1>2 DEF FileInv

\* The inductive invariant of the chunks and their reads: the first blocks of the
\* file have been submitted in order by libsqfs_regular_inode_create, and the
\* buffer libsqfs_chunk_do_read is filling holds the front of its chunk.
THEOREM FileInvariant == Spec => []FileInv
<1>1. Init => FileInv
  BY InitFile
<1>2. FileInv /\ [Next]_fileVars => FileInv'
  <2> SUFFICES ASSUME FileInv, [Next]_fileVars PROVE FileInv'
    OBVIOUS
  <2>1. CASE Create
    BY <2>1, NextCreate
  <2>2. CASE CreateFail \/ StatFail \/ SubmitFail
    BY <2>2, NextGiveUp
  <2>3. CASE SubmitNext
    BY <2>3, NextSubmit
  <2>4. CASE StartRead
    BY <2>4, NextStart
  <2>5. CASE BufferFail
    BY <2>5, NextBufferFail
  <2>6. CASE ReadPlain
    BY <2>6, NextPlain
  <2>7. CASE SkipPiece
    BY <2>7, NextSkip
  <2>8. CASE CopyPiece
    BY <2>8, NextCopy
  <2>9. CASE EndCompound
    BY <2>9, NextEnd
  <2>10. CASE ReadFail
    BY <2>10, NextReadFail
  <2>11. CASE FileChanges
    BY <2>11, NextFileChanges
  <2>12. CASE UNCHANGED fileVars
    BY <2>12, NextStutter
  <2> QED BY <2>1, <2>2, <2>3, <2>4, <2>5, <2>6, <2>7, <2>8, <2>9, <2>10, <2>11, <2>12 DEF Next
<1> QED BY <1>1, <1>2, PTL DEF Spec

\* For every size of a block, size of a file and policy for tails, the chunks that
\* libsqfs_regular_inode_create submits cover the file in order without gap or
\* overlap, and each fits a buffer of the pipeline.
THEOREM ChunksAlwaysTile == Spec => []ChunksTileFile
<1>1. FileInv => ChunksTileFile
  BY ChunksTile DEF FileInv
<1> QED BY <1>1, FileInvariant, PTL

\* A reader that recomputes the number of blocks from the size of a file and from
\* whether it has a fragment finds the number the inode has.
THEOREM ReaderAlwaysAgrees == Spec => []ReaderCountsBlocks
<1>1. FileInv => ReaderCountsBlocks
  BY ReaderCounts DEF FileInv
<1> QED BY <1>1, FileInvariant, PTL

\* Whatever libsqfs_chunk_do_read accepts are the bytes of the chunk: for every
\* compound and every cut through its pieces, and although the file may change
\* between the stat and any of the reads.
THEOREM AcceptedAlwaysComplete == Spec => []AcceptedChunksComplete
<1>1. FileInv => AcceptedChunksComplete
  BY DEF FileInv
<1> QED BY <1>1, FileInvariant, PTL

\* The loop of libsqfs_compounddata_pread never writes outside the buffer of the
\* chunk: compound, pieces and range may lie as they will.
THEOREM NeverOverruns == Spec => []NoOverrun
<1>1. ASSUME FileInv PROVE NoOverrun
  <2> SUFFICES ASSUME pc = "pread" PROVE DOMAIN buffer = 0 .. written - 1 /\ written <= chunks[job].size
    BY DEF NoOverrun
  <2>1. FileTypeOK /\ ReadInv /\ written \in Nat
    BY <1>1 DEF FileInv, FileTypeOK
  <2>2. DOMAIN buffer = 0 .. written - 1
    BY <2>1 DEF ReadInv
  <2>3. chunks[job].size \in Nat
    BY <1>1, JobFacts
  <2>4. CASE src.kind # "compound"
    BY <2>1, <2>2, <2>3, <2>4 DEF ReadInv
  <2>5. CASE src.kind = "compound"
    <3>1. PICK o \in Nat, z \in Nat :
              /\ z = chunks[job].size
              /\ current \in Nat
              /\ current <= o => written = 0
              /\ current > o /\ current <= o + z => written = current - o
              /\ current > o + z => written = z
      BY <1>1, <2>5, CompoundFacts
    <3> QED BY <2>1, <2>2, <3>1
  <2> QED BY <2>4, <2>5
<1>2. FileInv => NoOverrun
  BY <1>1
<1> QED BY <1>2, FileInvariant, PTL
=============================================================================

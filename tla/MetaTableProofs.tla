--------------------------- MODULE MetaTableProofs ---------------------------
(***************************************************************************)
(* A table can be read back from the places libsqfs_metatable_append       *)
(* handed out and from where libsqfs_metatable_write put it, for any size  *)
(* of a block, any records, any outcome of the compressor and any failing  *)
(* allocation or write.                                                    *)
(***************************************************************************)
EXTENDS MetaTable, TLAPS

USE DEF HeaderSize, EntrySize, NotWritten

-----------------------------------------------------------------------------
(* Completing a block.                                                     *)

\* The block that a flush lists: never larger than the data, never empty.
LEMMA FlushedBlock ==
    ASSUME NEW at \in Nat, NEW data \in Seq(Bytes), Len(data) >= 1, Len(data) <= MetaSize,
           NEW c \in CompressResults
    PROVE  /\ Flushed(at, data, c) \in MetablockType
           /\ Flushed(at, data, c).offset = at
           /\ Flushed(at, data, c).data = data
<1>1. Flushed(at, data, c).offset = at /\ Flushed(at, data, c).data = data
  BY DEF Flushed
<1>2. c \in Int /\ (c # -1 => c >= 1)
  BY CompressResultsFit, MetaSizePositive
<1>3. (IF c # -1 /\ c < Len(data) THEN c ELSE Len(data)) \in 1 .. MetaSize
  BY <1>2, MetaSizePositive
<1>4. Flushed(at, data, c) \in MetablockType
  BY <1>3 DEF Flushed, MetablockType
<1> QED BY <1>1, <1>4

\* A flush (libsqfs_metatable_flush) adds a block with the data behind the others
\* and leaves those alone.
LEMMA FlushFacts ==
    ASSUME MetaTypeOK, OffsetsAddUp, BlocksWithin,
           NEW data \in Seq(Bytes), Len(data) >= 1, Len(data) <= MetaSize,
           NEW c \in CompressResults, Flush(tsize, data, c)
    PROVE  /\ blocks' \in Seq(MetablockType) /\ Len(blocks') = Len(blocks) + 1
           /\ \A k \in 1 .. Len(blocks) : blocks'[k] = blocks[k]
           /\ blocks'[Len(blocks) + 1].data = data
           /\ blocks'[Len(blocks) + 1].offset = tsize
           /\ tsize' \in Nat /\ opened' = NoBytes
           /\ OffsetsAddUp' /\ BlocksWithin'
<1>1. PICK b \in MetablockType : b = Flushed(tsize, data, c)
  BY FlushedBlock DEF MetaTypeOK
<1>2. b.offset = tsize /\ b.data = data /\ b.size \in Nat /\ b.size >= 1
  BY <1>1, FlushedBlock, MetaSizePositive, SMTT(20) DEF MetaTypeOK, MetablockType
<1> PICK size \in Nat : size = b.size
  BY <1>2
<1>3. blocks' = Append(blocks, b) /\ tsize' = tsize + size + 2 /\ opened' = NoBytes
  BY <1>1, <1>2 DEF Flush, Occupies, MetaTypeOK
<1>4. blocks \in Seq(MetablockType) /\ tsize \in Nat
  BY DEF MetaTypeOK
<1>5. blocks' \in Seq(MetablockType) /\ Len(blocks') = Len(blocks) + 1
  BY <1>3, <1>4
<1>6. \A k \in 1 .. Len(blocks) : blocks'[k] = blocks[k]
  BY <1>3, <1>4
<1>7. blocks'[Len(blocks) + 1] = b
  BY <1>3, <1>4
<1>8. tsize' \in Nat
  BY <1>2, <1>3, <1>4
<1>9. OffsetsAddUp'
  <2>1. ASSUME NEW k \in 1 .. Len(blocks')
        PROVE  blocks'[k].offset = IF k = 1 THEN 0
                  ELSE blocks'[k - 1].offset + 2 + blocks'[k - 1].size
    <3>1. CASE k <= Len(blocks)
      <4>1. k \in 1 .. Len(blocks) /\ (k # 1 => k - 1 \in 1 .. Len(blocks))
        BY <3>1, <1>4
      <4> QED BY <4>1, <1>6 DEF OffsetsAddUp
    <3>2. CASE k = Len(blocks) + 1
      <4>1. CASE blocks = <<>>
        BY <4>1, <3>2, <1>7, <1>2 DEF OffsetsAddUp
      <4>2. CASE blocks # <<>>
        <5>1. Len(blocks) \in 1 .. Len(blocks) /\ k # 1 /\ k - 1 = Len(blocks)
          BY <4>2, <1>4, <3>2
        <5> QED BY <4>2, <5>1, <3>2, <1>6, <1>7, <1>2 DEF OffsetsAddUp
      <4> QED BY <4>1, <4>2
    <3> QED BY <3>1, <3>2, <1>4, <1>5
  <2>2. tsize' = IF blocks' = <<>> THEN 0
                 ELSE blocks'[Len(blocks')].offset + 2 + blocks'[Len(blocks')].size
    <3>1. blocks' # <<>>
      BY <1>5, <1>4
    <3> QED BY <3>1, <1>5, <1>7, <1>2, <1>3, <1>4
  <2>3. opened' = NoBytes
    BY <1>3
  <2> QED BY <2>1, <2>2, <2>3 DEF OffsetsAddUp
<1>10. BlocksWithin'
  <2> SUFFICES ASSUME NEW k \in 1 .. Len(blocks')
      PROVE blocks'[k].offset + 2 + blocks'[k].size <= tsize'
    BY DEF BlocksWithin
  <2>1. CASE k <= Len(blocks)
    <3>1. k \in 1 .. Len(blocks) /\ blocks[k] \in MetablockType
      BY <2>1, <1>4
    <3>2. blocks[k].offset \in Nat /\ blocks[k].size \in Nat
      BY <3>1, MetaSizePositive DEF MetablockType
    <3>3. blocks'[k] = blocks[k] /\ tsize' = tsize + size + 2
      BY <3>1, <1>6, <1>3
    <3>4. blocks[k].offset + 2 + blocks[k].size <= tsize
      BY <3>1 DEF BlocksWithin
    <3>5. PICK o \in Nat, z \in Nat : o = blocks[k].offset /\ z = blocks[k].size
      BY <3>2
    <3>6. o + 2 + z <= tsize /\ tsize' = tsize + size + 2
      BY <3>3, <3>4, <3>5
    <3>7. o + 2 + z <= tsize'
      BY <3>6, <1>4
    <3> QED BY <3>3, <3>5, <3>7
  <2>2. CASE k = Len(blocks) + 1
    BY <2>2, <1>7, <1>2, <1>3, <1>4
  <2> QED BY <2>1, <2>2, <1>4, <1>5
<1> QED BY <1>2, <1>3, <1>5, <1>6, <1>7, <1>8, <1>9, <1>10

-----------------------------------------------------------------------------
(* Copying a part of a record.                                             *)

RecordType == [block : Nat, offset : 0 .. MetaSize - 1, len : Lengths, done : Nat]

\* The part of the last record that a step of append copies.
Copied(n, data) ==
    /\ n >= 1 /\ LastRecord.done + n <= LastRecord.len
    /\ Len(data) = Len(opened) + n /\ Len(data) <= MetaSize
    /\ \A j \in 1 .. Len(opened) : data[j] = opened[j]
    /\ \A j \in 1 .. n : data[Len(opened) + j] = <<Len(records), LastRecord.done + j>>
    /\ records' = [records EXCEPT ![Len(records)].done = LastRecord.done + n]
    /\ openedAt' = tsize
    /\ \/ Len(data) = MetaSize /\ \E c \in CompressResults : Flush(tsize, data, c)
       \/ Len(data) # MetaSize /\ opened' = data /\ UNCHANGED <<blocks, tsize>>
    /\ pc' = IF LastRecord.done + n = LastRecord.len THEN "idle" ELSE "append"

\* The last record while it is appended.
LEMMA LastRecordFacts ==
    ASSUME MetaTypeOK, records # <<>>
    PROVE  /\ Len(records) \in Nat /\ Len(records) >= 1 /\ Len(records) \in DOMAIN records
           /\ LastRecord \in RecordType /\ LastRecord.len \in Nat /\ LastRecord.done \in Nat
           /\ LastRecord.block \in Nat /\ LastRecord.offset \in Nat
<1>1. records \in Seq(RecordType)
  BY DEF MetaTypeOK, RecordType
<1>2. Len(records) \in Nat /\ Len(records) >= 1 /\ Len(records) \in DOMAIN records
  BY <1>1
<1>3. LastRecord \in RecordType
  BY <1>1, <1>2 DEF LastRecord
<1>4. PICK l \in RecordType : l = LastRecord
  BY <1>3
<1>5. l.len \in Lengths /\ l.offset \in 0 .. MetaSize - 1 /\ l.done \in Nat /\ l.block \in Nat
  BY DEF RecordType
<1>6. l.len \in Nat
  BY <1>5, LengthsPositive
<1>7. l.offset \in Nat
  BY <1>5, MetaSizePositive
<1> QED BY <1>2, <1>4, <1>5, <1>6, <1>7

\* One iteration of the loop of libsqfs_metatable_append copies at least a byte and
\* no more than fit.
LEMMA StepCopies ==
    ASSUME MetaTypeOK, OffsetsAddUp, AppendInv, AppendStep
    PROVE  \E n \in Nat, data \in Seq(Bytes) : Copied(n, data)
<1> DEFINE i == Len(records)
           r == records[i]
           left == r.len - r.done
           n == ToCopy(left)
           new == [j \in 1 .. n |-> <<i, r.done + j>>]
           data == opened \o new
<1>1. pc = "append" /\ records # <<>> /\ r = LastRecord /\ i <= MaxRecords
  BY DEF AppendStep, AppendInv, LastRecord
<1>2. i \in Nat /\ i >= 1 /\ r.len \in Nat /\ r.done \in Nat /\ r.done < r.len
  BY <1>1, LastRecordFacts DEF AppendInv
<1>3. opened \in Seq(Bytes) /\ Len(opened) \in Nat /\ Len(opened) < MetaSize /\ MetaSize \in Nat
  BY MetaSizePositive DEF MetaTypeOK
<1>4. left \in Nat /\ left >= 1
  BY <1>2
<1>5. n \in Nat /\ n >= 1 /\ n <= left /\ n <= MetaSize - Len(opened)
  BY <1>3, <1>4 DEF ToCopy, Smaller
<1>6. PICK m \in Nat : m = n
  BY <1>5
<1>6a. PICK q : q = new
  OBVIOUS
<1>7. q \in Seq(Bytes) /\ Len(q) = m /\ \A j \in 1 .. m : q[j] = <<i, r.done + j>>
  <2>1. q = [j \in 1 .. m |-> <<i, r.done + j>>]
    BY <1>6, <1>6a
  <2>2. \A j \in 1 .. m : <<i, r.done + j>> \in Bytes
    BY <1>1, <1>2, MetaBounds DEF Bytes
  <2> QED BY <2>1, <2>2
<1>8. opened \o q \in Seq(Bytes) /\ Len(opened \o q) = Len(opened) + m
  <2>1. opened \in Seq(Bytes) /\ q \in Seq(Bytes)
    BY <1>3, <1>7
  <2>2. opened \o q \in Seq(Bytes) /\ Len(opened \o q) = Len(opened) + Len(q)
    BY <2>1
  <2> QED BY <2>2, <1>7
<1>9. \A j \in 1 .. Len(opened) : (opened \o q)[j] = opened[j]
  BY <1>3, <1>7
<1>10. ASSUME NEW j \in 1 .. m
       PROVE  (opened \o q)[Len(opened) + j] = <<i, r.done + j>>
  <2>1. (opened \o q)[Len(opened) + j] = q[j]
    BY <1>3, <1>7
  <2> QED BY <2>1, <1>7
<1>11. (IF opened = NoBytes THEN tsize ELSE openedAt) = tsize
  BY DEF OffsetsAddUp
<1>12. /\ records' = [records EXCEPT ![i].done = r.done + m]
       /\ openedAt' = tsize
       /\ \/ Len(opened \o q) = MetaSize /\ \E c \in CompressResults : Flush(tsize, opened \o q, c)
          \/ Len(opened \o q) # MetaSize /\ opened' = opened \o q /\ UNCHANGED <<blocks, tsize>>
       /\ pc' = IF r.done + m = r.len THEN "idle" ELSE "append"
  BY <1>6, <1>11, <1>6a, Zenon DEF AppendStep
<1>13. r.done + m <= r.len /\ m >= 1 /\ Len(opened) + m <= MetaSize
  BY <1>2, <1>3, <1>5, <1>6
<1> HIDE DEF r, i, left, n, new, data
<1>14. PICK d \in Seq(Bytes) : d = opened \o q
  BY <1>8
<1>15. Copied(m, d)
  BY <1>1, <1>8, <1>9, <1>10, <1>12, <1>13, <1>14 DEF Copied, r, i
<1> QED BY <1>15

\* The table after the copy: the opened block has grown, or is now listed; the
\* blocks before it are as they were.
LEMMA CopiedBlocks ==
    ASSUME MetaTypeOK, OffsetsAddUp, BlocksWithin,
           NEW n \in Nat, NEW data \in Seq(Bytes), Copied(n, data)
    PROVE  /\ blocks' \in Seq(MetablockType)
           /\ Len(blocks') = Len(blocks) \/ (Len(blocks') = Len(blocks) + 1 /\ opened' = NoBytes)
           /\ opened' \in Seq(Bytes) /\ Len(opened') < MetaSize
           /\ tsize' \in Nat
           /\ OffsetsAddUp' /\ BlocksWithin'
           /\ \A k \in 1 .. Len(blocks) : blocks'[k] = blocks[k]
           /\ \A k \in 1 .. Len(blocks) : Content(k)' = Content(k) /\ OffsetOf(k)' = OffsetOf(k)
           /\ \A k : k = Len(blocks) + 1 => Content(k)' = data /\ OffsetOf(k)' = tsize
           /\ Len(blocks') = Len(blocks) + 1 => Len(data) = MetaSize /\ blocks'[Len(blocks) + 1].data = data
<1>1. blocks \in Seq(MetablockType) /\ Len(blocks) \in Nat /\ opened \in Seq(Bytes) /\ tsize \in Nat
  BY DEF MetaTypeOK
<1>2. /\ n >= 1 /\ Len(data) = Len(opened) + n /\ Len(data) <= MetaSize /\ openedAt' = tsize
  BY DEF Copied
<1>3. Len(data) >= 1 /\ MetaSize \in Nat /\ MetaSize >= 1
  BY <1>1, <1>2, MetaSizePositive
<1>4. CASE Len(data) = MetaSize /\ \E c \in CompressResults : Flush(tsize, data, c)
  <2>1. PICK c \in CompressResults : Flush(tsize, data, c)
    BY <1>4
  <2>2. /\ blocks' \in Seq(MetablockType) /\ Len(blocks') = Len(blocks) + 1
        /\ \A k \in 1 .. Len(blocks) : blocks'[k] = blocks[k]
        /\ blocks'[Len(blocks) + 1].data = data
        /\ blocks'[Len(blocks) + 1].offset = tsize
        /\ tsize' \in Nat /\ opened' = NoBytes
        /\ OffsetsAddUp' /\ BlocksWithin'
    BY <2>1, <1>2, <1>3, FlushFacts
  <2>3. opened' \in Seq(Bytes) /\ Len(opened') < MetaSize
    BY <2>2, <1>3 DEF NoBytes
  <2>4. ASSUME NEW k \in 1 .. Len(blocks)
        PROVE  Content(k)' = Content(k) /\ OffsetOf(k)' = OffsetOf(k)
    <3>1. k <= Len(blocks) /\ k <= Len(blocks') /\ blocks'[k] = blocks[k]
      BY <2>2, <1>1
    <3> QED BY <3>1 DEF Content, OffsetOf
  <2>5. ASSUME NEW k, k = Len(blocks) + 1
        PROVE  Content(k)' = data /\ OffsetOf(k)' = tsize
    <3>1. k <= Len(blocks')
      BY <2>2, <2>5, <1>1
    <3> QED BY <3>1, <2>2, <2>5 DEF Content, OffsetOf
  <2> QED BY <1>4, <2>2, <2>3, <2>4, <2>5
<1>5. CASE Len(data) # MetaSize /\ opened' = data /\ UNCHANGED <<blocks, tsize>>
  <2>1. blocks' = blocks /\ tsize' = tsize /\ opened' = data
    BY <1>5
  <2>2. opened' \in Seq(Bytes) /\ Len(opened') < MetaSize
    BY <2>1, <1>5, <1>2, <1>3
  <2>3. OffsetsAddUp' /\ BlocksWithin'
    BY <2>1, <1>2 DEF OffsetsAddUp, BlocksWithin
  <2>4. ASSUME NEW k \in 1 .. Len(blocks)
        PROVE  Content(k)' = Content(k) /\ OffsetOf(k)' = OffsetOf(k)
    BY <2>1, <1>1 DEF Content, OffsetOf
  <2>5. ASSUME NEW k, k = Len(blocks) + 1
        PROVE  Content(k)' = data /\ OffsetOf(k)' = tsize
    <3>1. ~(k <= Len(blocks'))
      BY <2>1, <2>5, <1>1
    <3> QED BY <3>1, <2>1, <1>2 DEF Content, OffsetOf
  <2>6. Len(blocks') = Len(blocks) /\ Len(blocks') # Len(blocks) + 1
    BY <2>1, <1>1
  <2> QED BY <2>1, <2>2, <2>3, <2>4, <2>5, <2>6, <1>1
<1> QED BY <1>4, <1>5 DEF Copied

\* The records after the copy: only the count of the last one has changed.
LEMMA CopiedRecords ==
    ASSUME MetaTypeOK, records # <<>>, NEW n \in Nat, NEW data \in Seq(Bytes), Copied(n, data)
    PROVE  /\ records' \in Seq(RecordType) /\ Len(records') = Len(records)
           /\ \A j \in 1 .. Len(records) : j # Len(records) => records'[j] = records[j]
           /\ LastRecord'.done = LastRecord.done + n /\ LastRecord'.len = LastRecord.len
           /\ LastRecord'.block = LastRecord.block /\ LastRecord'.offset = LastRecord.offset
           /\ LastRecord' = records'[Len(records)]
<1>1. records \in Seq(RecordType) /\ Len(records) \in DOMAIN records /\ LastRecord \in RecordType
  BY LastRecordFacts DEF MetaTypeOK, RecordType
<1>2. PICK d \in Nat : d = LastRecord.done + n
  BY <1>1 DEF RecordType
<1>3. PICK r \in RecordType : r = [LastRecord EXCEPT !.done = d]
  BY <1>1 DEF RecordType
<1>4. r.done = d /\ r.len = LastRecord.len /\ r.block = LastRecord.block /\ r.offset = LastRecord.offset
  BY <1>1, <1>3 DEF RecordType
<1>5. records' = [records EXCEPT ![Len(records)] = r]
  BY <1>2, <1>3 DEF Copied, LastRecord
<1>6. records' \in Seq(RecordType) /\ Len(records') = Len(records)
  BY <1>1, <1>5
<1>7. \A j \in 1 .. Len(records) : j # Len(records) => records'[j] = records[j]
  BY <1>1, <1>5
<1>8. records'[Len(records)] = r
  BY <1>1, <1>5
<1>9. LastRecord' = records'[Len(records)]
  BY <1>6 DEF LastRecord
<1> QED BY <1>2, <1>4, <1>6, <1>7, <1>8, <1>9

-----------------------------------------------------------------------------
(* The stream of bytes.                                                    *)

\* The bytes after the copy: those that were there, and behind them the copied ones.
LEMMA CopiedBytes ==
    ASSUME MetaTypeOK, OffsetsAddUp, BlocksWithin, records # <<>>,
           NEW n \in Nat, NEW data \in Seq(Bytes), Copied(n, data),
           NEW k \in BlockNumbers', NEW m \in 1 .. Len(Content(k)')
    PROVE  \/ k \in BlockNumbers /\ m \in 1 .. Len(Content(k)) /\ Content(k)'[m] = Content(k)[m]
           \/ \E j \in 1 .. n : /\ k = Len(blocks) + 1 /\ m = Len(opened) + j
                                /\ Content(k)'[m] = <<Len(records), LastRecord.done + j>>
<1>1. blocks \in Seq(MetablockType) /\ Len(blocks) \in Nat /\ opened \in Seq(Bytes) /\ Len(opened) \in Nat
  BY DEF MetaTypeOK
<1>2. k \in 1 .. Len(blocks') + 1
  BY DEF BlockNumbers
<1>3. CASE k \in 1 .. Len(blocks)
  BY <1>1, <1>3, CopiedBlocks DEF BlockNumbers
<1>4. CASE k = Len(blocks) + 1
  <2>1. Content(k)' = data
    BY <1>4, CopiedBlocks
  <2>2. Content(k) = opened
    BY <1>1, <1>4 DEF Content
  <2>3. Len(data) = Len(opened) + n
    BY DEF Copied
  <2>4. CASE m <= Len(opened)
    <3>1. m \in 1 .. Len(opened)
      BY <2>4, <1>1, <2>1
    <3>2. data[m] = opened[m]
      BY <3>1 DEF Copied
    <3>3. k \in BlockNumbers
      BY <1>1, <1>4 DEF BlockNumbers
    <3> QED BY <3>1, <3>2, <3>3, <2>1, <2>2
  <2>5. CASE m > Len(opened)
    <3>1. m - Len(opened) \in 1 .. n /\ m = Len(opened) + (m - Len(opened))
      BY <2>5, <2>1, <2>3, <1>1
    <3>2. PICK j \in 1 .. n : m = Len(opened) + j
      BY <3>1
    <3>3. data[Len(opened) + j] = <<Len(records), LastRecord.done + j>>
      BY DEF Copied
    <3> QED BY <3>2, <3>3, <2>1, <1>4
  <2> QED BY <2>1, <2>4, <2>5, <1>1
<1>5. CASE k = Len(blocks) + 2
  <2>1. Len(blocks') = Len(blocks) + 1 /\ opened' = NoBytes
    BY <1>1, <1>2, <1>5, CopiedBlocks
  <2>2. Content(k)' = <<>>
    BY <1>1, <1>5, <2>1 DEF Content, NoBytes
  <2> QED BY <2>2
<1>6. Len(blocks') = Len(blocks) \/ Len(blocks') = Len(blocks) + 1
  BY CopiedBlocks
<1> QED BY <1>1, <1>2, <1>3, <1>4, <1>5, <1>6

\* Bytes stay at their places.
LEMMA BytesStay ==
    ASSUME MetaTypeOK, OffsetsAddUp, BlocksWithin,
           NEW n \in Nat, NEW data \in Seq(Bytes), Copied(n, data),
           NEW k, NEW m, NEW b, IsByte(k, m, b)
    PROVE  IsByte(k, m, b)'
<1>1. blocks \in Seq(MetablockType) /\ Len(blocks) \in Nat /\ opened \in Seq(Bytes) /\ Len(opened) \in Nat
  BY DEF MetaTypeOK
<1>2. k \in 1 .. Len(blocks) + 1 /\ m \in 1 .. Len(Content(k)) /\ Content(k)[m] = b
  BY DEF IsByte, BlockNumbers
<1>3. k \in BlockNumbers'
  <2>1. Len(blocks') = Len(blocks) \/ Len(blocks') = Len(blocks) + 1
    BY CopiedBlocks
  <2> QED BY <2>1, <1>1, <1>2 DEF BlockNumbers
<1>4. CASE k \in 1 .. Len(blocks)
  <2>1. Content(k)' = Content(k)
    BY <1>4, CopiedBlocks
  <2> QED BY <2>1, <1>2, <1>3 DEF IsByte
<1>5. CASE k = Len(blocks) + 1
  <2>1. Content(k)' = data
    BY <1>5, CopiedBlocks
  <2>2. Content(k) = opened
    BY <1>1, <1>5 DEF Content
  <2>3. Len(data) = Len(opened) + n /\ data[m] = opened[m]
    BY <2>2, <1>2 DEF Copied
  <2>4. m \in 1 .. Len(data)
    BY <2>2, <2>3, <1>1, <1>2
  <2> QED BY <2>1, <2>2, <2>3, <2>4, <1>2, <1>3 DEF IsByte
<1> QED BY <1>1, <1>2, <1>4, <1>5

\* The content of a block is a sequence of bytes.
LEMMA ContentType ==
    ASSUME MetaTypeOK, NEW k \in BlockNumbers
    PROVE  /\ Content(k) \in Seq(Bytes) /\ Len(Content(k)) \in Nat
           /\ \A m \in 1 .. Len(Content(k)) :
                 /\ Content(k)[m] = <<Content(k)[m][1], Content(k)[m][2]>>
                 /\ Content(k)[m][1] \in Nat /\ Content(k)[m][2] \in Nat
<1>1. blocks \in Seq(MetablockType) /\ opened \in Seq(Bytes) /\ Len(blocks) \in Nat
  BY DEF MetaTypeOK
<1>2. Content(k) \in Seq(Bytes)
  <2>1. CASE k \in 1 .. Len(blocks)
    <3>1. blocks[k] \in MetablockType
      BY <1>1, <2>1
    <3>2. blocks[k].data \in Seq(Bytes)
      BY <3>1 DEF MetablockType
    <3>3. Content(k) = blocks[k].data
      BY <1>1, <2>1 DEF Content
    <3> QED BY <3>2, <3>3
  <2>2. CASE k = Len(blocks) + 1
    <3>1. Content(k) = opened
      BY <1>1, <2>2 DEF Content
    <3> QED BY <1>1, <3>1
  <2> QED BY <1>1, <2>1, <2>2 DEF BlockNumbers
<1>3. PICK s \in Seq(Bytes) : s = Content(k)
  BY <1>2
<1>4. ASSUME NEW m \in 1 .. Len(s)
      PROVE  s[m] = <<s[m][1], s[m][2]>> /\ s[m][1] \in Nat /\ s[m][2] \in Nat
  <2>1. s[m] \in (1 .. MaxRecords) \X (Nat \ {0})
    BY DEF Bytes
  <2> QED BY <2>1
<1>5. Len(s) \in Nat
  OBVIOUS
<1> QED BY <1>3, <1>4, <1>5

\* A copy extends what is in the table by the next bytes of the record.
LEMMA StepStream ==
    ASSUME MetaTypeOK, OffsetsAddUp, BlocksWithin, AppendInv, StreamInv, AppendStep
    PROVE  StreamInv'
<1>1. PICK n \in Nat, data \in Seq(Bytes) : Copied(n, data)
  BY StepCopies
<1>2. records # <<>>
  BY DEF AppendInv, AppendStep
<1>3. Len(records) \in Nat /\ Len(records) >= 1 /\ LastRecord.done \in Nat /\ n >= 1
      /\ DOMAIN records = 1 .. Len(records)
  BY <1>1, <1>2, LastRecordFacts DEF Copied, MetaTypeOK
<1>4. /\ Len(records') = Len(records) /\ DOMAIN records' = 1 .. Len(records)
      /\ \A j \in 1 .. Len(records) : j # Len(records) => records'[j] = records[j]
      /\ records'[Len(records)].done = LastRecord.done + n
      /\ LastRecord'.done = LastRecord.done + n
  BY <1>1, <1>2, CopiedRecords
<1> PICK N, D, E : N = Len(records) /\ D = LastRecord.done /\ E = LastRecord'.done
  OBVIOUS
<1>5. N \in Nat /\ D \in Nat /\ E = D + n /\ records'[N].done = E /\ Len(records') = N
  BY <1>3, <1>4
<1> SUFFICES ASSUME NEW k \in BlockNumbers', NEW m \in 1 .. Len(Content(k)'),
                    NEW b, b = Content(k)'[m]
    PROVE  /\ b[1] \in 1 .. N /\ b[2] \in 1 .. records'[b[1]].done
           /\ b = <<N, E>> => IsEnd(k, m)'
  BY <1>4 DEF StreamInv
<1> PICK x, y : x = b[1] /\ y = b[2]
  OBVIOUS
<1>6. CASE k \in BlockNumbers /\ m \in 1 .. Len(Content(k)) /\ b = Content(k)[m]
  <2>1. x \in 1 .. N /\ y \in 1 .. records[x].done
    BY <1>6, <1>3 DEF StreamInv
  <2>2. b = <<N, E>> => x = N /\ y = E
    OBVIOUS
  <2>3. CASE x = N
    <3>1. y \in 1 .. D
      BY <2>1, <2>3 DEF LastRecord
    <3>2. y \in 1 .. E /\ y # E
      BY <3>1, <1>3, <1>5
    <3>3. records'[x].done = E
      BY <2>3, <1>5
    <3> QED BY <2>1, <2>2, <3>2, <3>3
  <2>4. CASE x # N
    <3>1. records'[x] = records[x]
      BY <2>1, <2>4, <1>4
    <3> QED BY <2>1, <2>2, <2>4, <3>1
  <2> QED BY <2>3, <2>4
<1>7. CASE \E j \in 1 .. n : /\ k = Len(blocks) + 1 /\ m = Len(opened) + j
                             /\ b = <<N, D + j>>
  <2>1. PICK j \in 1 .. n : k = Len(blocks) + 1 /\ m = Len(opened) + j /\ b = <<N, D + j>>
    BY <1>7
  <2>2. x = N /\ y = D + j
    BY <2>1
  <2>3. x \in 1 .. N /\ y \in 1 .. E
    BY <2>2, <1>3, <1>5
  <2>4. records'[x].done = E
    BY <2>2, <1>5
  <2>5. ASSUME b = <<N, E>> PROVE IsEnd(k, m)'
    <3>1. y = E
      BY <2>5
    <3>2. j = n
      BY <3>1, <2>2, <1>5
    <3>3. m = Len(Content(k)')
      BY <3>2, <2>1, <1>1, CopiedBlocks DEF Copied
    <3>4. k = Len(blocks') + 1 \/ (k = Len(blocks') /\ opened' = NoBytes)
      BY <2>1, <1>1, CopiedBlocks
    <3> QED BY <3>3, <3>4 DEF IsEnd
  <2> QED BY <2>3, <2>4, <2>5
<1>8. \/ k \in BlockNumbers /\ m \in 1 .. Len(Content(k)) /\ Content(k)'[m] = Content(k)[m]
      \/ \E j \in 1 .. n : /\ k = Len(blocks) + 1 /\ m = Len(opened) + j
                           /\ Content(k)'[m] = <<Len(records), LastRecord.done + j>>
  BY <1>1, <1>2, CopiedBytes
<1> QED BY <1>6, <1>7, <1>8

\* After a copy every byte is still followed by the next one of its record.
LEMMA StepFollows ==
    ASSUME MetaTypeOK, OffsetsAddUp, BlocksWithin, AppendInv, StreamInv, RecordsReadBack, AppendStep,
           NEW k \in BlockNumbers', NEW m \in 1 .. Len(Content(k)'), NEW b, b = Content(k)'[m],
           IsFollowed(b)'
    PROVE  NextIs(k, m, Successor(b))'
<1>1. PICK n \in Nat, data \in Seq(Bytes) : Copied(n, data)
  BY StepCopies
<1>2. records # <<>>
  BY DEF AppendInv, AppendStep
<1>3. blocks \in Seq(MetablockType) /\ Len(blocks) \in Nat /\ opened \in Seq(Bytes) /\ Len(opened) \in Nat
  BY DEF MetaTypeOK
<1> PICK x, y : x = b[1] /\ y = b[2]
  OBVIOUS
<1>0. y < records'[x].done
  BY DEF IsFollowed
<1> SUFFICES NextIs(k, m, <<x, y + 1>>)'
  BY DEF Successor, NextIs, IsByte
<1> PICK N, D : N = Len(records) /\ D = LastRecord.done
  OBVIOUS
<1>4. N \in Nat /\ D \in Nat /\ n >= 1 /\ DOMAIN records = 1 .. N
  BY <1>1, <1>2, LastRecordFacts DEF Copied, MetaTypeOK
<1>5. /\ \A j \in 1 .. N : j # N => records'[j] = records[j]
      /\ records'[N].done = D + n
  BY <1>1, <1>2, CopiedRecords
<1>6. Len(data) = Len(opened) + n /\ \A j \in 1 .. n : data[Len(opened) + j] = <<N, D + j>>
  BY <1>1 DEF Copied
<1>7. \A l : l = Len(blocks) + 1 => Content(l)' = data /\ l \in BlockNumbers'
  <2>1. Len(blocks') = Len(blocks) \/ Len(blocks') = Len(blocks) + 1
    BY <1>1, CopiedBlocks
  <2> QED BY <2>1, <1>1, <1>3, CopiedBlocks DEF BlockNumbers
<1>8. CASE k \in BlockNumbers /\ m \in 1 .. Len(Content(k)) /\ b = Content(k)[m]
  <2>1. x \in 1 .. N /\ y \in 1 .. records[x].done /\ (b = <<N, D>> => IsEnd(k, m))
    BY <1>8, <1>4 DEF StreamInv
  <2>2. b = <<x, y>> /\ y \in Nat /\ Len(Content(k)) \in Nat
    BY <1>8, ContentType
  <2>3. k \in 1 .. Len(blocks) + 1
    BY <1>8 DEF BlockNumbers
  <2>4. CASE y < records[x].done
    <3>1. NextIs(k, m, <<x, y + 1>>)
      BY <1>8, <2>4 DEF RecordsReadBack, IsFollowed, Successor
    <3>2. CASE m < Len(Content(k))
      <4>1. IsByte(k, m + 1, <<x, y + 1>>)
        BY <3>1, <3>2 DEF NextIs
      <4>2. IsByte(k, m + 1, <<x, y + 1>>)'
        BY <4>1, <1>1, BytesStay
      <4>3. m < Len(Content(k)')
        BY <4>2 DEF IsByte
      <4> QED BY <4>2, <4>3 DEF NextIs
    <3>3. CASE ~(m < Len(Content(k)))
      <4>1. IsByte(k + 1, 1, <<x, y + 1>>)
        BY <3>1, <3>3 DEF NextIs
      <4>2. IsByte(k + 1, 1, <<x, y + 1>>)'
        BY <4>1, <1>1, BytesStay
      <4>3. k \in 1 .. Len(blocks)
        BY <4>1, <2>3, <1>3 DEF IsByte, BlockNumbers
      <4>4. Content(k)' = Content(k)
        BY <4>3, <1>1, CopiedBlocks
      <4> QED BY <4>2, <4>4, <3>3 DEF NextIs
    <3> QED BY <3>2, <3>3
  <2>5. CASE ~(y < records[x].done)
    <3>1. x = N
      BY <2>1, <2>5, <1>0, <1>5
    <3>2. y = D
      <4>1. records[x].done = D
        BY <3>1 DEF LastRecord
      <4> QED BY <4>1, <2>1, <2>5, <1>4
    <3>3. m = Len(Content(k)) /\ (k = Len(blocks) + 1 \/ (k = Len(blocks) /\ opened = NoBytes))
      BY <2>1, <2>2, <3>1, <3>2 DEF IsEnd
    <3>4. data[Len(opened) + 1] = <<x, y + 1>>
      BY <1>4, <1>6, <3>1, <3>2
    <3>5. CASE k = Len(blocks) + 1
      <4>1. Content(k) = opened /\ Content(k)' = data /\ k \in BlockNumbers'
        BY <3>5, <1>3, <1>7 DEF Content
      <4>2. m = Len(opened) /\ m + 1 \in 1 .. Len(data)
        BY <3>3, <4>1, <1>3, <1>4, <1>6
      <4>3. IsByte(k, m + 1, <<x, y + 1>>)'
        BY <4>1, <4>2, <3>4 DEF IsByte
      <4>4. m < Len(Content(k)')
        BY <4>1, <4>2, <1>3, <1>4, <1>6
      <4> QED BY <4>3, <4>4 DEF NextIs
    <3>6. CASE k = Len(blocks) /\ opened = NoBytes
      <4>1. k \in 1 .. Len(blocks)
        BY <2>3, <3>6, <1>3
      <4>2. Content(k)' = Content(k)
        BY <4>1, <1>1, CopiedBlocks
      <4>3. Len(opened) = 0
        BY <3>6 DEF NoBytes
      <4>4. data[1] = <<x, y + 1>> /\ 1 \in 1 .. Len(data)
        BY <4>3, <3>4, <1>4, <1>6
      <4>5. Content(k + 1)' = data /\ k + 1 \in BlockNumbers'
        BY <3>6, <1>7
      <4>6. IsByte(k + 1, 1, <<x, y + 1>>)'
        BY <4>4, <4>5 DEF IsByte
      <4>7. ~(m < Len(Content(k)'))
        BY <3>3, <4>2, <2>2
      <4> QED BY <4>6, <4>7 DEF NextIs
    <3> QED BY <3>3, <3>5, <3>6
  <2> QED BY <2>4, <2>5
<1>9. CASE \E j \in 1 .. n : /\ k = Len(blocks) + 1 /\ m = Len(opened) + j /\ b = <<N, D + j>>
  <2>1. PICK j \in 1 .. n : k = Len(blocks) + 1 /\ m = Len(opened) + j /\ b = <<N, D + j>>
    BY <1>9
  <2>2. x = N /\ y = D + j
    BY <2>1
  <2>3. y < D + n
    <3>1. y < records'[x].done
      BY <1>0
    <3>2. records'[x].done = D + n
      BY <2>2, <1>5
    <3> QED BY <3>1, <3>2
  <2>4. j + 1 \in 1 .. n
    BY <2>2, <2>3, <1>4
  <2>5. data[Len(opened) + (j + 1)] = <<N, D + (j + 1)>>
    BY <2>4, <1>6
  <2>6. m + 1 = Len(opened) + (j + 1) /\ y + 1 = D + (j + 1) /\ m < Len(data) /\ m + 1 \in 1 .. Len(data)
    <3>1. PICK f \in Nat : f = Len(opened)
      BY <1>3
    <3>1a. PICK d : d = Len(data)
      OBVIOUS
    <3>2. d = f + n /\ m = f + j
      BY <3>1, <3>1a, <2>1, <1>6
    <3>3. m + 1 = f + (j + 1) /\ m < d /\ m + 1 \in 1 .. d
      BY <3>2, <2>4
    <3>4. y + 1 = D + (j + 1)
      <4>1. y = D + j
        BY <2>2
      <4> QED BY <4>1, <1>4, SMTT(20)
    <3> QED BY <3>1, <3>3, <3>4, <3>1a
  <2>7. Content(k)' = data /\ k \in BlockNumbers'
    BY <2>1, <1>7
  <2>8. IsByte(k, m + 1, <<x, y + 1>>)'
    BY <2>2, <2>5, <2>6, <2>7 DEF IsByte
  <2> QED BY <2>6, <2>7, <2>8 DEF NextIs
<1>10. \/ k \in BlockNumbers /\ m \in 1 .. Len(Content(k)) /\ Content(k)'[m] = Content(k)[m]
       \/ \E j \in 1 .. n : /\ k = Len(blocks) + 1 /\ m = Len(opened) + j
                            /\ Content(k)'[m] = <<Len(records), LastRecord.done + j>>
  BY <1>1, <1>2, CopiedBytes
<1> QED BY <1>8, <1>9, <1>10

\* After a copy every record begun is found at the place handed out for it.
LEMMA StepReadBack ==
    ASSUME MetaTypeOK, OffsetsAddUp, BlocksWithin, AppendInv, StreamInv, RecordsReadBack, AppendStep
    PROVE  RecordsReadBack'
<1>1. PICK n \in Nat, data \in Seq(Bytes) : Copied(n, data)
  BY StepCopies
<1>2. records # <<>> /\ pc = "append"
  BY DEF AppendInv, AppendStep
<1>3. blocks \in Seq(MetablockType) /\ Len(blocks) \in Nat /\ opened \in Seq(Bytes) /\ Len(opened) \in Nat
  BY DEF MetaTypeOK
<1> PICK N, D : N = Len(records) /\ D = LastRecord.done
  OBVIOUS
<1>4. N \in Nat /\ D \in Nat /\ n >= 1 /\ DOMAIN records = 1 .. N
  BY <1>1, <1>2, LastRecordFacts DEF Copied, MetaTypeOK
<1>5. /\ DOMAIN records' = 1 .. N
      /\ \A j \in 1 .. N : j # N => records'[j] = records[j]
      /\ records'[N].done = D + n /\ records'[N].block = LastRecord.block
      /\ records'[N].offset = LastRecord.offset
  BY <1>1, <1>2, CopiedRecords
<1>6. ASSUME NEW i \in 1 .. N, records'[i].done > 0
      PROVE  \E k \in BlockNumbers' :
                OffsetOf(k)' = records'[i].block /\ IsByte(k, records[i].offset + 1, <<i, 1>>)'
  <2>1. CASE records[i].done > 0
    <3>1. PICK k \in BlockNumbers :
             OffsetOf(k) = records[i].block /\ IsByte(k, records[i].offset + 1, <<i, 1>>)
      BY <2>1, <1>4 DEF RecordsReadBack
    <3>2. records'[i].block = records[i].block /\ records'[i].offset = records[i].offset
      BY <1>5 DEF LastRecord
    <3>3. IsByte(k, records[i].offset + 1, <<i, 1>>)'
      <4>1. PICK m : m = records[i].offset + 1
        OBVIOUS
      <4>2. IsByte(k, m, <<i, 1>>)'
        BY <4>1, <3>1, <1>1, BytesStay
      <4>3. m = records'[i].offset + 1
        BY <4>1, <3>2
      <4>4. k \in BlockNumbers' /\ m \in 1 .. Len(Content(k)') /\ Content(k)'[m] = <<i, 1>>
        BY <4>2 DEF IsByte
      <4> QED BY <4>3, <4>4 DEF IsByte
    <3>4. OffsetOf(k)' = OffsetOf(k)
      <4>1. CASE k \in 1 .. Len(blocks)
        BY <4>1, <1>1, CopiedBlocks
      <4>2. CASE k = Len(blocks) + 1
        <5>1. Content(k) = opened /\ OffsetOf(k) = openedAt
          BY <4>2, <1>3 DEF Content, OffsetOf
        <5>2. opened # NoBytes
          BY <5>1, <3>1 DEF IsByte, NoBytes
        <5>3. OffsetOf(k)' = tsize
          BY <4>2, <1>1, CopiedBlocks
        <5> QED BY <5>1, <5>2, <5>3 DEF OffsetsAddUp
      <4> QED BY <4>1, <4>2, <1>3, SMTT(20) DEF BlockNumbers
    <3>5. k \in BlockNumbers'
      BY <3>3 DEF IsByte
    <3> QED BY <3>1, <3>2, <3>3, <3>4, <3>5
  <2>2. CASE ~(records[i].done > 0)
    <3>1. i = N
      BY <2>2, <1>5, <1>6
    <3>2. D = 0
      <4>1. D = records[i].done
        BY <3>1 DEF LastRecord
      <4> QED BY <4>1, <2>2, <1>4
    <3>3. LastRecord.block = tsize /\ LastRecord.offset = Len(opened)
      BY <1>2, <3>2 DEF AppendInv
    <3> PICK k : k = Len(blocks) + 1
      OBVIOUS
    <3>4. Content(k)' = data /\ OffsetOf(k)' = tsize
      BY <1>1, CopiedBlocks
    <3>5. k \in BlockNumbers'
      <4>1. Len(blocks') = Len(blocks) \/ Len(blocks') = Len(blocks) + 1
        BY <1>1, CopiedBlocks
      <4> QED BY <4>1, <1>3 DEF BlockNumbers
    <3>6. data[Len(opened) + 1] = <<N, D + 1>> /\ Len(data) = Len(opened) + n
      BY <1>1, <1>4, SMTT(20) DEF Copied
    <3>7. <<N, D + 1>> = <<i, 1>> /\ Len(opened) + 1 \in 1 .. Len(data)
      BY <3>1, <3>2, <3>6, <1>3, <1>4
    <3>8. records'[i].block = tsize /\ records'[i].offset = Len(opened)
      BY <3>1, <3>3, <1>5
    <3>9. k \in BlockNumbers' /\ records'[i].offset + 1 \in 1 .. Len(Content(k)')
          /\ Content(k)'[records'[i].offset + 1] = <<i, 1>>
      BY <3>4, <3>5, <3>6, <3>7, <3>8
    <3> QED BY <3>4, <3>5, <3>8, <3>9 DEF IsByte
  <2> QED BY <2>1, <2>2
<1>7. ASSUME NEW k \in BlockNumbers', NEW m \in 1 .. Len(Content(k)'), IsFollowed(Content(k)[m])'
      PROVE  NextIs(k, m, Successor(Content(k)[m]))'
  <2>1. PICK b : b = Content(k)'[m]
    OBVIOUS
  <2>2. IsFollowed(b)'
    BY <1>7, <2>1 DEF IsFollowed
  <2>3. NextIs(k, m, Successor(b))'
    BY <2>1, <2>2, StepFollows
  <2>4. Successor(Content(k)[m])' = Successor(b)'
    BY <2>1 DEF Successor
  <2> QED BY <2>3, <2>4 DEF NextIs, IsByte
<1> QED BY <1>5, <1>6, <1>7 DEF RecordsReadBack

-----------------------------------------------------------------------------
(* Steps of libsqfs_metatable_append.                                      *)

\* What is on disk does not depend on blocks added to the list.
LEMMA DiskKept ==
    ASSUME MetaInv, Len(blocks') >= Len(blocks), Len(blocks') \in Nat,
           \A k \in 1 .. Len(blocks) : blocks'[k] = blocks[k],
           UNCHANGED <<taboffset, isize, disk, stored, base>>
    PROVE  TableOnDisk' /\ DiskType' /\ stored' <= Len(blocks') /\ isize' >= ImageStart
<1>1. TableOnDisk /\ DiskType /\ stored <= Len(blocks) /\ isize >= ImageStart
  BY DEF MetaInv
<1>2. stored \in Nat /\ Len(blocks) \in Nat
  BY DEF MetaInv, MetaTypeOK
<1>3. ASSUME taboffset # -1, NEW k \in 1 .. stored
      PROVE  BlockWrites(k, base + blocks[k].offset)' \subseteq disk
  <2>1. blocks'[k] = blocks[k]
    BY <1>1, <1>2
  <2>2. BlockWrites(k, base + blocks[k].offset)' = BlockWrites(k, base + blocks[k].offset)
    BY <2>1 DEF BlockWrites, HeaderWrite, DataWrite
  <2> QED BY <1>1, <1>3, <2>2 DEF TableOnDisk
<1>4. TableOnDisk'
  BY <1>1, <1>3 DEF TableOnDisk
<1>5. DiskType'
  BY <1>1 DEF DiskType
<1> QED BY <1>1, <1>2, <1>4, <1>5

\* What append has put into the table and the places it handed out, as long as
\* neither changes.
LEMMA StreamKept ==
    ASSUME MetaInv, UNCHANGED <<blocks, opened, openedAt, tsize, records>>
    PROVE  OffsetsAddUp' /\ BlocksWithin' /\ StreamInv' /\ RecordsReadBack'
<1>1. OffsetsAddUp' /\ BlocksWithin'
  BY DEF MetaInv, OffsetsAddUp, BlocksWithin
<1>2. StreamInv'
  BY DEF MetaInv, StreamInv, BlockNumbers, Content, IsEnd, LastRecord
<1>3. RecordsReadBack'
  <2>1. BlockNumbers' = BlockNumbers
    BY DEF BlockNumbers
  <2>2. \A k : Content(k)' = Content(k) /\ OffsetOf(k)' = OffsetOf(k)
    BY DEF Content, OffsetOf
  <2>3. \A k, m, b : IsByte(k, m, b)' <=> IsByte(k, m, b)
    BY <2>1, <2>2 DEF IsByte
  <2>4. \A k, m, b : NextIs(k, m, b)' <=> NextIs(k, m, b)
    BY <2>2, <2>3 DEF NextIs
  <2>5. ASSUME NEW i \in DOMAIN records', records'[i].done > 0
        PROVE  \E k \in BlockNumbers' :
                  OffsetOf(k)' = records'[i].block /\ IsByte(k, records[i].offset + 1, <<i, 1>>)'
    <3>1. PICK k \in BlockNumbers :
             OffsetOf(k) = records[i].block /\ IsByte(k, records[i].offset + 1, <<i, 1>>)
      BY <2>5 DEF MetaInv, RecordsReadBack
    <3>2. IsByte(k, records[i].offset + 1, <<i, 1>>)'
      BY <3>1, <2>1, <2>2 DEF IsByte
    <3> QED BY <3>1, <3>2, <2>1, <2>2
  <2>6. ASSUME NEW k \in BlockNumbers', NEW m \in 1 .. Len(Content(k)'), IsFollowed(Content(k)[m])'
        PROVE  NextIs(k, m, Successor(Content(k)[m]))'
    <3>1. PICK b : b = Content(k)[m]
      OBVIOUS
    <3>2. k \in BlockNumbers /\ m \in 1 .. Len(Content(k)) /\ IsFollowed(Content(k)[m])
      BY <2>1, <2>2, <2>6 DEF IsFollowed
    <3>3. NextIs(k, m, Successor(b))
      BY <3>1, <3>2 DEF MetaInv, RecordsReadBack
    <3>4. NextIs(k, m, Successor(b))'
      BY <3>3, <2>4 DEF Successor
    <3> QED BY <3>1, <3>4, <2>2 DEF NextIs, IsByte, Successor
  <2> QED BY <2>5, <2>6 DEF RecordsReadBack
<1> QED BY <1>1, <1>2, <1>3

\* A step of the loop of append.
LEMMA NextAppendStep ==
    ASSUME MetaInv, AppendStep
    PROVE  MetaInv'
<1>1. MetaTypeOK /\ OffsetsAddUp /\ BlocksWithin /\ AppendInv /\ StreamInv /\ RecordsReadBack
      /\ IndexedInv
  BY DEF MetaInv
<1>2. PICK n \in Nat, data \in Seq(Bytes) : Copied(n, data)
  BY <1>1, StepCopies
<1>3. records # <<>> /\ pc = "append" /\ (indexed => writes = 0)
  BY <1>1 DEF AppendInv, AppendStep
<1>4. UNCHANGED <<indexed, taboffset, isize, start, woffset, todo, disk, stored, base, writes>>
  BY DEF AppendStep
<1>5. /\ blocks' \in Seq(MetablockType)
      /\ Len(blocks') = Len(blocks) \/ (Len(blocks') = Len(blocks) + 1 /\ opened' = NoBytes)
      /\ opened' \in Seq(Bytes) /\ Len(opened') < MetaSize
      /\ tsize' \in Nat
      /\ OffsetsAddUp' /\ BlocksWithin'
      /\ \A k \in 1 .. Len(blocks) : blocks'[k] = blocks[k]
  BY <1>1, <1>2, CopiedBlocks
<1>6. /\ records' \in Seq(RecordType) /\ Len(records') = Len(records)
      /\ \A j \in 1 .. Len(records) : j # Len(records) => records'[j] = records[j]
      /\ LastRecord'.done = LastRecord.done + n /\ LastRecord'.len = LastRecord.len
      /\ LastRecord' = records'[Len(records)]
  BY <1>1, <1>2, <1>3, CopiedRecords
<1>7. pc' = IF LastRecord.done + n = LastRecord.len THEN "idle" ELSE "append"
  BY <1>2 DEF Copied
<1>8. pc' \in {"idle", "append"}
  BY <1>7
<1>9. openedAt' = tsize /\ n >= 1 /\ LastRecord.done + n <= LastRecord.len
  BY <1>2 DEF Copied
<1>10. MetaTypeOK'
  BY <1>1, <1>4, <1>5, <1>6, <1>8, <1>9 DEF MetaTypeOK, RecordType
<1>11. AppendInv'
  <2>1. LastRecord.done \in Nat /\ LastRecord.len \in Nat
    BY <1>1, <1>3, LastRecordFacts
  <2>2. \A i \in 1 .. Len(records) : records'[i].done <= records'[i].len
    <3>1. \A i \in 1 .. Len(records) : records[i].done <= records[i].len
      BY <1>1, SMTT(20) DEF AppendInv, MetaTypeOK
    <3> QED BY <3>1, <1>6, <1>9
  <2>3. records' # <<>>
    BY <1>3, <1>6, <1>1 DEF MetaTypeOK
  <2>4. LastRecord'.done # 0
    BY <2>1, <1>6, <1>9
  <2>5. pc' = "append" => LastRecord'.done < LastRecord'.len
    BY <2>1, <1>6, <1>7, <1>9, SMTT(20)
  <2>6. DOMAIN records' = 1 .. Len(records) /\ Len(records') <= MaxRecords
    BY <1>1, <1>6 DEF AppendInv
  <2> QED BY <2>2, <2>3, <2>4, <2>5, <2>6, <1>3, <1>4 DEF AppendInv
<1>12. StreamInv'
  BY <1>1, StepStream
<1>13. RecordsReadBack'
  BY <1>1, StepReadBack
<1>14. Len(blocks') >= Len(blocks) /\ Len(blocks') \in Nat /\ Len(blocks) \in Nat
  BY <1>1, <1>5 DEF MetaTypeOK
<1>15. TableOnDisk' /\ DiskType' /\ stored' <= Len(blocks') /\ isize' >= ImageStart
  BY <1>4, <1>5, <1>14, DiskKept
<1>16. WriteoutInv'
  BY <1>8 DEF WriteoutInv
<1>17. IndexedInv'
  <2>1. ASSUME indexed, NEW k \in 1 .. Len(blocks') PROVE Len(blocks'[k].data) = MetaSize
    <3>1. CASE k <= Len(blocks)
      BY <2>1, <3>1, <1>1, <1>3, <1>5, <1>14 DEF IndexedInv
    <3>2. CASE Len(blocks') = Len(blocks) + 1 /\ k = Len(blocks) + 1
      BY <3>2, <1>1, <1>2, CopiedBlocks
    <3> QED BY <3>1, <3>2, <1>5, <1>14
  <2>2. writes = 0 => taboffset = -1
    BY <1>1 DEF IndexedInv
  <2> QED BY <2>1, <2>2, <1>3, <1>4, <1>8 DEF IndexedInv
<1> QED BY <1>5, <1>10, <1>11, <1>12, <1>13, <1>15, <1>16, <1>17 DEF MetaInv

\* A call of append: the place handed out is the end of the table.
LEMMA NextAppendStart ==
    ASSUME MetaInv, NEW n \in Lengths, AppendStart(n)
    PROVE  MetaInv'
<1>1. MetaTypeOK /\ OffsetsAddUp /\ BlocksWithin /\ AppendInv /\ StreamInv /\ RecordsReadBack
      /\ IndexedInv
  BY DEF MetaInv
<1>2. /\ pc = "idle" /\ pc' = "append" /\ Len(records) < MaxRecords /\ (indexed => writes = 0)
      /\ UNCHANGED <<indexed, blocks, opened, openedAt, tsize, taboffset, isize, start, woffset, todo,
                     disk, stored, base, writes>>
  BY DEF AppendStart
<1>3. PICK r : r = [block |-> tsize, offset |-> Len(opened), len |-> n, done |-> 0]
  OBVIOUS
<1>4. records' = Append(records, r)
  BY <1>3 DEF AppendStart, PlaceOfNext
<1>5. records \in Seq(RecordType) /\ Len(records) \in Nat /\ tsize \in Nat
      /\ Len(opened) \in 0 .. MetaSize - 1
  BY <1>1, MetaSizePositive DEF MetaTypeOK, RecordType
<1>6. r \in RecordType
  BY <1>3, <1>5 DEF RecordType
<1>7. r.done = 0 /\ r.block = tsize /\ r.offset = Len(opened) /\ r.len = n /\ n \in Nat /\ n >= 1
  BY <1>3, LengthsPositive
<1>8. /\ records' \in Seq(RecordType) /\ Len(records') = Len(records) + 1
      /\ DOMAIN records = 1 .. Len(records) /\ DOMAIN records' = 1 .. Len(records) + 1
  BY <1>4, <1>5, <1>6
<1>9. \A i \in 1 .. Len(records) : records'[i] = records[i]
  BY <1>4, <1>5, <1>6
<1>10. LastRecord' = r /\ records'[Len(records) + 1] = r
  BY <1>4, <1>5, <1>6 DEF LastRecord
<1>11. BlockNumbers' = BlockNumbers /\ \A k : Content(k)' = Content(k) /\ OffsetOf(k)' = OffsetOf(k)
  BY <1>2 DEF BlockNumbers, Content, OffsetOf
<1>12. MetaTypeOK'
  BY <1>1, <1>2, <1>8 DEF MetaTypeOK, RecordType
<1>13. OffsetsAddUp' /\ BlocksWithin'
  BY <1>1, <1>2 DEF OffsetsAddUp, BlocksWithin
<1>14. AppendInv'
  <2>1. Len(records') <= MaxRecords
    BY <1>2, <1>5, <1>8, MetaBounds
  <2>2. \A i \in 1 .. Len(records) + 1 : records'[i].done <= records'[i].len
    BY <1>1, <1>5, <1>7, <1>8, <1>9, <1>10 DEF AppendInv
  <2>3. records' # <<>>
    BY <1>5, <1>8
  <2> QED BY <2>1, <2>2, <2>3, <1>2, <1>7, <1>8, <1>10 DEF AppendInv
<1>15. ASSUME NEW k \in BlockNumbers, NEW m \in 1 .. Len(Content(k)), NEW b, b = Content(k)[m]
       PROVE  /\ b[1] \in 1 .. Len(records) /\ b[2] \in 1 .. records[b[1]].done
              /\ records'[b[1]] = records[b[1]]
              /\ b[1] # Len(records')
  <2>1. b[1] \in 1 .. Len(records) /\ b[2] \in 1 .. records[b[1]].done
    BY <1>1, <1>8, <1>15 DEF StreamInv
  <2> QED BY <2>1, <1>5, <1>8, <1>9
<1>16. StreamInv'
  <2> SUFFICES ASSUME NEW k \in BlockNumbers', NEW m \in 1 .. Len(Content(k)'),
                      NEW b, b = Content(k)'[m]
      PROVE  /\ b[1] \in DOMAIN records' /\ b[2] \in 1 .. records'[b[1]].done
             /\ b # <<Len(records'), LastRecord'.done>>
    BY DEF StreamInv
  <2>1. /\ b[1] \in 1 .. Len(records) /\ b[2] \in 1 .. records[b[1]].done
        /\ records'[b[1]] = records[b[1]] /\ b[1] # Len(records')
    BY <1>11, <1>15
  <2>2. PICK x, y : x = b[1] /\ y = b[2]
    OBVIOUS
  <2>3. b # <<Len(records'), LastRecord'.done>>
    BY <2>1
  <2> QED BY <2>1, <2>3, <1>5, <1>8
<1>17. RecordsReadBack'
  <2>1. \A k, m, b : IsByte(k, m, b)' <=> IsByte(k, m, b)
    BY <1>11 DEF IsByte
  <2>2. \A k, m, b : NextIs(k, m, b)' <=> NextIs(k, m, b)
    BY <2>1, <1>11 DEF NextIs
  <2>3. ASSUME NEW i \in DOMAIN records', records'[i].done > 0
        PROVE  \E k \in BlockNumbers' :
                  OffsetOf(k)' = records'[i].block /\ IsByte(k, records[i].offset + 1, <<i, 1>>)'
    <3>1. i \in 1 .. Len(records)
      BY <2>3, <1>5, <1>7, <1>8, <1>10
    <3>2. records'[i] = records[i]
      BY <3>1, <1>9
    <3>3. PICK k \in BlockNumbers :
             OffsetOf(k) = records[i].block /\ IsByte(k, records[i].offset + 1, <<i, 1>>)
      BY <3>1, <3>2, <2>3, <1>1, <1>8 DEF RecordsReadBack
    <3>4. IsByte(k, records[i].offset + 1, <<i, 1>>)'
      BY <3>2, <3>3, <1>11 DEF IsByte
    <3> QED BY <3>2, <3>3, <3>4, <1>11
  <2>4. ASSUME NEW k \in BlockNumbers', NEW m \in 1 .. Len(Content(k)'), IsFollowed(Content(k)[m])'
        PROVE  NextIs(k, m, Successor(Content(k)[m]))'
    <3>1. PICK b : b = Content(k)[m]
      OBVIOUS
    <3>2. k \in BlockNumbers /\ m \in 1 .. Len(Content(k)) /\ records'[b[1]] = records[b[1]]
      BY <3>1, <1>11, <1>15
    <3>3. IsFollowed(Content(k)[m])
      BY <3>1, <3>2, <2>4, <1>11 DEF IsFollowed
    <3>4. NextIs(k, m, Successor(b))
      BY <3>1, <3>2, <3>3, <1>1 DEF RecordsReadBack
    <3>5. NextIs(k, m, Successor(b))'
      BY <3>4, <2>2 DEF Successor
    <3> QED BY <3>1, <3>5, <1>11 DEF NextIs, IsByte, Successor
  <2> QED BY <2>3, <2>4 DEF RecordsReadBack
<1>18. TableOnDisk' /\ DiskType' /\ stored' <= Len(blocks') /\ isize' >= ImageStart
  BY <1>1, <1>2, DiskKept DEF MetaTypeOK
<1>19. WriteoutInv'
  BY <1>2 DEF WriteoutInv
<1>20. IndexedInv'
  <2>1. writes' = 0 => taboffset' = -1
    BY <1>1, <1>2 DEF IndexedInv
  <2>2. indexed' => \A k \in 1 .. Len(blocks') : Len(blocks'[k].data) = MetaSize
    BY <1>1, <1>2 DEF IndexedInv
  <2> QED BY <2>1, <2>2, <1>2 DEF IndexedInv
<1> QED BY <1>12, <1>13, <1>14, <1>16, <1>17, <1>18, <1>19, <1>20 DEF MetaInv

\* An append that gives up leaves the table as it is.
LEMMA NextAppendFail ==
    ASSUME MetaInv, AppendFail
    PROVE  MetaInv'
<1>1. /\ pc = "append" /\ pc' = "idle"
      /\ UNCHANGED <<indexed, blocks, opened, openedAt, tsize, taboffset, isize, records,
                     start, woffset, todo, disk, stored, base, writes>>
  BY DEF AppendFail
<1>2. MetaTypeOK /\ AppendInv /\ IndexedInv
  BY DEF MetaInv
<1>3. MetaTypeOK'
  BY <1>1, <1>2 DEF MetaTypeOK
<1>4. OffsetsAddUp' /\ BlocksWithin' /\ StreamInv' /\ RecordsReadBack'
  BY <1>1, StreamKept
<1>5. TableOnDisk' /\ DiskType' /\ stored' <= Len(blocks') /\ isize' >= ImageStart
  BY <1>1, <1>2, DiskKept DEF MetaTypeOK
<1>6. AppendInv' /\ WriteoutInv'
  BY <1>1, <1>2 DEF AppendInv, WriteoutInv
<1>7. IndexedInv'
  BY <1>1, <1>2 DEF IndexedInv, IndexOnDisk, IndexTable
<1> QED BY <1>3, <1>4, <1>5, <1>6, <1>7 DEF MetaInv

-----------------------------------------------------------------------------
(* Steps of libsqfs_metatable_write.                                       *)

\* Completing the opened block moves none of its bytes.
LEMMA FlushKeepsStream ==
    ASSUME MetaInv, opened # NoBytes, NEW c \in CompressResults, Flush(openedAt, opened, c),
           UNCHANGED <<openedAt, records>>
    PROVE  /\ StreamInv' /\ RecordsReadBack' /\ OffsetsAddUp' /\ BlocksWithin'
           /\ blocks' \in Seq(MetablockType) /\ Len(blocks') = Len(blocks) + 1
           /\ \A k \in 1 .. Len(blocks) : blocks'[k] = blocks[k]
           /\ tsize' \in Nat /\ opened' = NoBytes
<1>1. MetaTypeOK /\ OffsetsAddUp /\ BlocksWithin /\ StreamInv /\ RecordsReadBack
  BY DEF MetaInv
<1>2. opened \in Seq(Bytes) /\ Len(opened) < MetaSize /\ Len(blocks) \in Nat /\ openedAt = tsize
  BY <1>1 DEF MetaTypeOK, OffsetsAddUp
<1>3. Len(opened) >= 1 /\ Len(opened) <= MetaSize
  BY <1>2, MetaSizePositive DEF NoBytes
<1>4. /\ blocks' \in Seq(MetablockType) /\ Len(blocks') = Len(blocks) + 1
      /\ \A k \in 1 .. Len(blocks) : blocks'[k] = blocks[k]
      /\ blocks'[Len(blocks) + 1].data = opened
      /\ blocks'[Len(blocks) + 1].offset = tsize
      /\ tsize' \in Nat /\ opened' = NoBytes
      /\ OffsetsAddUp' /\ BlocksWithin'
  BY <1>1, <1>2, <1>3, FlushFacts
<1>5. \A k \in BlockNumbers : k \in BlockNumbers' /\ k # Len(blocks') + 1
  BY <1>2, <1>4 DEF BlockNumbers
<1>6. ASSUME NEW k \in BlockNumbers PROVE Content(k)' = Content(k) /\ OffsetOf(k)' = OffsetOf(k)
  <2>1. k \in 1 .. Len(blocks) + 1 /\ k <= Len(blocks')
    BY <1>2, <1>4 DEF BlockNumbers
  <2>2. CASE k \in 1 .. Len(blocks)
    <3>1. k <= Len(blocks) /\ blocks'[k] = blocks[k]
      BY <2>2, <1>2, <1>4
    <3> QED BY <3>1, <2>1 DEF Content, OffsetOf
  <2>3. CASE k = Len(blocks) + 1
    <3>1. ~(k <= Len(blocks))
      BY <2>3, <1>2
    <3> QED BY <3>1, <2>1, <2>3, <1>2, <1>4 DEF Content, OffsetOf
  <2> QED BY <2>1, <2>2, <2>3, <1>2
<1>7. ASSUME NEW k \in BlockNumbers', NEW m \in 1 .. Len(Content(k)') PROVE k \in BlockNumbers
  <2>1. CASE k = Len(blocks') + 1
    <3>1. ~(k <= Len(blocks'))
      BY <2>1, <1>2, <1>4
    <3>2. Content(k)' = <<>>
      BY <3>1, <1>4 DEF Content, NoBytes
    <3> QED BY <3>2
  <2>2. CASE k # Len(blocks') + 1
    BY <2>2, <1>2, <1>4 DEF BlockNumbers
  <2> QED BY <2>1, <2>2
<1>8. StreamInv'
  <2> SUFFICES ASSUME NEW k \in BlockNumbers', NEW m \in 1 .. Len(Content(k)'),
                      NEW b, b = Content(k)'[m]
      PROVE  /\ b[1] \in DOMAIN records' /\ b[2] \in 1 .. records'[b[1]].done
             /\ b = <<Len(records'), LastRecord'.done>> => IsEnd(k, m)'
    BY DEF StreamInv
  <2>1. k \in BlockNumbers /\ m \in 1 .. Len(Content(k)) /\ b = Content(k)[m]
    BY <1>6, <1>7
  <2>2. /\ b[1] \in DOMAIN records /\ b[2] \in 1 .. records[b[1]].done
        /\ b = <<Len(records), LastRecord.done>> => IsEnd(k, m)
    BY <2>1, <1>1 DEF StreamInv
  <2>3. ASSUME IsEnd(k, m) PROVE IsEnd(k, m)'
    <3>1. m = Len(Content(k)) /\ k = Len(blocks) + 1
      BY <2>3 DEF IsEnd
    <3> QED BY <3>1, <2>1, <1>4, <1>6 DEF IsEnd
  <2>4. LastRecord' = LastRecord
    BY DEF LastRecord
  <2> QED BY <2>2, <2>3, <2>4
<1>9. ASSUME NEW k, NEW m, NEW b, IsByte(k, m, b) PROVE IsByte(k, m, b)'
  BY <1>5, <1>6, <1>9 DEF IsByte
<1>10. RecordsReadBack'
  <2>1. ASSUME NEW i \in DOMAIN records', records'[i].done > 0
        PROVE  \E k \in BlockNumbers' :
                  OffsetOf(k)' = records'[i].block /\ IsByte(k, records[i].offset + 1, <<i, 1>>)'
    <3>1. PICK k \in BlockNumbers :
             OffsetOf(k) = records[i].block /\ IsByte(k, records[i].offset + 1, <<i, 1>>)
      BY <2>1, <1>1 DEF RecordsReadBack
    <3>2. IsByte(k, records[i].offset + 1, <<i, 1>>)'
      BY <3>1, <1>5, <1>6 DEF IsByte
    <3> QED BY <3>1, <3>2, <1>5, <1>6
  <2>2. ASSUME NEW k \in BlockNumbers', NEW m \in 1 .. Len(Content(k)'), IsFollowed(Content(k)[m])'
        PROVE  NextIs(k, m, Successor(Content(k)[m]))'
    <3>1. k \in BlockNumbers /\ Content(k)' = Content(k)
      BY <1>6, <1>7
    <3>2. PICK b : b = Content(k)[m]
      OBVIOUS
    <3>3. IsFollowed(Content(k)[m])
      BY <3>1, <2>2 DEF IsFollowed
    <3>4. NextIs(k, m, Successor(b))
      BY <3>1, <3>2, <3>3, <1>1 DEF RecordsReadBack
    <3>5. NextIs(k, m, Successor(b))'
      BY <3>1, <3>4, <1>9 DEF NextIs, Successor
    <3> QED BY <3>1, <3>2, <3>5 DEF NextIs, IsByte, Successor
  <2> QED BY <2>1, <2>2 DEF RecordsReadBack
<1> QED BY <1>4, <1>8, <1>10

\* The start of a write: the opened block is listed, the area lies behind everything
\* that is on disk.
LEMMA NextWriteStart ==
    ASSUME MetaInv, WriteStart
    PROVE  MetaInv'
<1>1. MetaTypeOK /\ AppendInv /\ IndexedInv /\ TableOnDisk /\ DiskType /\ stored <= Len(blocks)
      /\ isize >= ImageStart
  BY DEF MetaInv
<1>2. /\ pc = "idle" /\ pc' = "write" /\ writes < MaxWrites /\ (indexed => writes = 0)
      /\ writes' = writes + 1 /\ start' = isize /\ woffset' = isize /\ isize' = isize + tsize'
      /\ todo' = [k \in 1 .. Len(blocks') |-> k]
      /\ UNCHANGED <<indexed, openedAt, taboffset, records, disk, stored, base>>
  BY DEF WriteStart
<1>3. /\ StreamInv' /\ RecordsReadBack' /\ OffsetsAddUp' /\ BlocksWithin'
      /\ blocks' \in Seq(MetablockType)
      /\ Len(blocks') = Len(blocks) \/ Len(blocks') = Len(blocks) + 1
      /\ \A k \in 1 .. Len(blocks) : blocks'[k] = blocks[k]
      /\ tsize' \in Nat /\ opened' = NoBytes
  <2>1. CASE opened = NoBytes
    <3>1. UNCHANGED <<blocks, tsize, opened>>
      BY <2>1 DEF WriteStart
    <3> QED BY <2>1, <3>1, <1>1, <1>2, StreamKept DEF MetaTypeOK
  <2>2. CASE opened # NoBytes
    <3>1. PICK c \in CompressResults : Flush(openedAt, opened, c)
      BY <2>2 DEF WriteStart
    <3> QED BY <2>2, <3>1, <1>2, FlushKeepsStream
  <2> QED BY <2>1, <2>2
<1>4. Len(blocks) \in Nat /\ Len(blocks') \in Nat /\ Len(blocks') >= Len(blocks) /\ isize \in Nat
      /\ writes \in Nat /\ stored \in Nat
  BY <1>1, <1>3 DEF MetaTypeOK
<1>5. todo' \in Seq(Nat) /\ Len(todo') = Len(blocks') /\ \A j \in 1 .. Len(blocks') : todo'[j] = j
  BY <1>2, <1>4
<1>6. MetaTypeOK'
  <2>1. opened' \in Seq(Bytes) /\ Len(opened') < MetaSize
    BY <1>3, MetaSizePositive DEF NoBytes
  <2>2. writes' \in 0 .. MaxWrites /\ isize' \in Nat
    BY <1>2, <1>3, <1>4, MetaBounds
  <2> QED BY <2>1, <2>2, <1>1, <1>2, <1>3, <1>4, <1>5 DEF MetaTypeOK
<1>7. AppendInv'
  BY <1>1, <1>2 DEF AppendInv
<1>8. isize' >= isize /\ isize' \in Nat
  BY <1>2, <1>3, <1>4
<1>9. DiskType'
  BY <1>1, <1>2 DEF DiskType
<1>10. TableOnDisk'
  <2>1. ASSUME taboffset # -1, NEW k \in 1 .. stored
        PROVE  BlockWrites(k, base + blocks[k].offset)' \subseteq disk
    <3>1. blocks'[k] = blocks[k]
      BY <1>1, <1>3, <1>4
    <3>2. BlockWrites(k, base + blocks[k].offset)' = BlockWrites(k, base + blocks[k].offset)
      BY <3>1, <1>2 DEF BlockWrites, HeaderWrite, DataWrite
    <3> QED BY <2>1, <3>2, <1>1 DEF TableOnDisk
  <2>2. ASSUME NEW w \in disk PROVE w.at >= ImageStart /\ w.at + w.len <= isize'
    <3>1. w.at >= ImageStart /\ w.at + w.len <= isize /\ w.at \in Nat /\ w.len \in Nat
      BY <1>1 DEF TableOnDisk, DiskType
    <3> QED BY <3>1, <1>4, <1>8
  <2>3. \A v, w \in disk : v # w => v.at + v.len <= w.at \/ w.at + w.len <= v.at
    BY <1>1 DEF TableOnDisk
  <2> QED BY <2>1, <2>2, <2>3, <1>2 DEF TableOnDisk
<1>11. WriteoutInv'
  <2>1. WrittenBlocks' = 0
    BY <1>4, <1>5 DEF WrittenBlocks
  <2>2. (IF todo' = <<>> THEN tsize' ELSE blocks'[1].offset) = 0
    <3>1. CASE blocks' = <<>>
      <4>1. todo' = <<>> /\ tsize' = 0
        BY <3>1, <1>2, <1>3 DEF OffsetsAddUp
      <4> QED BY <4>1
    <3>2. CASE blocks' # <<>>
      <4>1. 1 \in 1 .. Len(blocks') /\ todo' # <<>>
        BY <3>2, <1>3, <1>5
      <4>2. blocks'[1].offset = 0
        BY <4>1, <1>3 DEF OffsetsAddUp
      <4> QED BY <4>1, <4>2
    <3> QED BY <3>1, <3>2
  <2>3. \A j \in DOMAIN todo' : todo'[j] = WrittenBlocks' + j
    BY <2>1, <1>5
  <2>4. woffset' = start' + (IF todo' = <<>> THEN tsize' ELSE blocks'[WrittenBlocks' + 1].offset)
    BY <2>1, <2>2, <1>2, <1>4
  <2>5. \A w \in disk' : w.at + w.len <= woffset'
    BY <1>1, <1>2 DEF TableOnDisk
  <2>6. \A k \in 1 .. WrittenBlocks' : BlockWrites(k, start + blocks[k].offset)' \subseteq disk'
    BY <2>1
  <2> QED BY <2>1, <2>3, <2>4, <2>5, <2>6, <1>1, <1>2 DEF WriteoutInv
<1>12. IndexedInv'
  <2>1. writes' # 0
    BY <1>2, <1>4
  <2>2. indexed => taboffset = -1 /\ \A k \in 1 .. Len(blocks) : Len(blocks[k].data) = MetaSize
    BY <1>1, <1>2 DEF IndexedInv
  <2>3. ASSUME indexed, NEW k \in 1 .. Len(blocks'), k < Len(blocks')
        PROVE  Len(blocks'[k].data) = MetaSize
    <3>1. k \in 1 .. Len(blocks)
      BY <2>3, <1>3, <1>4
    <3> QED BY <3>1, <2>2, <2>3, <1>3
  <2> QED BY <2>1, <2>2, <2>3, <1>2 DEF IndexedInv
<1>13. stored' <= Len(blocks') /\ isize' >= ImageStart
  BY <1>1, <1>2, <1>4, <1>8, MetaBounds
<1> QED BY <1>3, <1>6, <1>7, <1>9, <1>10, <1>11, <1>12, <1>13 DEF MetaInv

\* Writes that do not overlap, and writes that end before a position.
Apart(S) == \A v, w \in S : v # w => v.at + v.len <= w.at \/ w.at + w.len <= v.at
EndBy(S, p) ==
    \A w \in S : w.at \in Nat /\ w.len \in Nat /\ w.at >= ImageStart /\ w.at + w.len <= p

\* A write behind all the others overlaps none of them.
LEMMA AddWrite ==
    ASSUME NEW S, NEW p \in Nat, NEW x, Apart(S), EndBy(S, p), p >= ImageStart,
           x.at = p, x.len \in Nat
    PROVE  Apart(S \cup {x}) /\ EndBy(S \cup {x}, p + x.len)
<1>1. PICK l \in Nat : l = x.len
  OBVIOUS
<1>2. ASSUME NEW w \in S \cup {x}
      PROVE  w.at \in Nat /\ w.len \in Nat /\ w.at >= ImageStart /\ w.at + w.len <= p + l
  <2>1. CASE w \in S
    <3>1. w.at \in Nat /\ w.len \in Nat /\ w.at >= ImageStart /\ w.at + w.len <= p
      BY <2>1 DEF EndBy
    <3>2. PICK a \in Nat, b \in Nat : a = w.at /\ b = w.len
      BY <3>1
    <3>3. a + b <= p
      BY <3>1, <3>2
    <3>4. a + b <= p + l
      BY <3>3
    <3> QED BY <3>1, <3>2, <3>4
  <2>2. CASE w = x
    BY <2>2, <1>1
  <2> QED BY <2>1, <2>2
<1>3. ASSUME NEW v \in S \cup {x}, NEW w \in S \cup {x}, v # w
      PROVE  v.at + v.len <= w.at \/ w.at + w.len <= v.at
  <2>1. CASE v \in S /\ w \in S
    BY <2>1, <1>3 DEF Apart
  <2>2. CASE v \in S /\ w = x
    BY <2>2 DEF EndBy
  <2>3. CASE v = x /\ w \in S
    BY <2>3 DEF EndBy
  <2> QED BY <2>1, <2>2, <2>3, <1>3
<1>4. EndBy(S \cup {x}, p + x.len)
  BY <1>1, <1>2 DEF EndBy
<1>5. Apart(S \cup {x})
  BY <1>3 DEF Apart
<1> QED BY <1>4, <1>5

\* What has been written, in these words.
LEMMA DiskFacts ==
    ASSUME MetaInv
    PROVE  Apart(disk) /\ EndBy(disk, isize) /\ (pc = "write" => EndBy(disk, woffset))
<1>1. Apart(disk) /\ EndBy(disk, isize)
  BY DEF MetaInv, TableOnDisk, DiskType, Apart, EndBy
<1>2. pc = "write" => EndBy(disk, woffset)
  BY DEF MetaInv, TableOnDisk, DiskType, WriteoutInv, EndBy
<1> QED BY <1>1, <1>2

\* Where a running write is: at the place of the block it writes next.
LEMMA WritePosition ==
    ASSUME MetaInv, pc = "write", todo # <<>>
    PROVE  \E n \in Nat, size \in Nat, off \in Nat :
              /\ n = WrittenBlocks /\ Head(todo) = n + 1 /\ n + 1 \in 1 .. Len(blocks)
              /\ size = blocks[n + 1].size /\ off = blocks[n + 1].offset
              /\ woffset = start + off /\ off + 2 + size <= tsize /\ isize = start + tsize
              /\ start >= ImageStart
              /\ Len(Tail(todo)) = Len(blocks) - (n + 1) /\ Len(todo) = Len(blocks) - n
              /\ \A j \in 1 .. Len(Tail(todo)) : Tail(todo)[j] = n + 1 + j
<1>1. MetaTypeOK /\ BlocksWithin /\ WriteoutInv
  BY DEF MetaInv
<1>2. todo \in Seq(Nat) /\ Len(todo) \in Nat /\ Len(todo) >= 1 /\ Len(blocks) \in Nat
  BY <1>1 DEF MetaTypeOK
<1>3. /\ WrittenBlocks = Len(blocks) - Len(todo) /\ WrittenBlocks >= 0
      /\ \A j \in 1 .. Len(todo) : todo[j] = WrittenBlocks + j
      /\ woffset = start + blocks[WrittenBlocks + 1].offset
      /\ isize = start + tsize /\ start >= ImageStart
  BY <1>1, <1>2 DEF WriteoutInv, WrittenBlocks
<1>4. PICK n \in Nat : n = WrittenBlocks
  <2>1. WrittenBlocks \in Int
    BY <1>2 DEF WrittenBlocks
  <2> QED BY <2>1, <1>3, SMTT(20)
<1>5. n + 1 \in 1 .. Len(blocks) /\ Len(todo) = Len(blocks) - n
  BY <1>2, <1>3, <1>4
<1>6. blocks[n + 1] \in MetablockType
  BY <1>1, <1>5 DEF MetaTypeOK
<1>7. PICK size \in Nat, off \in Nat : size = blocks[n + 1].size /\ off = blocks[n + 1].offset
  BY <1>6, MetaSizePositive DEF MetablockType
<1>8. off + 2 + size <= tsize
  BY <1>1, <1>5, <1>7 DEF BlocksWithin
<1>9. Head(todo) = n + 1
  BY <1>2, <1>3, <1>4
<1>10. Len(Tail(todo)) = Len(blocks) - (n + 1)
  BY <1>2, <1>3, <1>4
<1>11. \A j \in 1 .. Len(Tail(todo)) : Tail(todo)[j] = n + 1 + j
  <2> SUFFICES ASSUME NEW j \in 1 .. Len(Tail(todo)) PROVE Tail(todo)[j] = n + 1 + j
    OBVIOUS
  <2>1. j + 1 \in 1 .. Len(todo) /\ Tail(todo)[j] = todo[j + 1]
    BY <1>2
  <2>2. todo[j + 1] = n + (j + 1)
    BY <2>1, <1>3, <1>4
  <2> QED BY <2>1, <2>2
<1>12. woffset = start + off
  BY <1>3, <1>4, <1>7
<1> QED BY <1>3, <1>4, <1>5, <1>7, <1>8, <1>9, <1>10, <1>11, <1>12

\* A block is written: behind everything, at the place its offset says.
LEMMA NextWriteBlock ==
    ASSUME MetaInv, WriteBlock
    PROVE  MetaInv'
<1>1. MetaTypeOK /\ AppendInv /\ IndexedInv /\ TableOnDisk /\ DiskType /\ WriteoutInv /\ OffsetsAddUp
      /\ stored <= Len(blocks) /\ isize >= ImageStart
  BY DEF MetaInv
<1>2. /\ pc = "write" /\ todo # <<>> /\ todo' = Tail(todo)
      /\ disk' = disk \cup BlockWrites(Head(todo), woffset)
      /\ woffset' = woffset + blocks[Head(todo)].size + 2
      /\ UNCHANGED <<indexed, blocks, opened, openedAt, tsize, taboffset, isize, pc, records,
                     start, stored, base, writes>>
  BY DEF WriteBlock
<1>3. PICK n \in Nat, size \in Nat, off \in Nat :
              /\ n = WrittenBlocks /\ Head(todo) = n + 1 /\ n + 1 \in 1 .. Len(blocks)
              /\ size = blocks[n + 1].size /\ off = blocks[n + 1].offset
              /\ woffset = start + off /\ off + 2 + size <= tsize /\ isize = start + tsize
              /\ start >= ImageStart
              /\ Len(Tail(todo)) = Len(blocks) - (n + 1) /\ Len(todo) = Len(blocks) - n
              /\ \A j \in 1 .. Len(Tail(todo)) : Tail(todo)[j] = n + 1 + j
  BY <1>2, WritePosition
<1>4. start \in Nat /\ tsize \in Nat /\ woffset \in Nat /\ isize \in Nat /\ Len(blocks) \in Nat
      /\ todo \in Seq(Nat)
  BY <1>1 DEF MetaTypeOK
<1>5. PICK h, d : h = HeaderWrite(n + 1, woffset) /\ d = DataWrite(n + 1, woffset)
  OBVIOUS
<1>6. disk' = (disk \cup {h}) \cup {d}
  BY <1>2, <1>3, <1>5 DEF BlockWrites
<1>7. h.at = woffset /\ h.len = 2 /\ d.at = woffset + 2 /\ d.len = size
  BY <1>3, <1>5 DEF HeaderWrite, DataWrite
<1>8. woffset' = woffset + 2 + size /\ woffset >= ImageStart /\ woffset + 2 >= ImageStart
      /\ woffset' <= isize /\ woffset' \in Nat
  <2>1. woffset' = woffset + size + 2
    BY <1>2, <1>3
  <2>2. woffset = start + off /\ off + 2 + size <= tsize /\ isize = start + tsize /\ start >= ImageStart
    BY <1>3
  <2>3. ImageStart \in Nat
    BY MetaBounds
  <2> QED BY <2>1, <2>2, <2>3, <1>4
<1>9. Apart(disk') /\ EndBy(disk', woffset')
  <2>1. Apart(disk \cup {h}) /\ EndBy(disk \cup {h}, woffset + 2)
    <3>1. Apart(disk) /\ EndBy(disk, woffset) /\ h.len \in Nat /\ woffset \in Nat
          /\ woffset >= ImageStart /\ h.at = woffset
      BY <1>2, <1>4, <1>7, <1>8, DiskFacts
    <3>2. Apart(disk \cup {h}) /\ EndBy(disk \cup {h}, woffset + h.len)
      BY <3>1, AddWrite
    <3> QED BY <3>2, <1>7
  <2>2. woffset + 2 \in Nat
    BY <1>4
  <2>3. Apart((disk \cup {h}) \cup {d}) /\ EndBy((disk \cup {h}) \cup {d}, woffset + 2 + size)
    BY <2>1, <2>2, <1>7, <1>8, AddWrite
  <2> QED BY <2>3, <1>6, <1>8
<1>10. DiskType' /\ \A w \in disk' : w.at >= ImageStart /\ w.at + w.len <= isize'
  <2> SUFFICES ASSUME NEW w \in disk'
      PROVE w.at \in Nat /\ w.len \in Nat /\ w.at >= ImageStart /\ w.at + w.len <= isize
    BY <1>2 DEF DiskType
  <2>1. w.at \in Nat /\ w.len \in Nat /\ w.at >= ImageStart /\ w.at + w.len <= woffset'
    BY <1>9 DEF EndBy
  <2>2. PICK e \in Nat : e = w.at + w.len
    BY <2>1
  <2>3. e <= isize
    BY <2>1, <2>2, <1>4, <1>8
  <2> QED BY <2>1, <2>2, <2>3
<1>11. ASSUME NEW k PROVE \A at : BlockWrites(k, at)' = BlockWrites(k, at)
  BY <1>2 DEF BlockWrites, HeaderWrite, DataWrite
<1>12. TableOnDisk'
  <2>1. ASSUME taboffset' # -1, NEW k \in 1 .. stored'
        PROVE  BlockWrites(k, base + blocks[k].offset)' \subseteq disk'
    <3>1. BlockWrites(k, base + blocks[k].offset) \subseteq disk
      BY <2>1, <1>1, <1>2 DEF TableOnDisk
    <3>2. BlockWrites(k, base + blocks[k].offset)' = BlockWrites(k, base + blocks[k].offset)
      BY <1>2 DEF BlockWrites, HeaderWrite, DataWrite
    <3> QED BY <3>1, <3>2, <1>6
  <2> QED BY <2>1, <1>9, <1>10 DEF TableOnDisk, Apart
<1>13. WriteoutInv'
  <2>1. WrittenBlocks' = n + 1
    BY <1>2, <1>3, <1>4 DEF WrittenBlocks
  <2>2. \A j \in DOMAIN todo' : todo'[j] = WrittenBlocks' + j
    <3>1. DOMAIN todo' = 1 .. Len(Tail(todo))
      BY <1>2, <1>4
    <3> QED BY <2>1, <3>1, <1>2, <1>3
  <2>3. woffset' = start' + (IF todo' = <<>> THEN tsize' ELSE blocks'[n + 2].offset)
    <3>1. todo' \in Seq(Nat) /\ Len(todo') = Len(blocks) - (n + 1)
      BY <1>2, <1>3, <1>4
    <3>2. CASE todo' = <<>>
      <4>1. n + 1 = Len(blocks) /\ blocks # <<>>
        BY <3>1, <3>2, <1>3, <1>4
      <4>2. tsize = off + 2 + size
        BY <4>1, <1>1, <1>3 DEF OffsetsAddUp
      <4>3. woffset = start + off /\ woffset' = woffset + 2 + size
        BY <1>3, <1>8
      <4>4. woffset' = start + tsize
        BY <4>2, <4>3, <1>4
      <4> QED BY <3>2, <4>4, <1>2
    <3>3. CASE todo' # <<>>
      <4>1. n + 2 \in 1 .. Len(blocks) /\ n + 2 # 1 /\ n + 2 - 1 = n + 1
        BY <3>1, <3>3, <1>3, <1>4
      <4>2. blocks[n + 2].offset = blocks[n + 2 - 1].offset + 2 + blocks[n + 2 - 1].size
        BY <4>1, <1>1 DEF OffsetsAddUp
      <4>3. blocks[n + 2].offset = off + 2 + size
        BY <4>1, <4>2, <1>3
      <4>4. woffset = start + off /\ woffset' = woffset + 2 + size
        BY <1>3, <1>8
      <4>5. woffset' = start + blocks[n + 2].offset
        BY <4>3, <4>4, <1>4
      <4> QED BY <3>3, <4>5, <1>2
    <3> QED BY <3>2, <3>3
  <2>4. ASSUME NEW k \in 1 .. n + 1 PROVE BlockWrites(k, start + blocks[k].offset)' \subseteq disk'
    <3>1. BlockWrites(k, start + blocks[k].offset)' = BlockWrites(k, start + blocks[k].offset)
      BY <1>2 DEF BlockWrites, HeaderWrite, DataWrite
    <3>2. CASE k \in 1 .. n
      <4>1. BlockWrites(k, start + blocks[k].offset) \subseteq disk
        BY <3>2, <1>1, <1>2, <1>3 DEF WriteoutInv
      <4> QED BY <3>1, <4>1, <1>6
    <3>3. CASE k = n + 1
      BY <3>1, <3>3, <1>2, <1>3
    <3> QED BY <3>2, <3>3
  <2>5. \A w \in disk' : w.at + w.len <= woffset'
    BY <1>9 DEF EndBy
  <2>6. WrittenBlocks' >= 0 /\ WrittenBlocks' + 1 = n + 2
    BY <2>1
  <2> QED BY <2>1, <2>2, <2>3, <2>4, <2>5, <2>6, <1>2, <1>3 DEF WriteoutInv
<1>14. IndexedInv'
  BY <1>1, <1>2 DEF IndexedInv, IndexOnDisk, IndexTable
<1>15. MetaTypeOK'
  <2>1. todo' \in Seq(Nat)
    BY <1>2, <1>4
  <2> QED BY <2>1, <1>1, <1>2, <1>8 DEF MetaTypeOK
<1>16. AppendInv'
  BY <1>1, <1>2 DEF AppendInv
<1>17. OffsetsAddUp' /\ BlocksWithin' /\ StreamInv' /\ RecordsReadBack'
  BY <1>2, StreamKept
<1>18. stored' <= Len(blocks') /\ isize' >= ImageStart
  BY <1>1, <1>2
<1> QED BY <1>10, <1>12, <1>13, <1>14, <1>15, <1>16, <1>17, <1>18 DEF MetaInv

\* The end of a write: all blocks of the table are where tab->offset now says.
LEMMA NextWriteEnd ==
    ASSUME MetaInv, WriteEnd
    PROVE  MetaInv'
<1>1. MetaTypeOK /\ AppendInv /\ IndexedInv /\ TableOnDisk /\ DiskType /\ WriteoutInv
      /\ isize >= ImageStart
  BY DEF MetaInv
<1>2. /\ pc = "write" /\ todo = <<>> /\ taboffset' = start /\ stored' = Len(blocks) /\ base' = start
      /\ pc' = IF indexed THEN "index" ELSE "idle"
      /\ UNCHANGED <<indexed, blocks, opened, openedAt, tsize, isize, records, start, woffset,
                     todo, disk, writes>>
  BY DEF WriteEnd
<1>3. Len(blocks) \in Nat /\ start \in Nat /\ WrittenBlocks = Len(blocks)
  BY <1>1, <1>2 DEF MetaTypeOK, WrittenBlocks
<1>4. pc' \in {"idle", "index"} /\ (pc' = "index" <=> indexed)
  BY <1>2
<1>5. MetaTypeOK'
  BY <1>1, <1>2, <1>3, <1>4 DEF MetaTypeOK
<1>6. TableOnDisk'
  <2>1. ASSUME NEW k \in 1 .. stored'
        PROVE  BlockWrites(k, base + blocks[k].offset)' \subseteq disk'
    <3>1. BlockWrites(k, start + blocks[k].offset) \subseteq disk
      BY <1>1, <1>2, <1>3 DEF WriteoutInv
    <3>2. BlockWrites(k, base + blocks[k].offset)' = BlockWrites(k, start + blocks[k].offset)
      BY <1>2 DEF BlockWrites, HeaderWrite, DataWrite
    <3> QED BY <3>1, <3>2, <1>2
  <2> QED BY <2>1, <1>1, <1>2 DEF TableOnDisk
<1>7. DiskType' /\ AppendInv' /\ WriteoutInv'
  BY <1>1, <1>2, <1>4 DEF DiskType, AppendInv, WriteoutInv
<1>8. IndexedInv'
  <2>1. writes # 0
    BY <1>1, <1>2 DEF IndexedInv
  <2>2. indexed => \A k \in 1 .. Len(blocks) : k < Len(blocks) => Len(blocks[k].data) = MetaSize
    BY <1>1 DEF IndexedInv
  <2> QED BY <2>1, <2>2, <1>2, <1>4 DEF IndexedInv
<1>9. OffsetsAddUp' /\ BlocksWithin' /\ StreamInv' /\ RecordsReadBack'
  BY <1>2, StreamKept
<1>10. stored' <= Len(blocks') /\ isize' >= ImageStart
  BY <1>1, <1>2, <1>3
<1> QED BY <1>5, <1>6, <1>7, <1>8, <1>9, <1>10 DEF MetaInv

\* Blocks on disk stay where they are when a write is added to the others.
LEMMA BlocksStayOnDisk ==
    ASSUME TableOnDisk, disk \subseteq disk', UNCHANGED <<blocks, stored, base>>,
           taboffset' # -1 => taboffset # -1
    PROVE  taboffset' # -1 =>
               \A k \in 1 .. stored' : BlockWrites(k, base + blocks[k].offset)' \subseteq disk'
<1> SUFFICES ASSUME taboffset # -1, NEW k \in 1 .. stored
    PROVE  BlockWrites(k, base + blocks[k].offset)' \subseteq disk'
  OBVIOUS
<1>1. BlockWrites(k, base + blocks[k].offset) \subseteq disk
  BY DEF TableOnDisk
<1>2. BlockWrites(k, base + blocks[k].offset)' = BlockWrites(k, base + blocks[k].offset)
  BY DEF BlockWrites, HeaderWrite, DataWrite
<1> QED BY <1>1, <1>2

\* The index is written behind the table.
LEMMA NextWriteIndex ==
    ASSUME MetaInv, WriteIndex
    PROVE  MetaInv'
<1>1. MetaTypeOK /\ AppendInv /\ IndexedInv /\ TableOnDisk /\ DiskType
      /\ stored <= Len(blocks) /\ isize >= ImageStart
  BY DEF MetaInv
<1>2. PICK len, w : len = 8 * Len(blocks)
                    /\ w = [at |-> isize, len |-> len, what |-> <<"index", IndexTable>>]
  OBVIOUS
<1>3. /\ pc = "index" /\ isize' = isize + len /\ disk' = disk \cup {w} /\ taboffset' = isize
      /\ pc' = "idle"
      /\ UNCHANGED <<indexed, blocks, opened, openedAt, tsize, records, start, woffset, todo, stored,
                     base, writes>>
  BY <1>2 DEF WriteIndex
<1>4. isize \in Nat /\ len \in Nat /\ base \in Nat
  BY <1>1, <1>2 DEF MetaTypeOK
<1>5. w.at = isize /\ w.len = len /\ w.what = <<"index", IndexTable>>
  BY <1>2
<1>6. Apart(disk') /\ EndBy(disk', isize')
  <2>1. Apart(disk \cup {w}) /\ EndBy(disk \cup {w}, isize + w.len)
    BY <1>1, <1>4, <1>5, DiskFacts, AddWrite
  <2> QED BY <2>1, <1>3, <1>5
<1>7. taboffset # -1
  BY <1>1, <1>3, <1>4 DEF IndexedInv
<1>8. TableOnDisk' /\ DiskType'
  <2>1. taboffset' # -1 =>
           \A k \in 1 .. stored' : BlockWrites(k, base + blocks[k].offset)' \subseteq disk'
    BY <1>1, <1>3, <1>7, BlocksStayOnDisk
  <2> QED BY <2>1, <1>6 DEF TableOnDisk, DiskType, Apart, EndBy
<1>9. IndexedInv'
  <2>1. indexed /\ stored = Len(blocks) /\ writes # 0
        /\ \A k \in 1 .. Len(blocks) : k < Len(blocks) => Len(blocks[k].data) = MetaSize
    BY <1>1, <1>3 DEF IndexedInv
  <2>2. IndexTable' = IndexTable
    BY <1>3 DEF IndexTable
  <2>3. IndexOnDisk'
    BY <2>2, <1>3, <1>5 DEF IndexOnDisk
  <2> QED BY <2>1, <2>3, <1>3 DEF IndexedInv
<1>10. MetaTypeOK'
  BY <1>1, <1>3, <1>4 DEF MetaTypeOK
<1>11. AppendInv' /\ WriteoutInv'
  BY <1>1, <1>3 DEF AppendInv, WriteoutInv
<1>12. OffsetsAddUp' /\ BlocksWithin' /\ StreamInv' /\ RecordsReadBack'
  BY <1>3, StreamKept
<1>13. stored' <= Len(blocks') /\ isize' >= ImageStart
  BY <1>1, <1>3, <1>4, MetaBounds
<1> QED BY <1>8, <1>9, <1>10, <1>11, <1>12, <1>13 DEF MetaInv

\* A failing write leaves the table that is on disk alone.
LEMMA NextWriteFail ==
    ASSUME MetaInv, WriteFail
    PROVE  MetaInv'
<1>1. MetaTypeOK /\ AppendInv /\ IndexedInv /\ TableOnDisk /\ DiskType
      /\ stored <= Len(blocks) /\ isize >= ImageStart
  BY DEF MetaInv
<1>2. /\ pc \in {"write", "index"} /\ (pc = "write" => todo # <<>>) /\ todo' = <<>> /\ pc' = "idle"
      /\ isize' = IF pc = "index" THEN isize + 8 * Len(blocks) ELSE isize
      /\ \/ UNCHANGED disk
         \/ pc = "write" /\ disk' = disk \cup {HeaderWrite(Head(todo), woffset)}
      /\ UNCHANGED <<indexed, blocks, opened, openedAt, tsize, taboffset, records, start,
                     woffset, stored, base, writes>>
  BY DEF WriteFail
<1>3. isize \in Nat /\ Len(blocks) \in Nat
  BY <1>1 DEF MetaTypeOK
<1>4. isize' \in Nat /\ isize' >= isize
  BY <1>2, <1>3
<1>5. disk \subseteq disk' /\ Apart(disk') /\ EndBy(disk', isize')
  <2>1. CASE UNCHANGED disk
    <3>1. Apart(disk) /\ EndBy(disk, isize)
      BY DiskFacts
    <3>2. ASSUME NEW w \in disk
          PROVE  w.at \in Nat /\ w.len \in Nat /\ w.at >= ImageStart /\ w.at + w.len <= isize'
      <4>1. w.at \in Nat /\ w.len \in Nat /\ w.at >= ImageStart /\ w.at + w.len <= isize
        BY <3>1 DEF EndBy
      <4>2. PICK e \in Nat : e = w.at + w.len
        BY <4>1
      <4>3. e <= isize'
        BY <4>1, <4>2, <1>3, <1>4
      <4> QED BY <4>1, <4>2, <4>3
    <3> QED BY <2>1, <3>1, <3>2 DEF EndBy
  <2>2. CASE pc = "write" /\ disk' = disk \cup {HeaderWrite(Head(todo), woffset)}
    <3>1. PICK h : h = HeaderWrite(Head(todo), woffset)
      OBVIOUS
    <3>2. h.at = woffset /\ h.len = 2
      BY <3>1 DEF HeaderWrite
    <3>3. PICK off \in Nat, size \in Nat : /\ woffset = start + off /\ off + 2 + size <= tsize
                                           /\ isize = start + tsize /\ start >= ImageStart
      BY <2>2, <1>2, WritePosition
    <3>4. start \in Nat /\ tsize \in Nat /\ woffset \in Nat /\ ImageStart \in Nat
      BY <1>1, MetaBounds DEF MetaTypeOK
    <3>5. woffset >= ImageStart /\ woffset + 2 <= isize /\ isize' = isize
      BY <2>2, <3>3, <3>4, <1>2
    <3>6. Apart(disk \cup {h}) /\ EndBy(disk \cup {h}, woffset + 2)
      <4>1. Apart(disk) /\ EndBy(disk, woffset)
        BY <2>2, DiskFacts
      <4>2. Apart(disk \cup {h}) /\ EndBy(disk \cup {h}, woffset + h.len)
        BY <4>1, <3>2, <3>4, <3>5, AddWrite
      <4> QED BY <4>2, <3>2
    <3>7. ASSUME NEW w \in disk \cup {h}
          PROVE  w.at \in Nat /\ w.len \in Nat /\ w.at >= ImageStart /\ w.at + w.len <= isize'
      <4>1. w.at \in Nat /\ w.len \in Nat /\ w.at >= ImageStart /\ w.at + w.len <= woffset + 2
        BY <3>6 DEF EndBy
      <4>2. PICK e \in Nat : e = w.at + w.len
        BY <4>1
      <4>3. e <= isize'
        BY <4>1, <4>2, <3>4, <3>5, <1>3
      <4> QED BY <4>1, <4>2, <4>3
    <3> QED BY <2>2, <3>1, <3>6, <3>7 DEF EndBy
  <2> QED BY <2>1, <2>2, <1>2
<1>6. TableOnDisk' /\ DiskType'
  <2>1. taboffset' # -1 =>
           \A k \in 1 .. stored' : BlockWrites(k, base + blocks[k].offset)' \subseteq disk'
    BY <1>1, <1>2, <1>5, BlocksStayOnDisk
  <2> QED BY <2>1, <1>5 DEF TableOnDisk, DiskType, Apart, EndBy
<1>7. IndexedInv'
  <2>1. indexed' /\ taboffset' # -1 => stored' = Len(blocks') /\ (taboffset' = base' \/ IndexOnDisk')
    <3>1. indexed /\ taboffset # -1 => stored = Len(blocks) /\ (taboffset = base \/ IndexOnDisk)
      BY <1>1 DEF IndexedInv
    <3>2. IndexTable' = IndexTable
      BY <1>2 DEF IndexTable
    <3>3. IndexOnDisk => IndexOnDisk'
      BY <3>2, <1>2, <1>5 DEF IndexOnDisk
    <3> QED BY <3>1, <3>3, <1>2
  <2>2. indexed' => \A k \in 1 .. Len(blocks') :
           k < Len(blocks') \/ writes' = 0 => Len(blocks'[k].data) = MetaSize
    BY <1>1, <1>2 DEF IndexedInv
  <2>3. writes' = 0 => taboffset' = -1
    BY <1>1, <1>2 DEF IndexedInv
  <2> QED BY <2>1, <2>2, <2>3, <1>2 DEF IndexedInv
<1>8. MetaTypeOK'
  <2>1. todo' \in Seq(Nat)
    BY <1>2
  <2> QED BY <2>1, <1>1, <1>2, <1>4 DEF MetaTypeOK
<1>9. AppendInv' /\ WriteoutInv'
  BY <1>1, <1>2 DEF AppendInv, WriteoutInv
<1>10. OffsetsAddUp' /\ BlocksWithin' /\ StreamInv' /\ RecordsReadBack'
  BY <1>2, StreamKept
<1>11. stored' <= Len(blocks') /\ isize' >= ImageStart
  BY <1>1, <1>2, <1>3, <1>4, MetaBounds
<1> QED BY <1>6, <1>7, <1>8, <1>9, <1>10, <1>11 DEF MetaInv

-----------------------------------------------------------------------------
(* The theorems.                                                           *)

\* An empty table.
LEMMA InitMeta ==
    ASSUME Init
    PROVE  MetaInv
<1> USE DEF Init, NoBytes
<1>1. MetaTypeOK
  BY MetaSizePositive, MetaBounds DEF MetaTypeOK
<1>2. OffsetsAddUp /\ BlocksWithin /\ AppendInv
  BY MetaBounds DEF OffsetsAddUp, BlocksWithin, AppendInv
<1>3. StreamInv /\ RecordsReadBack
  <2>1. \A k \in BlockNumbers : Content(k) = <<>>
    BY DEF BlockNumbers, Content
  <2> QED BY <2>1 DEF StreamInv, RecordsReadBack
<1>4. DiskType /\ WriteoutInv /\ TableOnDisk /\ IndexedInv
  BY DEF DiskType, WriteoutInv, TableOnDisk, IndexedInv
<1>5. stored <= Len(blocks) /\ isize >= ImageStart
  BY MetaBounds
<1> QED BY <1>1, <1>2, <1>3, <1>4, <1>5 DEF MetaInv

\* A step that changes nothing.
LEMMA StutterMeta ==
    ASSUME MetaInv, UNCHANGED metaVars
    PROVE  MetaInv'
<1> USE DEF metaVars
<1>1. MetaTypeOK' /\ AppendInv'
  BY DEF MetaInv, MetaTypeOK, AppendInv, LastRecord
<1>2. OffsetsAddUp' /\ BlocksWithin' /\ StreamInv' /\ RecordsReadBack'
  BY StreamKept
<1>3. TableOnDisk' /\ DiskType' /\ stored' <= Len(blocks') /\ isize' >= ImageStart
  BY DiskKept DEF MetaInv, MetaTypeOK
<1>4. WriteoutInv'
  BY DEF MetaInv, WriteoutInv, WrittenBlocks, BlockWrites, HeaderWrite, DataWrite
<1>5. IndexedInv'
  BY DEF MetaInv, IndexedInv, IndexOnDisk, IndexTable
<1> QED BY <1>1, <1>2, <1>3, <1>4, <1>5 DEF MetaInv

\* The inductive invariant of a table holds for every size of a block, all records,
\* whatever the compressor returns and whichever allocations and writes fail.
THEOREM TableInvariant == Spec => []MetaInv
<1>1. Init => MetaInv
  BY InitMeta
<1>2. ASSUME MetaInv, Next PROVE MetaInv'
  BY <1>2, NextAppendStart, NextAppendStep, NextAppendFail, NextWriteStart, NextWriteBlock,
     NextWriteEnd, NextWriteIndex, NextWriteFail DEF Next
<1>3. MetaInv /\ [Next]_metaVars => MetaInv'
  BY <1>2, StutterMeta
<1> QED BY <1>1, <1>3, PTL DEF Spec

\* The variables of a table keep their types; in particular a listed block is never
\* empty nor larger than MetaSize, and the opened one never full (metatable.c:56-105).
THEOREM TableTypes == Spec => []MetaTypeOK
<1>1. MetaInv => MetaTypeOK
  BY DEF MetaInv
<1> QED BY <1>1, TableInvariant, PTL

\* Every record is read back from the place that libsqfs_metatable_append handed out
\* (metatable.c:107-134).
THEOREM RecordsAlwaysReadBack == Spec => []RecordsReadBack
<1>1. MetaInv => RecordsReadBack
  BY DEF MetaInv
<1> QED BY <1>1, TableInvariant, PTL

\* The offsets handed out are those that libsqfs_metatable_write lays out
\* (metatable.c:79, 98, 159).
THEOREM OffsetsAlwaysAddUp == Spec => []OffsetsAddUp
<1>1. MetaInv => OffsetsAddUp
  BY DEF MetaInv
<1> QED BY <1>1, TableInvariant, PTL

\* The table tab->offset names is on disk and stays there, whatever is written or
\* fails to be written later (metatable.c:136-166).
THEOREM TableAlwaysOnDisk == Spec => []TableOnDisk
<1>1. MetaInv => TableOnDisk
  BY DEF MetaInv
<1> QED BY <1>1, TableInvariant, PTL

\* The index written behind a table locates every byte of the stream
\* (metatable.c:168-189).
THEOREM IndexAlwaysLocates == Spec => []IndexLocatesBytes
<1>1. ASSUME MetaInv PROVE IndexLocatesBytes
  <2> SUFFICES ASSUME indexed, pc = "idle", taboffset # -1, taboffset # base
      PROVE  \E w \in disk :
                /\ w.at = taboffset
                /\ w.what[1] = "index"
                /\ Len(w.what[2]) = Len(blocks)
                /\ \A k \in 1 .. Len(blocks) :
                      /\ k < Len(blocks) => Len(blocks[k].data) = MetaSize
                      /\ BlockWrites(k, w.what[2][k]) \subseteq disk
    BY DEF IndexLocatesBytes
  <2>1. IndexedInv /\ TableOnDisk /\ MetaTypeOK
    BY <1>1 DEF MetaInv
  <2>2. PICK w \in disk : w.at = taboffset /\ w.what = <<"index", IndexTable>>
    BY <2>1 DEF IndexedInv, IndexOnDisk
  <2>3. stored = Len(blocks) /\ Len(blocks) \in Nat
    BY <2>1 DEF IndexedInv, MetaTypeOK
  <2>4. PICK tab : tab = IndexTable
    OBVIOUS
  <2>5. w.what[1] = "index" /\ w.what[2] = tab
    BY <2>2, <2>4
  <2>6. Len(tab) = Len(blocks)
    BY <2>3, <2>4 DEF IndexTable
  <2>7. ASSUME NEW k \in 1 .. Len(blocks)
        PROVE  /\ k < Len(blocks) => Len(blocks[k].data) = MetaSize
               /\ BlockWrites(k, tab[k]) \subseteq disk
    <3>1. tab[k] = base + blocks[k].offset
      BY <2>4 DEF IndexTable
    <3>2. BlockWrites(k, base + blocks[k].offset) \subseteq disk
      BY <2>1, <2>3 DEF TableOnDisk
    <3> QED BY <2>1, <3>1, <3>2 DEF IndexedInv
  <2> QED BY <2>2, <2>5, <2>6, <2>7
<1>2. MetaInv => IndexLocatesBytes
  BY <1>1
<1> QED BY <1>2, TableInvariant, PTL
=============================================================================

------------------------------ MODULE MetaTable ------------------------------
(***************************************************************************)
(* libsqfs_metatable (metatable.c): the container of every table of an     *)
(* image.  Records are appended to a stream of bytes that is cut into      *)
(* blocks of MetaSize bytes; a full block is compressed and listed, and    *)
(* the list is written out with a two-byte header before each block, for   *)
(* some tables followed by an index of the places of the blocks.           *)
(*                                                                         *)
(* libsqfs_metatable_append hands out the place of a record, a pair        *)
(* (block, offset), before the block it names is complete, and the place   *)
(* goes into inodes and directories at once: a reader must find the record *)
(* there later, whatever the blocks compress to.                           *)
(*                                                                         *)
(* Byte j of the i-th record is the pair <<i, j>>.  One action is one      *)
(* iteration of the loop of append or write.  The table is either of the   *)
(* kind that lives as long as the image (inode and directory table: a      *)
(* second call of libsqfs_image_finalize appends to it and writes it       *)
(* again) or one of the indexed tables (fragments, export, ids, xattrs)    *)
(* that are filled, written once and thrown away.                          *)
(***************************************************************************)
EXTENDS Integers, Sequences

CONSTANTS
    MetaSize,           \* SQUASHFS_METADATA_SIZE
    Lengths,            \* lengths of the records appended
    MaxRecords,         \* bound: records appended
    MaxWrites,          \* bound: calls of libsqfs_metatable_write
    CompressResults,    \* what compress_meta may return; -1: did not fit
    ImageStart,         \* image->size at the start
    Faults              \* which of "alloc", "write" may happen

ASSUME MetaSizePositive == MetaSize \in Nat \ {0}
ASSUME LengthsPositive == Lengths \subseteq Nat \ {0}
ASSUME MetaBounds == MaxRecords \in Nat /\ MaxWrites \in Nat /\ ImageStart \in Nat
ASSUME CompressResultsFit == CompressResults \subseteq {-1} \cup 1 .. MetaSize

HeaderSize == 2         \* sizeof(header)
EntrySize == 8          \* sizeof(index_table[0])
NotWritten == -1        \* (libsqfs_off_t) -1

VARIABLES
    indexed,    \* the kind of table
    blocks,     \* the list first .. last: [offset, size, compressed, data]
    opened,     \* data of opened_block, <<>> for NULL; its length is opened_block_fill
    openedAt,   \* offset of opened_block
    tsize,      \* tab->size
    taboffset,  \* tab->offset
    isize,      \* image->size
    pc,         \* "idle" between two calls, otherwise the loop being executed
    records,    \* per append: [block, offset, len, done]
    start,      \* start of the area the running write reserved
    woffset,    \* offset, the position of the running write
    todo,       \* blocks it still has to write
    disk,       \* the successful pwrites: [at, len, what]
    stored,     \* blocks the table on disk has, after the last successful write
    base,       \* where that table starts
    writes      \* calls of write so far

metaVars == <<indexed, blocks, opened, openedAt, tsize, taboffset, isize, pc, records,
              start, woffset, todo, disk, stored, base, writes>>

NoBytes == <<>>

Init ==
    /\ indexed \in BOOLEAN
    /\ blocks = <<>>
    /\ opened = NoBytes /\ openedAt = 0
    /\ tsize = 0
    /\ taboffset = NotWritten
    /\ isize = ImageStart
    /\ pc = "idle"
    /\ records = <<>>
    /\ start = 0 /\ woffset = 0 /\ todo = <<>>
    /\ disk = {}
    /\ stored = 0 /\ base = 0
    /\ writes = 0

-----------------------------------------------------------------------------
(* Filling the table.                                                      *)

\* mutant: the place is that of the last listed block
PlaceOfNext_LastBlock ==
    [block |-> IF blocks = <<>> THEN 0 ELSE blocks[Len(blocks)].offset,
     offset |-> Len(opened)]

\* The place libsqfs_metatable_append hands out.
PlaceOfNext == [block |-> tsize, offset |-> Len(opened)]

\* mutant: the header is forgotten
Occupies_NoHeader(n) == n

\* What a block of n bytes takes up in the table.
Occupies(n) == n + HeaderSize

\* libsqfs_metatable_flush of an opened block at the given offset, where the
\* compressor returns r: the block is stored compressed if that makes it smaller.
Flushed(at, data, r) ==
    LET smaller == r # -1 /\ r < Len(data)
    IN [offset |-> at, size |-> IF smaller THEN r ELSE Len(data),
        compressed |-> smaller, data |-> data]

Flush(at, data, r) ==
    /\ blocks' = Append(blocks, Flushed(at, data, r))
    /\ tsize' = tsize + Occupies(Flushed(at, data, r).size)
    /\ opened' = NoBytes

\* libsqfs_metatable_append is called with a record of n bytes.
AppendStart(n) ==
    /\ pc = "idle"
    /\ Len(records) < MaxRecords
    /\ indexed => writes = 0
    /\ records' = Append(records, [block |-> PlaceOfNext.block, offset |-> PlaceOfNext.offset,
                                   len |-> n, done |-> 0])
    /\ pc' = "append"
    /\ UNCHANGED <<indexed, blocks, opened, openedAt, tsize, taboffset, isize, start, woffset, todo,
                   disk, stored, base, writes>>

Smaller(a, b) == IF a < b THEN a ELSE b

\* mutant: the room is that of an empty block
ToCopy_WholeBlock(left) == Smaller(MetaSize, left)

\* How much of what is left fits the opened block.
ToCopy(left) == Smaller(MetaSize - Len(opened), left)

\* One iteration of its loop: libsqfs_metatable_getblock, the copy, and the flush
\* of a block that is now full.
AppendStep ==
    LET i == Len(records)
        r == records[i]
        n == ToCopy(r.len - r.done)
        data == opened \o [j \in 1 .. n |-> <<i, r.done + j>>]
        at == IF opened = NoBytes THEN tsize ELSE openedAt
    IN /\ pc = "append"
       /\ records' = [records EXCEPT ![i].done = r.done + n]
       /\ openedAt' = at
       /\ IF Len(data) = MetaSize
          THEN \E c \in CompressResults : Flush(at, data, c)
          ELSE opened' = data /\ UNCHANGED <<blocks, tsize>>
       /\ pc' = IF r.done + n = r.len THEN "idle" ELSE "append"
       /\ UNCHANGED <<indexed, taboffset, isize, start, woffset, todo, disk, stored, base, writes>>

\* A block cannot be allocated: append returns false, the record stays incomplete.
AppendFail ==
    /\ pc = "append"
    /\ "alloc" \in Faults
    /\ opened = NoBytes
    /\ pc' = "idle"
    /\ UNCHANGED <<indexed, blocks, opened, openedAt, tsize, taboffset, isize, records,
                   start, woffset, todo, disk, stored, base, writes>>

-----------------------------------------------------------------------------
(* Writing the table.                                                      *)

\* libsqfs_metatable_write flushes what is open and reserves the area.
WriteStart ==
    /\ pc = "idle"
    /\ writes < MaxWrites
    /\ indexed => writes = 0
    /\ writes' = writes + 1
    /\ IF opened = NoBytes THEN UNCHANGED <<blocks, tsize, opened>>
       ELSE \E c \in CompressResults : Flush(openedAt, opened, c)
    /\ start' = isize
    /\ woffset' = isize
    /\ isize' = isize + tsize'
    /\ todo' = [k \in 1 .. Len(blocks') |-> k]
    /\ pc' = "write"
    /\ UNCHANGED <<indexed, openedAt, taboffset, records, disk, stored, base>>

\* The header and the data of block k, written at a position.
HeaderWrite(k, at) ==
    [at |-> at, len |-> HeaderSize, what |-> <<"header", blocks[k].size, blocks[k].compressed>>]
DataWrite(k, at) ==
    [at |-> at + HeaderSize, len |-> blocks[k].size, what |-> <<"data", blocks[k].data>>]
BlockWrites(k, at) == {HeaderWrite(k, at), DataWrite(k, at)}

WriteBlock ==
    /\ pc = "write"
    /\ todo # <<>>
    /\ disk' = disk \cup BlockWrites(Head(todo), woffset)
    /\ woffset' = woffset + blocks[Head(todo)].size + HeaderSize
    /\ todo' = Tail(todo)
    /\ UNCHANGED <<indexed, blocks, opened, openedAt, tsize, taboffset, isize, pc, records,
                   start, stored, base, writes>>

\* Every block is written: the table is complete, or its index is to follow.
WriteEnd ==
    /\ pc = "write"
    /\ todo = <<>>
    /\ taboffset' = start
    /\ stored' = Len(blocks)
    /\ base' = start
    /\ pc' = IF indexed THEN "index" ELSE "idle"
    /\ UNCHANGED <<indexed, blocks, opened, openedAt, tsize, isize, records, start, woffset,
                   todo, disk, writes>>

\* mutant: the entries are relative to the table
IndexTable_Relative == [k \in 1 .. Len(blocks) |-> blocks[k].offset]

\* The index: the place of every block in the image.
IndexTable == [k \in 1 .. Len(blocks) |-> base + blocks[k].offset]

\* The rest of libsqfs_metatable_write_with_index.
WriteIndex ==
    /\ pc = "index"
    /\ isize' = isize + EntrySize * Len(blocks)
    /\ disk' = disk \cup {[at |-> isize, len |-> EntrySize * Len(blocks),
                           what |-> <<"index", IndexTable>>]}
    /\ taboffset' = isize
    /\ pc' = "idle"
    /\ UNCHANGED <<indexed, blocks, opened, openedAt, tsize, records, start, woffset, todo, stored,
                   base, writes>>

\* A pwrite fails, of the index, of a header or of the data after its header;
\* tab->offset keeps its value (the area stays reserved).
WriteFail ==
    /\ pc \in {"write", "index"}
    /\ pc = "write" => todo # <<>>
    /\ "write" \in Faults
    /\ isize' = IF pc = "index" THEN isize + EntrySize * Len(blocks) ELSE isize
    /\ \/ UNCHANGED disk
       \/ pc = "write" /\ disk' = disk \cup {HeaderWrite(Head(todo), woffset)}
    /\ todo' = <<>>
    /\ pc' = "idle"
    /\ UNCHANGED <<indexed, blocks, opened, openedAt, tsize, taboffset, records, start,
                   woffset, stored, base, writes>>

Next ==
    \/ \E n \in Lengths : AppendStart(n)
    \/ AppendStep \/ AppendFail
    \/ WriteStart \/ WriteBlock \/ WriteEnd \/ WriteIndex \/ WriteFail

Spec == Init /\ [][Next]_metaVars

-----------------------------------------------------------------------------
(* Properties.                                                             *)

Bytes == (1 .. MaxRecords) \X (Nat \ {0})
MetablockType == [offset : Nat, size : 1 .. MetaSize, compressed : BOOLEAN, data : Seq(Bytes)]

\* Types of the variables of a table.
MetaTypeOK ==
    /\ indexed \in BOOLEAN
    /\ blocks \in Seq(MetablockType)
    /\ opened \in Seq(Bytes) /\ Len(opened) < MetaSize /\ openedAt \in Nat
    /\ tsize \in Nat /\ isize \in Nat /\ base \in Nat
    /\ start \in Nat /\ woffset \in Nat
    /\ taboffset \in Nat \cup {NotWritten}
    /\ pc \in {"idle", "append", "write", "index"}
    /\ records \in Seq([block : Nat, offset : 0 .. MetaSize - 1, len : Lengths, done : Nat])
    /\ todo \in Seq(Nat)
    /\ stored \in Nat /\ writes \in 0 .. MaxWrites

\* The blocks as a reader will see them, the opened one included.
BlockNumbers == 1 .. Len(blocks) + 1
Content(k) == IF k <= Len(blocks) THEN blocks[k].data ELSE opened
OffsetOf(k) == IF k <= Len(blocks) THEN blocks[k].offset ELSE openedAt

\* Byte b is not the last one copied of its record; the byte that follows it.
IsFollowed(b) == b[2] < records[b[1]].done
Successor(b) == <<b[1], b[2] + 1>>

\* Byte m of block k is b.
IsByte(k, m, b) == k \in BlockNumbers /\ m \in 1 .. Len(Content(k)) /\ Content(k)[m] = b

\* What a reader finds after byte m of block k is b: the next byte of the block, or,
\* at its end, the first byte of the block that follows.
NextIs(k, m, b) == IF m < Len(Content(k)) THEN IsByte(k, m + 1, b) ELSE IsByte(k + 1, 1, b)

\* Every record can be read back from the place that append handed out: its first
\* byte is there, and a reader who goes on from byte to byte and from block to
\* block meets the others in order (regardless of what blocks compressed to, of
\* records across several blocks, of appends that failed half-way, and of short
\* blocks left in the middle by an earlier write).
RecordsReadBack ==
    /\ \A i \in DOMAIN records : records[i].done > 0 =>
          \E k \in BlockNumbers :
             OffsetOf(k) = records[i].block /\ IsByte(k, records[i].offset + 1, <<i, 1>>)
    /\ \A k \in BlockNumbers : \A m \in 1 .. Len(Content(k)) :
          IsFollowed(Content(k)[m]) => NextIs(k, m, Successor(Content(k)[m]))

\* Each block starts where the one before it ends: what tab->size counts is what
\* the writer lays out, so that the offsets handed out are those on disk.
OffsetsAddUp ==
    /\ \A k \in 1 .. Len(blocks) :
          blocks[k].offset = IF k = 1 THEN 0
                             ELSE blocks[k - 1].offset + HeaderSize + blocks[k - 1].size
    /\ tsize = IF blocks = <<>> THEN 0
               ELSE blocks[Len(blocks)].offset + HeaderSize + blocks[Len(blocks)].size
    /\ opened # NoBytes => openedAt = tsize

\* The table that tab->offset names is on disk: every block it had when it was
\* written lies at its offset, header first, and nothing written since, not even a
\* second and failed attempt, has touched it.
TableOnDisk ==
    /\ taboffset # NotWritten =>
          \A k \in 1 .. stored : BlockWrites(k, base + blocks[k].offset) \subseteq disk
    /\ \A v, w \in disk : v # w => v.at + v.len <= w.at \/ w.at + w.len <= v.at
    /\ \A w \in disk : w.at >= ImageStart /\ w.at + w.len <= isize

\* An index locates every byte of the stream: entry n \div MetaSize names the
\* block, and the byte is at n % MetaSize in it; so every block but the last is full.
IndexLocatesBytes ==
    indexed /\ pc = "idle" /\ taboffset # NotWritten /\ taboffset # base =>
        \E w \in disk :
           /\ w.at = taboffset
           /\ w.what[1] = "index"
           /\ Len(w.what[2]) = Len(blocks)
           /\ \A k \in 1 .. Len(blocks) :
                 /\ k < Len(blocks) => Len(blocks[k].data) = MetaSize
                 /\ BlockWrites(k, w.what[2][k]) \subseteq disk

-----------------------------------------------------------------------------
(* The inductive invariant behind these properties.                        *)

LastRecord == records[Len(records)]

\* No block reaches beyond what tab->size counts.
BlocksWithin ==
    \A k \in 1 .. Len(blocks) : blocks[k].offset + HeaderSize + blocks[k].size <= tsize

\* The record being appended is the last one and not complete; before its first
\* byte is copied the end of the table is still the place handed out.
AppendInv ==
    /\ Len(records) <= MaxRecords
    /\ \A i \in DOMAIN records : records[i].done <= records[i].len
    /\ pc = "append" =>
          /\ records # <<>>
          /\ LastRecord.done < LastRecord.len
          /\ LastRecord.done = 0 =>
                LastRecord.block = tsize /\ LastRecord.offset = Len(opened)
          /\ indexed => writes = 0

\* Byte m of block k is the last one of the table.
IsEnd(k, m) ==
    /\ m = Len(Content(k))
    /\ k = Len(blocks) + 1 \/ (k = Len(blocks) /\ opened = NoBytes)

\* Only copied bytes are in the table, and the byte copied last is its end.
StreamInv ==
    \A k \in BlockNumbers : \A m \in 1 .. Len(Content(k)) :
        /\ Content(k)[m][1] \in DOMAIN records
        /\ Content(k)[m][2] \in 1 .. records[Content(k)[m][1]].done
        /\ Content(k)[m] = <<Len(records), LastRecord.done>> => IsEnd(k, m)

\* The blocks the running write has written.
WrittenBlocks == Len(blocks) - Len(todo)

\* A running write goes through the blocks in the order of the list, and the
\* position it keeps is the place of the next block behind everything on disk.
WriteoutInv ==
    pc = "write" =>
        /\ WrittenBlocks >= 0
        /\ \A j \in DOMAIN todo : todo[j] = WrittenBlocks + j
        /\ isize = start + tsize
        /\ woffset = start + (IF todo = <<>> THEN tsize ELSE blocks[WrittenBlocks + 1].offset)
        /\ start >= ImageStart
        /\ \A k \in 1 .. WrittenBlocks : BlockWrites(k, start + blocks[k].offset) \subseteq disk
        /\ \A w \in disk : w.at + w.len <= woffset

\* The index of the table that taboffset names is on disk.
IndexOnDisk ==
    \E w \in disk : w.at = taboffset /\ w.what = <<"index", IndexTable>>

\* An indexed table is written once, after its last append: all its blocks are
\* full except for the one this write flushed.
IndexedInv ==
    /\ writes = 0 => taboffset = NotWritten /\ pc \in {"idle", "append"}
    /\ indexed => \A k \in 1 .. Len(blocks) :
          k < Len(blocks) \/ writes = 0 => Len(blocks[k].data) = MetaSize
    /\ indexed /\ pc = "write" => taboffset = NotWritten
    /\ pc = "index" => indexed /\ taboffset = base /\ stored = Len(blocks)
    /\ indexed /\ taboffset # NotWritten =>
          /\ stored = Len(blocks)
          /\ taboffset = base \/ IndexOnDisk

\* The writes that succeeded, as intervals of the image.
DiskType == \A w \in disk : w.at \in Nat /\ w.len \in Nat

\* The inductive invariant: what append promised of the bytes, what write laid out,
\* and how far either has come.
MetaInv ==
    /\ MetaTypeOK /\ OffsetsAddUp /\ BlocksWithin
    /\ AppendInv /\ StreamInv /\ RecordsReadBack
    /\ stored <= Len(blocks) /\ isize >= ImageStart
    /\ DiskType /\ WriteoutInv /\ TableOnDisk /\ IndexedInv
=============================================================================

------------------------------ MODULE FileData ------------------------------
(***************************************************************************)
(* From a regular file to the bytes of its chunks:                         *)
(* libsqfs_regular_inode_create (regular.c) cuts the data of a file into   *)
(* full blocks and a tail and submits them; a worker later reads each with *)
(* libsqfs_chunk_do_read (bulkdata.c), through the pread of the data       *)
(* source (datasource.c).                                                  *)
(*                                                                         *)
(* A source is a file, a buffer in memory, or a compound of pieces of      *)
(* those.  The size of a file is taken with stat when the inode is         *)
(* created, but the file is opened anew for every read: the application's  *)
(* environment may have changed it in between.  Byte j of store s is the   *)
(* pair <<s, j>>, counted from 0.                                          *)
(*                                                                         *)
(* Chunks are read one after the other here: two reads, or a read and the  *)
(* submission of a later chunk, share nothing but the file itself (what    *)
(* the pipeline does with several chunks at once is the matter of          *)
(* BulkData).                                                              *)
(***************************************************************************)
EXTENDS Integers, Sequences

CONSTANTS
    BlockSize,      \* image->options->block_size
    Sources,        \* the sources: [kind |-> "file" or "memory"], or
                    \* [kind |-> "compound", pieces |-> Seq([data, offset, size])]
    MaxLength,      \* bound: length of a file or buffer
    Faults          \* which of "stat", "open", "alloc" may fail

Policies == {"never", "small", "always"}        \* libsqfs_fragments_*
Stores == {"file", "memory"}

ASSUME FileBlockSizePositive == BlockSize \in Nat \ {0}
ASSUME MaxLengthNat == MaxLength \in Nat
ASSUME SourcesWellFormed ==
    \A s \in Sources :
        /\ s.kind \in Stores \cup {"compound"}
        /\ s.kind = "compound" => s.pieces \in Seq([data : Stores, offset : Nat, size : Nat])

VARIABLES
    policy,     \* image->options->fragments
    src,        \* the source of the file
    length,     \* store -> its current length
    pc,         \* "create", "submit", then "idle" or "pread"
    created,    \* the inode has been handed to the application
    fileSize,   \* reg->file_size
    chunks,     \* submitted so far: [kind, offset, size]
    accepted,   \* chunks whose read succeeded -> the bytes in cached_data
    error,      \* image->error_msg is set
    fatal,      \* image->state is fatal_error
    job,        \* the chunk being read
    n,          \* the loop over the pieces of a compound: index,
    current,    \* current_offset,
    written,    \* bytes read so far,
    buffer      \* what is in cached_data: position -> byte

fileVars == <<policy, src, length, pc, created, fileSize, chunks, accepted, error, fatal,
              job, n, current, written, buffer>>
loopVars == <<n, current, written, buffer>>

NoBytes == <<>>

Init ==
    /\ policy \in Policies
    /\ src \in Sources
    /\ length \in [Stores -> 0 .. MaxLength]
    /\ pc = "create"
    /\ fileSize = -1
    /\ chunks = <<>>
    /\ accepted = <<>>
    /\ created = FALSE
    /\ error = FALSE /\ fatal = FALSE
    /\ job = 0
    /\ n = 0 /\ current = 0 /\ written = 0 /\ buffer = NoBytes

-----------------------------------------------------------------------------
(* libsqfs_regular_inode_create.                                           *)

\* The sum of the sizes of the first k pieces, as a function of k.
SizeOfFirst(pieces) ==
    LET sum[k \in 0 .. Len(pieces)] == IF k = 0 THEN 0 ELSE sum[k - 1] + pieces[k].size
    IN sum

\* libsqfs_data_get_size; libsqfs_data_create_compound adds up the sizes.
DataGetSize(s) ==
    IF s.kind # "compound" THEN length[s.kind] ELSE SizeOfFirst(s.pieces)[Len(s.pieces)]

RoundUp(size) == (size + BlockSize - 1) \div BlockSize

\* mutant: the last incomplete block is forgotten
BlocksAndTail_RoundDown(size) ==
    IF policy = "always" THEN [nblocks |-> size \div BlockSize, tail |-> size % BlockSize]
    ELSE IF policy = "small" /\ size < BlockSize THEN [nblocks |-> 0, tail |-> size]
    ELSE [nblocks |-> size \div BlockSize, tail |-> 0]

\* mutant: a small file of exactly one block becomes a fragment
BlocksAndTail_SmallInclusive(size) ==
    IF policy = "always" THEN [nblocks |-> size \div BlockSize, tail |-> size % BlockSize]
    ELSE IF policy = "small" /\ size <= BlockSize THEN [nblocks |-> 0, tail |-> size]
    ELSE [nblocks |-> RoundUp(size), tail |-> 0]

\* The switch over image->options->fragments.
BlocksAndTail(size) ==
    IF policy = "always" THEN [nblocks |-> size \div BlockSize, tail |-> size % BlockSize]
    ELSE IF policy = "small" /\ size < BlockSize THEN [nblocks |-> 0, tail |-> size]
    ELSE [nblocks |-> RoundUp(size), tail |-> 0]

\* The size is taken, the inode is created.
Create ==
    /\ pc = "create"
    /\ fileSize' = DataGetSize(src)
    /\ pc' = "submit"
    /\ UNCHANGED <<policy, src, length, created, chunks, accepted, error, fatal, job,
                   loopVars>>

\* The inode cannot be allocated, which flags no error, or its list of blocks.
CreateFail ==
    /\ pc = "create"
    /\ "alloc" \in Faults
    /\ error' \in BOOLEAN
    /\ pc' = "idle"
    /\ UNCHANGED <<policy, src, length, created, fileSize, chunks, accepted, fatal, job,
                   loopVars>>

\* stat fails: libsqfs_filedata_get_size flags an error that is not fatal; no inode.
StatFail ==
    /\ pc = "create"
    /\ src.kind = "file"
    /\ "stat" \in Faults
    /\ error' = TRUE
    /\ pc' = "idle"
    /\ UNCHANGED <<policy, src, length, created, fileSize, chunks, accepted, fatal, job,
                   loopVars>>

\* The k-th block, from 0.
BlockPiece(k) ==
    LET offset == k * BlockSize
    IN [kind |-> "block", offset |-> offset,
        size |-> IF fileSize - offset < BlockSize THEN fileSize - offset ELSE BlockSize]

TailPiece ==
    LET tail == BlocksAndTail(fileSize).tail
    IN [kind |-> "piece", offset |-> fileSize - tail, size |-> tail]

\* libsqfs_bulkdata_sumbit for each block, then libsqfs_bulkdata_submit_fragment
\* for a tail; from now on a worker may read what is submitted.
SubmitNext ==
    LET shape == BlocksAndTail(fileSize) IN
    /\ pc = "submit"
    /\ IF Len(chunks) < shape.nblocks
       THEN chunks' = Append(chunks, BlockPiece(Len(chunks))) /\ UNCHANGED <<pc, created>>
       ELSE /\ chunks' = IF shape.tail = 0 THEN chunks ELSE Append(chunks, TailPiece)
            /\ created' = TRUE
            /\ pc' = "idle"
    /\ UNCHANGED <<policy, src, length, fileSize, accepted, error, fatal, job, loopVars>>

\* A chunk cannot be allocated: create flags an error that is not fatal and returns
\* 0; the chunks submitted before stay in the pipeline.
SubmitFail ==
    LET shape == BlocksAndTail(fileSize) IN
    /\ pc = "submit"
    /\ "alloc" \in Faults
    /\ Len(chunks) < shape.nblocks \/ shape.tail # 0
    /\ error' = TRUE
    /\ pc' = "idle"
    /\ UNCHANGED <<policy, src, length, created, fileSize, chunks, accepted, fatal, job,
                   loopVars>>

-----------------------------------------------------------------------------
(* libsqfs_chunk_do_read.                                                  *)

\* A worker takes the next chunk; the buffer is as large as the chunk.
StartRead ==
    /\ pc = "idle"
    /\ Len(accepted) < Len(chunks)
    /\ ~fatal
    /\ job' = Len(accepted) + 1
    /\ n' = 1 /\ current' = 0 /\ written' = 0 /\ buffer' = NoBytes
    /\ pc' = "pread"
    /\ UNCHANGED <<policy, src, length, created, fileSize, chunks, accepted, error, fatal>>

\* The buffer cannot be allocated.
BufferFail ==
    /\ pc = "idle"
    /\ Len(accepted) < Len(chunks)
    /\ ~fatal
    /\ "alloc" \in Faults
    /\ error' = TRUE /\ fatal' = TRUE
    /\ UNCHANGED <<policy, src, length, pc, created, fileSize, chunks, accepted, job,
                   loopVars>>

\* mutant: a read that comes back short is taken for a success
ReadSucceeded_Any(count, size) == count > 0

\* The whole chunk must have been read.
ReadSucceeded(count, size) == count = size

\* pread has returned count: the chunk moves on, or the image is broken.
EndRead(count, bytes) ==
    /\ IF ReadSucceeded(count, chunks[job].size)
       THEN accepted' = Append(accepted, bytes) /\ UNCHANGED <<error, fatal>>
       ELSE error' = TRUE /\ fatal' = TRUE /\ UNCHANGED accepted
    /\ pc' = "idle"
    /\ job' = 0
    /\ UNCHANGED <<policy, src, length, created, fileSize, chunks>>

\* The pread of a file (external: pread(2)) and libsqfs_memorydata_pread: how
\* much there is of size bytes from offset.
StorePread(s, size, offset) ==
    IF offset > length[s] THEN 0
    ELSE IF offset + size > length[s] THEN length[s] - offset ELSE size

\* Position -> byte, for the bytes a store delivers to position at of the buffer.
Delivered(s, count, offset, at) == [p \in at .. at + count - 1 |-> <<s, offset + p - at>>]

\* What is in a buffer after bytes have been put there.
PutInto(buf, bytes) ==
    [p \in DOMAIN buf \cup DOMAIN bytes |-> IF p \in DOMAIN bytes THEN bytes[p] ELSE buf[p]]

\* A chunk of a plain file or buffer is read.
ReadPlain ==
    LET c == chunks[job]
        count == StorePread(src.kind, c.size, c.offset)
    IN /\ pc = "pread"
       /\ src.kind # "compound"
       /\ EndRead(count, Delivered(src.kind, count, c.offset, 0))
       /\ UNCHANGED loopVars

\* mutant: the part of the piece before the range is not skipped
CopyBegin_Piece(pieceBegin, offset) == pieceBegin

CopyBegin(pieceBegin, offset) == IF pieceBegin < offset THEN offset ELSE pieceBegin
CopyEnd(pieceEnd, end) == IF pieceEnd > end THEN end ELSE pieceEnd

\* libsqfs_compounddata_pread: the range that is read, cut to the size summed up
\* when the compound was created.
CompoundEnd == CopyEnd(chunks[job].offset + chunks[job].size, DataGetSize(src))

\* Has the loop ended, at the last piece or past the range?
LoopEnds == n > Len(src.pieces) \/ current >= CompoundEnd

\* A piece before the range is skipped.
SkipPiece ==
    /\ pc = "pread"
    /\ src.kind = "compound"
    /\ ~LoopEnds
    /\ current + src.pieces[n].size <= chunks[job].offset
    /\ current' = current + src.pieces[n].size
    /\ n' = n + 1
    /\ UNCHANGED <<policy, src, length, pc, created, fileSize, chunks, accepted, error, fatal,
                   job, written, buffer>>

\* The overlap of a piece with the range is read; a short count ends the loop.
CopyPiece ==
    LET piece == src.pieces[n]
        offset == chunks[job].offset
        begin == CopyBegin(current, offset)
        size == CopyEnd(current + piece.size, CompoundEnd) - begin
        from == piece.offset + begin - current
        count == StorePread(piece.data, size, from)
        bytes == PutInto(buffer, Delivered(piece.data, count, from, begin - offset))
    IN /\ pc = "pread"
       /\ src.kind = "compound"
       /\ ~LoopEnds
       /\ current + piece.size > offset
       /\ written' = written + count
       /\ buffer' = bytes
       /\ n' = n + 1
       /\ current' = current + piece.size
       /\ IF count = size
          THEN UNCHANGED <<policy, src, length, pc, created, fileSize, chunks, accepted,
                           error, fatal, job>>
          ELSE EndRead(written + count, bytes)

EndCompound ==
    /\ pc = "pread"
    /\ src.kind = "compound"
    /\ LoopEnds
    /\ EndRead(written, buffer)
    /\ UNCHANGED loopVars

\* The file cannot be opened: a negative count.  In a compound it ends the loop, and
\* the read comes back short.
ReadFail ==
    /\ pc = "pread"
    /\ "open" \in Faults
    /\ \/ src.kind = "file"
       \/ /\ src.kind = "compound"
          /\ ~LoopEnds
          /\ src.pieces[n].data = "file"
          /\ current + src.pieces[n].size > chunks[job].offset
    /\ EndRead(IF src.kind = "file" THEN -1 ELSE written, buffer)
    /\ UNCHANGED loopVars

\* The environment changes the file.
FileChanges ==
    /\ length' \in {[length EXCEPT !["file"] = l] : l \in 0 .. MaxLength}
    /\ length' # length
    /\ UNCHANGED <<policy, src, pc, created, fileSize, chunks, accepted, error, fatal, job,
                   loopVars>>

Next ==
    \/ Create \/ CreateFail \/ StatFail \/ SubmitNext \/ SubmitFail
    \/ StartRead \/ BufferFail \/ ReadPlain \/ SkipPiece \/ CopyPiece \/ EndCompound \/ ReadFail
    \/ FileChanges

Spec == Init /\ [][Next]_fileVars

-----------------------------------------------------------------------------
(* Properties.                                                             *)

\* The chunks of a file cover it, in order, without gap or overlap, and each fits
\* the buffers of the pipeline: do_read asserts a size above 0, and a fragment
\* block and the compressor have room for BlockSize bytes.
ChunksTileFile ==
    /\ \A i \in DOMAIN chunks :
          /\ chunks[i].size \in 1 .. BlockSize
          /\ chunks[i].offset = IF i = 1 THEN 0 ELSE chunks[i - 1].offset + chunks[i - 1].size
    /\ created =>
          fileSize = IF chunks = <<>> THEN 0
                     ELSE chunks[Len(chunks)].offset + chunks[Len(chunks)].size

\* A reader recomputes the number of block entries of an inode from the size of
\* the file and from whether it has a fragment: the chunks agree with that.
ReaderCountsBlocks ==
    created =>
        LET frag == \E i \in DOMAIN chunks : chunks[i].kind = "piece"
            blocks == IF frag THEN Len(chunks) - 1 ELSE Len(chunks)
        IN /\ blocks = IF frag THEN fileSize \div BlockSize ELSE RoundUp(fileSize)
           /\ frag => chunks[Len(chunks)].kind = "piece"
           /\ \A i \in 1 .. Len(chunks) - 1 : chunks[i].size = BlockSize

\* The byte of the source at a position, by the meaning of a compound: the piece
\* that contains the position, and the place in it.
PieceBegin(i) == SizeOfFirst(src.pieces)[i - 1]
ContainsByte(i, p) == PieceBegin(i) <= p /\ p < PieceBegin(i) + src.pieces[i].size
ByteOfPiece(i, p) == <<src.pieces[i].data, src.pieces[i].offset + p - PieceBegin(i)>>
ByteOfSource(p) ==
    IF src.kind # "compound" THEN <<src.kind, p>>
    ELSE ByteOfPiece(CHOOSE i \in DOMAIN src.pieces : ContainsByte(i, p), p)

\* A chunk that leaves do_read as read holds exactly its bytes, all of them and in
\* their places, whatever happened to the file in the meantime and wherever the
\* chunk cuts the pieces of a compound; everything else breaks the image.
AcceptedChunksComplete ==
    \A i \in DOMAIN accepted :
        accepted[i] = [p \in 0 .. chunks[i].size - 1 |-> ByteOfSource(chunks[i].offset + p)]

\* No read writes outside the buffer of the chunk, and what is there is the front
\* of it: count bytes were read means the first count bytes.
NoOverrun ==
    pc = "pread" => /\ DOMAIN buffer = 0 .. written - 1
                    /\ written <= chunks[job].size

-----------------------------------------------------------------------------
(* The inductive invariant behind these properties.                        *)

ChunkType == [kind : {"block", "piece"}, offset : Nat, size : Nat]
AcceptedBuffers == {accepted[i] : i \in DOMAIN accepted}

\* Types of the variables; a worker is reading the first chunk not yet accepted.
FileTypeOK ==
    /\ policy \in Policies /\ src \in Sources /\ length \in [Stores -> 0 .. MaxLength]
    /\ pc \in {"create", "submit", "idle", "pread"}
    /\ created \in BOOLEAN /\ error \in BOOLEAN /\ fatal \in BOOLEAN
    /\ fileSize \in Nat \cup {-1}
    /\ chunks \in Seq(ChunkType)
    /\ accepted \in Seq(AcceptedBuffers) /\ Len(accepted) <= Len(chunks)
    /\ n \in Nat /\ current \in Nat /\ written \in Nat
    /\ pc = "pread" => job = Len(accepted) + 1 /\ job \in DOMAIN chunks

Shape == BlocksAndTail(fileSize)

\* The chunks submitted so far are the first blocks of the file in order, at last
\* followed by the tail.
ChunksInv ==
    /\ pc = "create" => chunks = <<>> /\ ~created
    /\ pc = "submit" => fileSize # -1 /\ Len(chunks) <= Shape.nblocks /\ ~created
    /\ chunks # <<>> \/ created => fileSize # -1
    /\ \A i \in DOMAIN chunks :
          \/ i <= Shape.nblocks /\ chunks[i] = BlockPiece(i - 1)
          \/ i = Shape.nblocks + 1 /\ Shape.tail # 0 /\ chunks[i] = TailPiece
    /\ created => Len(chunks) = Shape.nblocks + (IF Shape.tail = 0 THEN 0 ELSE 1)
    /\ src.kind = "compound" /\ fileSize # -1 => fileSize = DataGetSize(src)

\* What a read has put into the buffer so far is the front of the chunk, as far as
\* the pieces that have been visited reach.
ReadInv ==
    pc = "pread" =>
        /\ buffer = [p \in 0 .. written - 1 |-> ByteOfSource(chunks[job].offset + p)]
        /\ src.kind # "compound" => written = 0
        /\ src.kind = "compound" =>
              /\ n \in 1 .. Len(src.pieces) + 1
              /\ current = PieceBegin(n)
              /\ written = IF current <= chunks[job].offset THEN 0
                           ELSE CopyEnd(current, CompoundEnd) - chunks[job].offset

\* The inductive invariant: how far the file has been cut up, and how far the chunk
\* being read has been filled.
FileInv == FileTypeOK /\ ChunksInv /\ ReadInv /\ AcceptedChunksComplete

=============================================================================

-------------------------- MODULE BulkDataInvariants --------------------------
(***************************************************************************)
(* What makes the pipeline of BulkData write the image a single thread     *)
(* would write: the invariants, inductive together with IInv, behind its   *)
(* properties about bytes and places, and the refinement mapping to        *)
(* OrderedImage.                                                           *)
(***************************************************************************)
EXTENDS BulkData

IsPiece(c) == desc[c].kind = "piece"
InList(c) == desc[c].kind \in {"piece", "closing"}
IsAssigned(c) == state[c] >= ChunkAssigned
LastOf(ps) == ps[Len(ps)]

-----------------------------------------------------------------------------
(* Order.                                                                  *)

\* prev_piece and next_piece are links of the list of all pieces, in the order of
\* their submission, and the last of them is the end of the list.
ListInv ==
    /\ \A c \in Ids : prevPiece[c] < c
    /\ \A c \in Ids : prevPiece[c] # 0 => nextPiece[prevPiece[c]] = c
    /\ \A p, c \in Ids : InList(p) /\ InList(c) /\ p < c => p <= prevPiece[c]
    /\ \A c \in Ids : InList(c) => c <= lastPiece
    /\ lastPiece <= count

\* Pieces are assigned in that order.
AssignOrder ==
    \A p, c \in Ids : InList(p) /\ InList(c) /\ p < c /\ IsAssigned(c) => IsAssigned(p)

-----------------------------------------------------------------------------
(* Fragment blocks.                                                        *)

\* A fragment block holds assigned pieces, neighbours in the list, one behind the
\* other.
BlockLayout(b) ==
    LET ps == fragments[b].pieces IN
    /\ ps # <<>>
    /\ fragments[b].size <= BlockSize
    /\ offsetOf[ps[1]] = 0
    /\ fragments[b].size = offsetOf[LastOf(ps)] + desc[LastOf(ps)].size
    /\ \A i \in DOMAIN ps : /\ IsPiece(ps[i]) /\ IsAssigned(ps[i]) /\ fragOf[ps[i]] = b
                            /\ offsetOf[ps[i]] + desc[ps[i]].size <= fragments[b].size
    /\ \A i \in 1 .. Len(ps) - 1 :
          /\ prevPiece[ps[i + 1]] = ps[i]
          /\ offsetOf[ps[i + 1]] = offsetOf[ps[i]] + desc[ps[i]].size
    /\ \A i, j \in DOMAIN ps : i < j => ps[i] < ps[j]

\* Every assigned piece is in the block that fragment_block names, and the last one
\* is at the end of the last block.
LayoutInv ==
    /\ \A b \in DOMAIN fragments : BlockLayout(b)
    /\ \A c \in Ids : IsPiece(c) /\ IsAssigned(c) =>
          \E i \in DOMAIN fragments[fragOf[c]].pieces : fragments[fragOf[c]].pieces[i] = c
    /\ \A c \in Ids : IsPiece(c) /\ IsAssigned(c) =>
          c <= LastOf(fragments[Len(fragments)].pieces)

\* flush_previous_block is set for a piece that does not fit the block of its
\* predecessor, which ends that block; it is set once, and for the closing piece
\* whenever there is a block.
FlushInv ==
    /\ \A c \in Ids : flush[c] => state[c] >= ChunkDeduplicated
    /\ \A c \in Elems(workq["assign"]) : ~flush[c]
    /\ \A c \in Ids : flush[c] => LastOf(fragments[FlushedBlock(c)].pieces) = prevPiece[c]
    /\ \A c \in Ids : flush[c] /\ IsPiece(c) =>
          fragments[FlushedBlock(c)].size + desc[c].size > BlockSize
    /\ \A c \in Ids : IsPiece(c) /\ IsAssigned(c) =>
          IF flush[c] \/ prevPiece[c] = 0 THEN fragments[fragOf[c]].pieces[1] = c
          ELSE fragOf[c] = FlushedBlock(c)
    /\ \A c \in Ids : IsClosing(c) /\ IsAssigned(c) /\ prevPiece[c] # 0 => flush[c]
    /\ \A b \in DOMAIN fragments : b < Len(fragments) =>
          \E c \in Ids : flush[c] /\ IsAssigned(c) /\ FlushedBlock(c) = b

-----------------------------------------------------------------------------
(* Bytes.                                                                  *)

\* The bytes of a chunk are in memory from when they are read until the block they
\* belong to has been compressed.
CachedInv ==
    /\ \A c \in Ids : IsBlock(c) /\ state[c] \in ChunkRead .. ChunkAssigned => cached[c]
    /\ \A c \in Ids : IsPiece(c) /\ state[c] >= ChunkRead /\ ~cached[c] =>
          /\ IsAssigned(c)
          /\ \E d \in Ids : /\ flush[d] /\ FlushedBlock(d) = fragOf[c]
                            /\ state[d] >= ChunkWritable

\* What compressing the block that c writes yields.
Compressed(c) ==
    IF IsBlock(c) THEN ImageBlock(BytesOf(SourcesOf(c)), desc[c].size, CompressBlocks)
    ELSE ImageBlock(BytesOf(SourcesOf(c)), fragments[FlushedBlock(c)].size, CompressFragments)

\* A writable chunk has that block in memory, and a finished one on disk, at the
\* place its inode or the fragment table will name.
WrittenContent(c) ==
    /\ state[c] = ChunkWritable => [ImageBlockOf(c) EXCEPT !.offset = -1] = Compressed(c)
    /\ state[c] = ChunkFinished =>
          \E i \in DOMAIN disk :
              /\ disk[i] = [Compressed(c) EXCEPT !.offset = disk[i].offset]
              /\ ImageBlockOf(c) = [disk[i] EXCEPT !.content = <<>>]
ContentInv == \A c \in Ids : WritesBlock(c) => WrittenContent(c)

\* The end of what has been written.
DiskEnd == IF disk = <<>> THEN DataStart ELSE LastOf(disk).offset + LastOf(disk).size

\* Blocks lie one behind the other from DataStart on.
DiskShape ==
    \A i \in DOMAIN disk :
        /\ disk[i].size > 0 /\ disk[i].offset >= DataStart
        /\ disk[i].offset = IF i = 1 THEN DataStart ELSE disk[i - 1].offset + disk[i - 1].size

\* A writer has reserved exactly its block behind the others; without a writer more
\* is reserved only if a write has failed, and then the chunk is in no queue, and no
\* other can be written.
PlaceInv ==
    /\ DiskShape
    /\ \A t \in Threads : pc[t] = "write" =>
          /\ ImageBlockOf(cur[t]).offset = DiskEnd
          /\ size = DiskEnd + ImageBlockOf(cur[t]).size
    /\ (\A t \in Threads : pc[t] # "write") /\ size # DiskEnd =>
          /\ imgState # "building"
          /\ finished < count /\ state[finished + 1] = ChunkWritable
          /\ finished + 1 \notin Elems(workq["write"])

-----------------------------------------------------------------------------
(* The end of the pipeline.                                                *)

\* The pipeline is aborted only by an error; without one nobody leaves it before the
\* closing piece is finished.
EndInv ==
    /\ aborted => imgState # "building"
    /\ \A t \in Threads : pc[t] \in DOMAIN AfterAbort \cup {"failed"} => imgState # "building"
    /\ ~mayAdd /\ ~aborted => lastPiece # 0 /\ IsClosing(lastPiece)
    /\ pc[Main] = "finished" /\ imgState = "building" => finished = count /\ ~mayAdd

\* All of it; IInv is proved first.
DataInv ==
    /\ ListInv /\ AssignOrder /\ LayoutInv /\ FlushInv
    /\ CachedInv /\ ContentInv /\ PlaceInv /\ EndInv

\* The block of a file that has been written last ends where the image ends, and
\* blocks that were submitted one after the other lie one behind the other.
AdjacentInv ==
    \A c \in Ids : IsBlock(c) /\ state[c] = ChunkFinished =>
        /\ c = finished => dst[c].offset + dst[c].size = DiskEnd
        /\ c > 1 /\ IsBlock(c - 1) => dst[c].offset = dst[c - 1].offset + dst[c - 1].size

-----------------------------------------------------------------------------
(* The refinement of OrderedImage.                                         *)

\* The open fragment block as of the last finished chunk: the front of a block that
\* may have got further pieces since.
FinishedPieces == {c \in 1 .. finished : ~IsBlock(c)}
LastFinishedPiece == CHOOSE c \in FinishedPieces : \A d \in FinishedPieces : d <= c
NothingOpen == FinishedPieces = {} \/ IsClosing(LastFinishedPiece)
OpenBlock == fragments[fragOf[LastFinishedPiece]].pieces
OpenLength == CHOOSE i \in DOMAIN OpenBlock : OpenBlock[i] = LastFinishedPiece

Submitted == [i \in 1 .. count |-> desc[i]]
OpenPieces == IF NothingOpen THEN <<>> ELSE SubSeq(OpenBlock, 1, OpenLength)
OpenFill == IF NothingOpen THEN 0 ELSE offsetOf[LastFinishedPiece] + desc[LastFinishedPiece].size

Sequential == INSTANCE OrderedImage WITH
    chunks <- Submitted, written <- finished, open <- OpenPieces, fill <- OpenFill, log <- disk

\* The image written by any number of threads, in any interleaving, is the image
\* a single thread writes from the same submissions.
SameAsSequential == Sequential!Spec
=============================================================================

---------------------------- MODULE OrderedImage ----------------------------
(***************************************************************************)
(* What the bulk-data pipeline promises: the image is the one a single     *)
(* thread would produce that takes the chunks in the order of their        *)
(* submission.  A full block is appended to the image; a fragment piece    *)
(* joins the open fragment block, which is appended to the image first if  *)
(* the piece would overflow it; the closing piece appends what is left.    *)
(*                                                                         *)
(* The image depends on the submissions only, so two runs with the same    *)
(* input produce the same image.                                           *)
(***************************************************************************)
EXTENDS Integers, Sequences, ImageBlocks

CONSTANTS Submissions, BlockSize, DataStart, CompressBlocks, CompressFragments

VARIABLES
    chunks,     \* the submitted chunks
    written,    \* how many of them are dealt with
    open,       \* the pieces in the open fragment block
    fill,       \* the size of the open fragment block
    log         \* the blocks written, in order

vars == <<chunks, written, open, fill, log>>

Closing == [kind |-> "closing", size |-> 0, data |-> ""]

Init == chunks = <<>> /\ written = 0 /\ open = <<>> /\ fill = 0 /\ log = <<>>

Submit(d) ==
    /\ \A i \in DOMAIN chunks : chunks[i] # Closing
    /\ chunks' = Append(chunks, d)
    /\ UNCHANGED <<written, open, fill, log>>

\* The end of what has been written.
End == IF log = <<>> THEN DataStart ELSE log[Len(log)].offset + log[Len(log)].size

\* The log with one more block, holding the given chunks.
Stored(cs, n, compress) ==
    Append(log, [ImageBlock([i \in DOMAIN cs |-> chunks[cs[i]].data], n, compress)
                 EXCEPT !.offset = End])

WriteBlock ==
    LET n == written + 1 IN
    /\ written < Len(chunks)
    /\ chunks[n].kind = "block"
    /\ log' = Stored(<<n>>, chunks[n].size, CompressBlocks)
    /\ UNCHANGED <<open, fill>>

AddPiece ==
    LET n == written + 1 IN
    /\ written < Len(chunks)
    /\ chunks[n].kind = "piece"
    /\ fill + chunks[n].size <= BlockSize
    /\ open' = Append(open, n)
    /\ fill' = fill + chunks[n].size
    /\ UNCHANGED log

FlushAndAddPiece ==
    LET n == written + 1 IN
    /\ written < Len(chunks)
    /\ chunks[n].kind = "piece"
    /\ fill + chunks[n].size > BlockSize
    /\ log' = Stored(open, fill, CompressFragments)
    /\ open' = <<n>>
    /\ fill' = chunks[n].size

Close ==
    /\ written < Len(chunks)
    /\ chunks[written + 1] = Closing
    /\ log' = IF open = <<>> THEN log ELSE Stored(open, fill, CompressFragments)
    /\ open' = <<>>
    /\ fill' = 0

Write ==
    /\ WriteBlock \/ AddPiece \/ FlushAndAddPiece \/ Close
    /\ written' = written + 1
    /\ UNCHANGED chunks

Next == (\E d \in Submissions \cup {Closing} : Submit(d)) \/ Write

Spec == Init /\ [][Next]_vars
=============================================================================

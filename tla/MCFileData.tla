----------------------------- MODULE MCFileData -----------------------------
(* Constants for model checking FileData. *)
EXTENDS FileData

Piece(d, o, s) == [data |-> d, offset |-> o, size |-> s]

\* A file, a buffer, and compounds: pieces larger and smaller than a block, an
\* empty piece, a piece that begins inside its data, the same data twice.
MCSources ==
    {[kind |-> "file"], [kind |-> "memory"],
     [kind |-> "compound", pieces |-> <<Piece("memory", 1, 3), Piece("file", 0, 1)>>],
     [kind |-> "compound", pieces |-> <<Piece("file", 1, 1), Piece("memory", 0, 0),
                                        Piece("memory", 0, 2), Piece("file", 0, 2)>>],
     [kind |-> "compound", pieces |-> <<Piece("file", 2, 1), Piece("file", 0, 1)>>],
     [kind |-> "compound", pieces |-> <<>>]}
=============================================================================

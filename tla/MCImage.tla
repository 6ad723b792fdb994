------------------------------- MODULE MCImage -------------------------------
(***************************************************************************)
(* Small instances of Image for TLC.                                       *)
(***************************************************************************)
EXTENDS Image

\* One full block and one piece; both compress to one unit.
MCBlock == [kind |-> "block", size |-> 2, data |-> "z"]
MCPiece == [kind |-> "piece", size |-> 1, data |-> "z"]
MCSubmissions == {MCBlock, MCPiece}
MCCompressedSize(content, n) == IF n > 1 THEN 1 ELSE -1

\* Tables of different sizes; an index is as large as one entry.
MCPartSize == [p \in {"inode", "dir", "frag", "frag_index", "export", "export_index", "id",
                      "id_index", "xattr", "xattr_desc", "xattr_header", "xattr_index"} |->
                 CASE p = "inode" -> 3 [] p = "dir" -> 2 [] OTHER -> 1]
=============================================================================

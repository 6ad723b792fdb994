----------------------------- MODULE ImageBlocks -----------------------------
(***************************************************************************)
(* libsqfs_image_block: a block of bulk data as it is stored in the image, *)
(* and what the compressor makes of a content.  A content is the sequence  *)
(* of the data items whose bytes are concatenated in the block.            *)
(***************************************************************************)
EXTENDS Integers, Sequences

CONSTANT CompressedSize(_,_)    \* the size a content of a given size compresses to

\* libsqfs_image_block_init; content <<>> stands for data == NULL.
NoImageBlock == [offset |-> -1, size |-> 0, compressed |-> FALSE, content |-> <<>>]

\* libsqfs_compressor_instance_compress: the output fits a buffer of the size of
\* the input, or the result is -1.
CompressorInstanceCompress(content, n) ==
    LET r == CompressedSize(content, n) IN IF r \in 1 .. n THEN r ELSE -1

\* libsqfs_image_block_compress and libsqfs_image_block_uncompressed: a content
\* that does not compress is stored as it is.
ImageBlock(content, n, compress) ==
    LET r == IF compress THEN CompressorInstanceCompress(content, n) ELSE -1
    IN [offset |-> -1, size |-> IF r = -1 THEN n ELSE r,
        compressed |-> r # -1, content |-> content]
=============================================================================

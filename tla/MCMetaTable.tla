----------------------------- MODULE MCMetaTable -----------------------------
(* Constants for model checking MetaTable. *)
EXTENDS MetaTable

\* Does not fit; compresses to one byte; fits without getting smaller.
MCCompressResults == {-1, 1, 3}
=============================================================================

----------------------------- MODULE MCInodeTree -----------------------------
(***************************************************************************)
(* Small trees for TLC.                                                    *)
(***************************************************************************)
EXTENDS InodeTree

MCMakes == {[kind |-> "dir", xattr |-> FALSE], [kind |-> "file", xattr |-> FALSE],
            [kind |-> "symlink", xattr |-> TRUE]}
MCNames == 1 .. 2
MCNameLength == [n \in MCNames |-> 2 * n - 1]
=============================================================================

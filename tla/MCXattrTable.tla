---------------------------- MODULE MCXattrTable ----------------------------
(* Constants for model checking XattrTable. *)
EXTENDS XattrTable

MCXattrOwners == {"o1", "o2"}

\* One attribute shorter than a block, one that spans two; a domain that has no code.
MCAttributes == {[prefix |-> "user", name |-> "a", size |-> 3],
                 [prefix |-> "security", name |-> "a", size |-> 5],
                 [prefix |-> "system", name |-> "b", size |-> 1]}
=============================================================================

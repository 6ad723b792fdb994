------------------------------ MODULE MCIdTable ------------------------------
(* Constants for model checking IdTable. *)
EXTENDS IdTable

MCOwners == {"o1", "o2", "o3", "o4"}
=============================================================================

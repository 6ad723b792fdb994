------------------------------- MODULE IdTable -------------------------------
(***************************************************************************)
(* libsqfs_idtable (idtable.c) and its one user,                           *)
(* libsqfs_inodeattr_create_simple (inodes.c): user and group ids of 32    *)
(* bits are stored once, and an inode names them by their index, which it  *)
(* keeps in a field of 16 bits.  IdRange is the number of values of that   *)
(* field (2^16 in the code).                                               *)
(***************************************************************************)
EXTENDS Integers, Sequences

CONSTANTS
    IdRange,    \* values of mapped_uid and mapped_gid
    Owners,     \* the user and group ids files may have
    MaxAttrs,   \* bound: attributes created
    Faults      \* whether "alloc" may fail

ASSUME IdRangePositive == IdRange \in Nat \ {0}
ASSUME MaxAttrsNat == MaxAttrs \in Nat

VARIABLES
    ids,        \* idtable->ids
    attrs,      \* the attributes created: [uid, gid, mapped_uid, mapped_gid]
    error       \* image->error_msg is set

idVars == <<ids, attrs, error>>

Init == ids = <<>> /\ attrs = <<>> /\ error = FALSE

\* The first index of an id in a table, -1 if there is none.
Find(tab, id) ==
    IF \E n \in DOMAIN tab : tab[n] = id
    THEN (CHOOSE n \in DOMAIN tab : tab[n] = id /\ \A m \in 1 .. n - 1 : tab[m] # id) - 1
    ELSE -1

\* mutant: the index returned is that of the entry after the new one
IdtableMap_Past(tab, id, ok) ==
    IF Find(tab, id) # -1 THEN [tab |-> tab, ret |-> Find(tab, id)]
    ELSE IF ok THEN [tab |-> Append(tab, id), ret |-> Len(tab) + 1]
    ELSE [tab |-> tab, ret |-> -1]

\* libsqfs_idtable_map: the new table and the result; ok: realloc succeeds.
IdtableMap(tab, id, ok) ==
    IF Find(tab, id) # -1 THEN [tab |-> tab, ret |-> Find(tab, id)]
    ELSE IF ok THEN [tab |-> Append(tab, id), ret |-> Len(tab)]
    ELSE [tab |-> tab, ret |-> -1]

\* The assignment of an int to a field of 16 bits.
ToField(n) == n % IdRange

\* What the comparison of that field with -1 yields: the field is promoted to an
\* int that is not negative.
IsMinusOne(field) == field = -1

\* libsqfs_inodeattr_create_simple.
CreateSimple(uid, gid, okUid, okGid) ==
    LET u == IdtableMap(ids, uid, okUid)
        g == IdtableMap(u.tab, gid, okGid)
        attr == [uid |-> uid, gid |-> gid,
                 mapped_uid |-> ToField(u.ret), mapped_gid |-> ToField(g.ret)]
    IN /\ Len(attrs) < MaxAttrs
       /\ ids' = g.tab
       /\ IF IsMinusOne(attr.mapped_uid) \/ IsMinusOne(attr.mapped_gid)
          THEN error' = TRUE /\ UNCHANGED attrs
          ELSE attrs' = Append(attrs, attr) /\ UNCHANGED error

ReallocResults == IF "alloc" \in Faults THEN BOOLEAN ELSE {TRUE}

Next == \E uid, gid \in Owners : \E a, b \in ReallocResults : CreateSimple(uid, gid, a, b)

Spec == Init /\ [][Next]_idVars

-----------------------------------------------------------------------------
(* Properties.                                                             *)

\* Types of the variables of the id table.
IdTypeOK ==
    /\ ids \in Seq(Owners)
    /\ attrs \in Seq([uid : Owners, gid : Owners,
                      mapped_uid : 0 .. IdRange - 1, mapped_gid : 0 .. IdRange - 1])
    /\ error \in BOOLEAN

\* The entry of the table a mapped id names.
EntryOf(field) == IF field + 1 \in DOMAIN ids THEN ids[field + 1] ELSE "none"

\* An attribute handed to the application, and so every inode with it, names the
\* owner it was created with, also after the table has grown; what cannot be mapped
\* is refused ("returns 16-bit mapped id, or -1 on mapping failure").
OwnersKept ==
    \A i \in DOMAIN attrs :
        /\ EntryOf(attrs[i].mapped_uid) = attrs[i].uid
        /\ EntryOf(attrs[i].mapped_gid) = attrs[i].gid

\* As long as no more owners have come than the field has values, and memory does
\* not run out, it does so: an index handed out stays the owner's when the table
\* grows, and no owner is taken for another.
OwnersKeptInRange == Len(ids) <= IdRange /\ "alloc" \notin Faults => OwnersKept
=============================================================================

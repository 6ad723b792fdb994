------------------------------ MODULE MCMkSqfs ------------------------------
(***************************************************************************)
(* Command lines for TLC: every source of up to three files and some of    *)
(* seven with zlib and all the memory there is, and one source with        *)
(* options and failing calls.                                              *)
(***************************************************************************)
EXTENDS MkSqfs

MCMakes == [kind : Kinds, xattr : BOOLEAN]
MCNames == 1 .. 5
MCNameLength == [n \in MCNames |-> 1 + 2 * ((n - 1) % 3)]

Node(parent_, name, k, dev, ino, xs, len) ==
    [parent |-> parent_, name |-> name, kind |-> k, dev |-> dev, ino |-> ino,
     xattrs |-> xs, target |-> len]

\* Regular files of two file systems; with two buckets <<1, 1>> and <<3, 1>> collide.
RegularFiles == {<<"file", 1, 1, "none", 0>>, <<"file", 1, 2, "none", 0>>, <<"file", 3, 1, "none", 0>>}
OtherFiles ==
    {<<"dir", 1, 7, "none", 0>>, <<"symlink", 1, 8, "none", 2>>, <<"symlink", 1, 8, "none", 4>>,
     <<"device", 1, 9, "known", 0>>, <<"socket", 1, 9, "none", 0>>, <<"fifo", 1, 9, "foreign", 0>>}

Nodes(n) ==
    {Node(p, name, f[1], f[2], f[3], f[4], f[5]) :
        p \in 0 .. n - 1, name \in 1 .. n, f \in RegularFiles \cup OtherFiles}

\* The names of a directory count from 1, in the order of the sequence.
WellFormed(s) ==
    \A n \in DOMAIN s :
        /\ s[n].parent # 0 => s[s[n].parent].kind = "dir"
        /\ s[n].name = 1 + Cardinality({m \in 1 .. n - 1 : s[m].parent = s[n].parent})

MCSources ==
    {<<>>} \cup {s \in {<<a>> : a \in Nodes(1)} : WellFormed(s)}
           \cup {s \in {<<a, b>> : a \in Nodes(1), b \in Nodes(2)} : WellFormed(s)}
           \cup {s \in {<<a, b, c>> : a \in Nodes(1), b \in Nodes(2), c \in Nodes(3)} : WellFormed(s)}

\* For the index of a directory: five entries behind a listing of two.
LargeSource(fs) ==
    <<Node(0, 1, "dir", 1, 7, "none", 0), Node(1, 1, "file", 1, 1, "none", 0),
      Node(1, 2, "device", 1, 9, "known", 0)>>
    \o [k \in 1 .. 4 |-> Node(0, k + 1, fs[k][1], fs[k][2], fs[k][3], fs[k][4], fs[k][5])]
LargeSources ==
    {LargeSource(fs) : fs \in [1 .. 4 -> {<<"file", 1, 1, "none", 0>>, <<"file", 1, 2, "none", 0>>,
                                          <<"symlink", 1, 8, "none", 2>>}]}

OneSource == <<Node(0, 1, "dir", 1, 7, "none", 0), Node(1, 1, "file", 1, 1, "none", 0)>>

MCRuns ==
    {[compressors |-> <<>>, args |-> TRUE, source |-> s, failAt |-> 0] : s \in MCSources \cup LargeSources}
    \cup {[compressors |-> cs, args |-> a, source |-> OneSource, failAt |-> n] :
             cs \in {<<>>, <<"null">>, <<"xz">>, <<"zlib", "lzma">>, <<"zstd", "gzip">>},
             a \in BOOLEAN, n \in 0 .. 18}
=============================================================================

-------------------------- MODULE XattrTableProofs --------------------------
(***************************************************************************)
(* Owners and extended attributes: whoever reads an inode finds what it    *)
(* was created with.                                                       *)
(*                                                                         *)
(* Owners (IdTable): the field of an attribute is the index of an entry    *)
(* with its owner, reduced to the range of the field; entries are appended *)
(* and never move.  Extended attributes (XattrTable): a table is a stream  *)
(* of bytes cut into blocks, of which what is finished never changes; the  *)
(* descriptor of a set stands at the place its number says, and names the  *)
(* place where its data begin.                                             *)
(***************************************************************************)
EXTENDS XattrTable, WellFoundedInduction, TLAPS

-----------------------------------------------------------------------------
(* Owners.                                                                 *)

AttrRecords == [uid : Owners, gid : Owners,
                mapped_uid : 0 .. IdRange - 1, mapped_gid : 0 .. IdRange - 1]

\* A field refers to an entry with the owner, or to one IdRange further on.
Refers(field, owner) == \E n \in DOMAIN ids : ids[n] = owner /\ field = (n - 1) % IdRange

\* The fields of all attributes refer to their owners.
AttrsRefer ==
    \A i \in DOMAIN attrs : /\ Refers(attrs[i].mapped_uid, attrs[i].uid)
                            /\ Refers(attrs[i].mapped_gid, attrs[i].gid)

\* They do unless memory runs out; all variables have their types.
IdInv == IdTypeOK /\ ("alloc" \notin Faults => AttrsRefer)

\* A set of numbers has a least element.
LEMMA LeastElement ==
    ASSUME NEW T \in SUBSET Nat, T # {}
    PROVE  \E x \in T : \A y \in T : x <= y
<1> DEFINE R == {ss \in Nat \X Nat : ss[1] < ss[2]}
<1>1. IsWellFoundedOn(R, Nat)
  BY NatLessThanWellFounded, Zenon DEF OpToRel
<1> HIDE DEF R
<1>2. PICK x \in T : \A y \in T : ~(<<y, x>> \in R)
  BY <1>1, WFMin, Zenon
<1>3. \A y \in T : ~(y < x)
  <2> SUFFICES ASSUME NEW y \in T, y < x PROVE FALSE
    OBVIOUS
  <2>1. <<y, x>> \in R
    BY DEF R
  <2> QED BY <1>2, <2>1
<1> QED BY <1>3

\* Find (libsqfs_idtable_map) returns -1 or the index of the id, counted from 0.
LEMMA FindIsIndex ==
    ASSUME NEW tab \in Seq(Owners), NEW id, \E n \in DOMAIN tab : tab[n] = id
    PROVE  /\ Find(tab, id) \in Nat
           /\ Find(tab, id) + 1 \in DOMAIN tab /\ tab[Find(tab, id) + 1] = id
<1> DEFINE T == {n \in DOMAIN tab : tab[n] = id}
<1>1. T \in SUBSET Nat /\ T # {}
  OBVIOUS
<1>2. PICK x \in T : \A y \in T : x <= y
  BY <1>1, LeastElement
<1> DEFINE First(n) == tab[n] = id /\ \A m \in 1 .. n - 1 : tab[m] # id
<1>3. x \in DOMAIN tab /\ First(x)
  BY <1>2
<1>4. PICK n \in DOMAIN tab : n = (CHOOSE k \in DOMAIN tab : First(k)) /\ First(n)
  BY <1>3
<1> QED BY <1>4 DEF Find

\* The field of a number that is in range.
LEMMA FieldInRange ==
    ASSUME NEW n \in Int
    PROVE  ToField(n) \in 0 .. IdRange - 1
BY IdRangePositive DEF ToField

\* libsqfs_idtable_map appends at most one entry; unless memory runs out, its result
\* is the index of an entry with the id.
LEMMA MapResult ==
    ASSUME NEW tab \in Seq(Owners), NEW id \in Owners, NEW ok \in BOOLEAN
    PROVE  /\ IdtableMap(tab, id, ok).tab \in Seq(Owners)
           /\ IdtableMap(tab, id, ok).ret \in Int
           /\ \A n \in DOMAIN tab : /\ n \in DOMAIN IdtableMap(tab, id, ok).tab
                                    /\ IdtableMap(tab, id, ok).tab[n] = tab[n]
           /\ ok => /\ IdtableMap(tab, id, ok).ret + 1 \in DOMAIN IdtableMap(tab, id, ok).tab
                    /\ IdtableMap(tab, id, ok).tab[IdtableMap(tab, id, ok).ret + 1] = id
<1>1. CASE \E n \in DOMAIN tab : tab[n] = id
  <2>1. /\ Find(tab, id) \in Nat
        /\ Find(tab, id) + 1 \in DOMAIN tab /\ tab[Find(tab, id) + 1] = id
    BY <1>1, FindIsIndex
  <2>2. IdtableMap(tab, id, ok) = [tab |-> tab, ret |-> Find(tab, id)]
    BY <2>1 DEF IdtableMap
  <2> QED BY <2>1, <2>2
<1>2. CASE ~\E n \in DOMAIN tab : tab[n] = id
  <2>1. Find(tab, id) = -1
    BY <1>2 DEF Find
  <2>2. CASE ok
    <3>1. IdtableMap(tab, id, ok) = [tab |-> Append(tab, id), ret |-> Len(tab)]
      BY <2>1, <2>2 DEF IdtableMap
    <3> QED BY <3>1
  <2>3. CASE ~ok
    <3>1. IdtableMap(tab, id, ok) = [tab |-> tab, ret |-> -1]
      BY <2>1, <2>3 DEF IdtableMap
    <3> QED BY <3>1, <2>3
  <2> QED BY <2>2, <2>3
<1> QED BY <1>1, <1>2

\* A field made from the result of a mapping refers to its owner in the table that
\* results, and in every later one that begins with it.
LEMMA MappedRefers ==
    ASSUME NEW tab \in Seq(Owners), NEW id \in Owners, NEW ext,
           \A n \in DOMAIN IdtableMap(tab, id, TRUE).tab :
               n \in DOMAIN ext /\ ext[n] = IdtableMap(tab, id, TRUE).tab[n]
    PROVE  \E n \in DOMAIN ext :
               ext[n] = id /\ ToField(IdtableMap(tab, id, TRUE).ret) = (n - 1) % IdRange
<1> DEFINE r == IdtableMap(tab, id, TRUE)
<1>1. r.ret \in Int /\ r.ret + 1 \in DOMAIN r.tab /\ r.tab[r.ret + 1] = id
  BY MapResult
<1> HIDE DEF r
<1>2. (r.ret + 1) - 1 = r.ret
  BY <1>1
<1>3. ToField(r.ret) = ((r.ret + 1) - 1) % IdRange
  BY <1>2 DEF ToField
<1>4. r.ret + 1 \in DOMAIN ext /\ ext[r.ret + 1] = id
  BY <1>1 DEF r
<1> QED BY <1>3, <1>4 DEF r

\* A call of libsqfs_inodeattr_create_simple: what was handed out refers to the same
\* entries, and the new attribute to entries of the new table.
LEMMA CreateStep ==
    ASSUME IdTypeOK, NEW uid \in Owners, NEW gid \in Owners,
           NEW okUid \in BOOLEAN, NEW okGid \in BOOLEAN,
           CreateSimple(uid, gid, okUid, okGid)
    PROVE  /\ IdTypeOK'
           /\ \E attr \in AttrRecords : attrs' = Append(attrs, attr)
           /\ okUid = TRUE /\ okGid = TRUE /\ AttrsRefer => AttrsRefer'
<1> DEFINE u == IdtableMap(ids, uid, okUid)
           g == IdtableMap(u.tab, gid, okGid)
           attr == [uid |-> uid, gid |-> gid,
                    mapped_uid |-> ToField(u.ret), mapped_gid |-> ToField(g.ret)]
<1>1. ids \in Seq(Owners)
  BY DEF IdTypeOK
<1>2. /\ u.tab \in Seq(Owners) /\ u.ret \in Int
      /\ \A n \in DOMAIN ids : n \in DOMAIN u.tab /\ u.tab[n] = ids[n]
  BY <1>1, MapResult
<1>3. /\ g.tab \in Seq(Owners) /\ g.ret \in Int
      /\ \A n \in DOMAIN u.tab : n \in DOMAIN g.tab /\ g.tab[n] = u.tab[n]
  BY <1>2, MapResult
<1>4. ids' = g.tab
  BY DEF CreateSimple
<1>5. /\ attr.mapped_uid \in 0 .. IdRange - 1
      /\ attr.mapped_gid \in 0 .. IdRange - 1
  BY <1>2, <1>3, FieldInRange
<1>6. attrs' = Append(attrs, attr) /\ UNCHANGED error
  <2>1. ~IsMinusOne(attr.mapped_uid) /\ ~IsMinusOne(attr.mapped_gid)
    BY <1>5, IdRangePositive DEF IsMinusOne
  <2> QED BY <2>1 DEF CreateSimple
<1>7. ASSUME okUid = TRUE, okGid = TRUE
      PROVE  /\ \E n \in DOMAIN ids' : ids'[n] = uid /\ attr.mapped_uid = (n - 1) % IdRange
             /\ \E n \in DOMAIN ids' : ids'[n] = gid /\ attr.mapped_gid = (n - 1) % IdRange
  <2> DEFINE uT == IdtableMap(ids, uid, TRUE)
             gT == IdtableMap(u.tab, gid, TRUE)
  <2>2. u = uT /\ g = gT
    BY <1>7
  <2> HIDE DEF u, g
  <2>3. \A n \in DOMAIN uT.tab : n \in DOMAIN g.tab /\ g.tab[n] = uT.tab[n]
    BY <1>3, <2>2
  <2>4. \A n \in DOMAIN gT.tab : n \in DOMAIN g.tab /\ g.tab[n] = gT.tab[n]
    BY <2>2
  <2>5. \E n \in DOMAIN g.tab : g.tab[n] = uid /\ ToField(uT.ret) = (n - 1) % IdRange
    BY <1>1, <2>3, MappedRefers
  <2>6. \E n \in DOMAIN g.tab : g.tab[n] = gid /\ ToField(gT.ret) = (n - 1) % IdRange
    BY <1>2, <2>4, MappedRefers
  <2>7. attr.mapped_uid = ToField(uT.ret) /\ attr.mapped_gid = ToField(gT.ret)
    BY <2>2
  <2> HIDE DEF attr, uT, gT
  <2> QED BY <1>4, <2>5, <2>6, <2>7
<1>10. attr.uid = uid /\ attr.gid = gid /\ attr \in AttrRecords
  BY <1>5 DEF AttrRecords
<1> HIDE DEF u, g, attr
<1>0. attrs \in Seq(AttrRecords) /\ error \in BOOLEAN
  BY DEF IdTypeOK, AttrRecords
<1>8. IdTypeOK'
  <2>3. attrs' \in Seq(AttrRecords)
    BY <1>0, <1>6, <1>10
  <2> QED BY <1>0, <1>3, <1>4, <1>6, <2>3 DEF IdTypeOK, AttrRecords
<1>9. ASSUME okUid = TRUE, okGid = TRUE, AttrsRefer, NEW i \in DOMAIN attrs'
      PROVE  /\ Refers(attrs[i].mapped_uid, attrs[i].uid)'
             /\ Refers(attrs[i].mapped_gid, attrs[i].gid)'
  <2>1. \A n \in DOMAIN ids : n \in DOMAIN ids' /\ ids'[n] = ids[n]
    BY <1>1, <1>2, <1>3, <1>4
  <2>2. CASE i \in DOMAIN attrs
    <3>1. attrs'[i] = attrs[i]
      BY <1>0, <1>6, <2>2
    <3>2. Refers(attrs[i].mapped_uid, attrs[i].uid) /\ Refers(attrs[i].mapped_gid, attrs[i].gid)
      BY <1>9, <2>2 DEF AttrsRefer
    <3> QED BY <2>1, <3>1, <3>2 DEF Refers
  <2>3. CASE i \notin DOMAIN attrs
    <3>1. attrs'[i] = attr
      BY <1>0, <1>6, <1>9, <2>3
    <3> QED BY <1>7, <1>9, <1>10, <3>1 DEF Refers
  <2> QED BY <2>2, <2>3
<1> QED BY <1>6, <1>8, <1>9, <1>10 DEF AttrsRefer

LEMMA InitIds == Init => IdTypeOK /\ AttrsRefer
<1> SUFFICES ASSUME Init PROVE IdTypeOK /\ AttrsRefer
  OBVIOUS
<1>1. ids = <<>> /\ attrs = <<>> /\ error = FALSE
  BY DEF Init
<1>2. ids \in Seq(Owners) /\ attrs \in Seq(AttrRecords)
  BY <1>1
<1>3. DOMAIN attrs = {}
  BY <1>1
<1> QED BY <1>1, <1>2, <1>3 DEF IdTypeOK, AttrsRefer, AttrRecords

\* The invariant of the id table holds for any range, any owners and any faults.
THEOREM IdTableInvariant == Spec => []IdInv
<1>1. Init => IdInv
  BY InitIds DEF IdInv
<1>2. IdInv /\ [Next]_idVars => IdInv'
  <2> SUFFICES ASSUME IdInv, [Next]_idVars PROVE IdInv'
    OBVIOUS
  <2>1. CASE Next
    <3>1. PICK uid \in Owners, gid \in Owners, a \in ReallocResults, b \in ReallocResults :
              CreateSimple(uid, gid, a, b)
      BY <2>1 DEF Next
    <3>2. a \in BOOLEAN /\ b \in BOOLEAN /\ ("alloc" \notin Faults => a = TRUE /\ b = TRUE)
      BY DEF ReallocResults
    <3> QED BY <3>1, <3>2, CreateStep DEF IdInv
  <2>2. CASE UNCHANGED idVars
    BY <2>2 DEF IdInv, IdTypeOK, AttrsRefer, Refers, idVars
  <2> QED BY <2>1, <2>2
<1> QED BY <1>1, <1>2, PTL DEF Spec

\* In a table within the range, a field that refers to an owner names it.
LEMMA ReferredEntry ==
    ASSUME ids \in Seq(Owners), Len(ids) <= IdRange, NEW field, NEW owner, Refers(field, owner)
    PROVE  field + 1 \in DOMAIN ids /\ ids[field + 1] = owner
<1>1. PICK n \in DOMAIN ids : ids[n] = owner /\ field = (n - 1) % IdRange
  BY DEF Refers
<1>2. n \in 1 .. IdRange
  BY IdRangePositive
<1>3. field = n - 1
  BY <1>1, <1>2, IdRangePositive
<1> QED BY <1>1, <1>2, <1>3

LEMMA ReferredOwners == IdTypeOK /\ AttrsRefer /\ Len(ids) <= IdRange => OwnersKept
BY ReferredEntry DEF IdTypeOK, AttrsRefer, OwnersKept, EntryOf

\* Up to IdRange different owners, every attribute names the owners it was created
\* with, unless memory runs out (libsqfs_inodeattr_create_simple).
THEOREM OwnersAreKept == Spec => []OwnersKeptInRange
<1>1. IdInv => OwnersKeptInRange
  BY ReferredOwners DEF IdInv, OwnersKeptInRange
<1> QED BY <1>1, IdTableInvariant, PTL

-----------------------------------------------------------------------------
(* Metatables.  Blocks end one behind the other, none is longer than it    *)
(* may be, and the open one is shorter.                                    *)

Ends(tab) == 0 .. Len(tab.ends)

TableOK(tab, B) ==
    /\ tab \in [bytes : Seq(B), ends : Seq(Nat)]
    /\ \A j, k \in Ends(tab) : j < k => EndOf(tab, j) < EndOf(tab, k)
    /\ \A k \in Ends(tab) : EndOf(tab, k) <= k * MetaSize
    /\ LastEnd(tab) <= Len(tab.bytes) /\ Len(tab.bytes) < LastEnd(tab) + MetaSize

\* t is tab with more bytes or more finished blocks; the blocks it had are the same, and
\* a byte that was in the open block or is new is behind them.
Continues(tab, t) ==
    /\ Len(tab.ends) <= Len(t.ends)
    /\ \A k \in Ends(tab) : EndOf(t, k) = EndOf(tab, k)
    /\ Len(tab.bytes) <= Len(t.bytes)
    /\ \A j \in 1 .. Len(tab.bytes) : t.bytes[j] = tab.bytes[j]
    /\ \A k \in Ends(t) : k > Len(tab.ends) => EndOf(t, k) >= Len(tab.bytes)

LEMMA MetaSizePositive ==
    /\ MetaSize \in Nat /\ MetaSize > 0 /\ DescSize \in Nat /\ DescSize > 0
    /\ BlockRange \in Nat /\ BlockRange > 0 /\ MetaSize % DescSize = 0
    /\ ImageStart \in Nat /\ MaxSets \in Nat
BY XattrSizes

LEMMA EndFacts ==
    ASSUME NEW tab, NEW B, TableOK(tab, B)
    PROVE  /\ Len(tab.ends) \in Nat /\ Len(tab.bytes) \in Nat
           /\ EndOf(tab, 0) = 0
           /\ \A k \in Ends(tab) : EndOf(tab, k) \in Nat /\ k \in Nat
           /\ LastEnd(tab) \in Nat /\ Len(tab.ends) \in Ends(tab)
           /\ \A k \in Ends(tab) : EndOf(tab, k) <= LastEnd(tab)
           /\ OpenSize(tab) \in 0 .. MetaSize - 1
<1>1. Len(tab.ends) \in Nat /\ Len(tab.bytes) \in Nat
  BY DEF TableOK
<1>2. \A k \in Ends(tab) : EndOf(tab, k) \in Nat /\ k \in Nat
  <2> SUFFICES ASSUME NEW k \in Ends(tab) PROVE EndOf(tab, k) \in Nat /\ k \in Nat
    OBVIOUS
  <2>1. k # 0 => k \in DOMAIN tab.ends
    BY <1>1 DEF TableOK, Ends
  <2>2. tab.ends \in Seq(Nat)
    BY DEF TableOK
  <2> QED BY <1>1, <2>1, <2>2 DEF EndOf, Ends
<1>3. Len(tab.ends) \in Ends(tab)
  BY <1>1 DEF Ends
<1>4. LastEnd(tab) \in Nat
  BY <1>2, <1>3 DEF LastEnd
<1>5. \A k \in Ends(tab) : EndOf(tab, k) <= LastEnd(tab)
  <2> SUFFICES ASSUME NEW k \in Ends(tab) PROVE EndOf(tab, k) <= LastEnd(tab)
    OBVIOUS
  <2>1. k = Len(tab.ends) \/ k < Len(tab.ends)
    BY <1>1 DEF Ends
  <2> QED BY <1>2, <1>3, <1>4, <2>1 DEF TableOK, LastEnd
<1>6. OpenSize(tab) \in 0 .. MetaSize - 1
  BY <1>1, <1>4, MetaSizePositive DEF TableOK, OpenSize
<1> QED BY <1>1, <1>2, <1>3, <1>4, <1>5, <1>6 DEF EndOf

LEMMA EmptyTableOK ==
    ASSUME NEW B
    PROVE  TableOK(EmptyTable, B)
<1>1. EmptyTable.bytes = <<>> /\ EmptyTable.ends = <<>>
  BY DEF EmptyTable
<1>2. EmptyTable \in [bytes : Seq(B), ends : Seq(Nat)]
  BY DEF EmptyTable
<1>3. Ends(EmptyTable) = {0} /\ LastEnd(EmptyTable) = 0 /\ EndOf(EmptyTable, 0) = 0 /\ Len(EmptyTable.bytes) = 0
  BY <1>1 DEF Ends, LastEnd, EndOf
<1> QED BY <1>2, <1>3, MetaSizePositive DEF TableOK

\* A sequence of numbers that goes on by full blocks.
LEMMA Quotient ==
    ASSUME NEW a \in Nat
    PROVE  /\ a \div MetaSize \in Nat
           /\ (a \div MetaSize) * MetaSize <= a /\ a < (a \div MetaSize) * MetaSize + MetaSize
BY MetaSizePositive

LEMMA Product ==
    ASSUME NEW i \in Nat, NEW j \in Nat
    PROVE  /\ i * MetaSize \in Nat
           /\ i < j => i * MetaSize + MetaSize <= j * MetaSize
           /\ (i + j) * MetaSize = i * MetaSize + j * MetaSize
BY MetaSizePositive

Joined(r, p, q, S) ==
    /\ r \in Seq(S) /\ Len(r) = Len(p) + Len(q)
    /\ \A k \in 1 .. Len(p) : r[k] = p[k]
    /\ \A k \in 1 .. Len(q) : r[Len(p) + k] = q[k]

LEMMA Concatenated ==
    ASSUME NEW S, NEW p \in Seq(S), NEW q \in Seq(S)
    PROVE  Joined(p \o q, p, q, S)
BY DEF Joined

\* The bytes follow those of the table, and full blocks its open one.
Appended(tab, new, t, B) ==
    /\ TableOK(t, B) /\ Continues(tab, t)
    /\ Len(t.bytes) = Len(tab.bytes) + Len(new)
    /\ \A j \in 1 .. Len(new) : t.bytes[Len(tab.bytes) + j] = new[j]
    /\ \A k \in Ends(t) : k > Len(tab.ends) =>
          /\ EndOf(t, k) = LastEnd(tab) + (k - Len(tab.ends)) * MetaSize
          /\ EndOf(t, k) > Len(tab.bytes)

LEMMA AppendTable ==
    ASSUME NEW tab, NEW B, TableOK(tab, B), NEW new \in Seq(B), NEW t, t = MetaAppend(tab, new)
    PROVE  Appended(tab, new, t, B)
<1> DEFINE b == tab.bytes
           e == tab.ends
           n == Len(e)
           L == LastEnd(tab)
           m == (OpenSize(tab) + Len(new)) \div MetaSize
           f == [k \in 1 .. m |-> L + k * MetaSize]
<1>1. b \in Seq(B) /\ e \in Seq(Nat) /\ n \in Nat /\ L \in Nat /\ Len(b) \in Nat /\ Len(new) \in Nat
  BY EndFacts DEF TableOK
<1>2. OpenSize(tab) = Len(b) - L /\ OpenSize(tab) \in 0 .. MetaSize - 1 /\ L <= Len(b) /\ Len(b) < L + MetaSize
  BY EndFacts DEF OpenSize, TableOK
<1>3. /\ m \in Nat /\ m * MetaSize <= Len(b) - L + Len(new)
      /\ Len(b) - L + Len(new) < m * MetaSize + MetaSize
  <2>1. OpenSize(tab) + Len(new) \in Nat
    BY <1>1, <1>2, MetaSizePositive
  <2> QED BY <1>2, <2>1, Quotient
<1>4. t.bytes = b \o new /\ t.ends = e \o f /\ t = [bytes |-> b \o new, ends |-> e \o f]
  BY DEF MetaAppend
<1> HIDE DEF m
<1>5. f \in Seq(Nat) /\ Len(f) = m
  <2>1. ASSUME NEW k \in 1 .. m PROVE L + k * MetaSize \in Nat
    <3>1. k \in Nat
      BY <1>3
    <3>2. k * MetaSize \in Nat
      BY <3>1, Product
    <3> HIDE DEF L
    <3> QED BY <1>1, <3>2
  <2>2. f \in [1 .. m -> Nat]
    BY <2>1
  <2> QED BY <1>3, <2>2
<1>6. \A k \in 1 .. m : f[k] = L + k * MetaSize
  OBVIOUS
<1> HIDE DEF f, L, n
<1>7. /\ t.ends \in Seq(Nat) /\ Len(t.ends) = n + m
      /\ \A k \in 1 .. n : t.ends[k] = e[k]
      /\ \A k \in 1 .. m : t.ends[n + k] = f[k]
  <2>1. e \in Seq(Nat) /\ f \in Seq(Nat) /\ Len(e) = n /\ Len(f) = m /\ t.ends = e \o f
    BY <1>1, <1>4, <1>5 DEF n
  <2> HIDE DEF e
  <2>2. Joined(e \o f, e, f, Nat)
    BY <2>1, Concatenated
  <2>3. Joined(t.ends, e, f, Nat)
    BY <2>1, <2>2
  <2> QED BY <2>1, <2>3 DEF Joined
<1>8. /\ t.bytes \in Seq(B) /\ Len(t.bytes) = Len(b) + Len(new)
      /\ \A j \in 1 .. Len(b) : t.bytes[j] = b[j]
      /\ \A j \in 1 .. Len(new) : t.bytes[Len(b) + j] = new[j]
  BY <1>1, <1>4
<1>9. t \in [bytes : Seq(B), ends : Seq(Nat)]
  BY <1>4, <1>7, <1>8
<1>10. Ends(tab) = 0 .. n /\ Ends(t) = 0 .. n + m
  BY <1>7 DEF Ends, n
<1>11. \A k \in 0 .. n : EndOf(t, k) = EndOf(tab, k)
  BY <1>1, <1>7 DEF EndOf
<1>12. \A k \in 0 .. n + m : k > n => EndOf(t, k) = L + (k - n) * MetaSize
  <2> SUFFICES ASSUME NEW k \in 0 .. n + m, k > n PROVE EndOf(t, k) = L + (k - n) * MetaSize
    OBVIOUS
  <2>1. k - n \in 1 .. m /\ n + (k - n) = k /\ k # 0
    BY <1>1, <1>3
  <2>2. t.ends[n + (k - n)] = f[k - n]
    BY <1>7, <2>1
  <2> QED BY <1>6, <2>1, <2>2 DEF EndOf
<1>13. \A k \in 0 .. n + m : k > n => EndOf(t, k) >= L + MetaSize /\ EndOf(t, k) \in Nat
  <2> SUFFICES ASSUME NEW k \in 0 .. n + m, k > n
               PROVE  EndOf(t, k) >= L + MetaSize /\ EndOf(t, k) \in Nat
    OBVIOUS
  <2>1. k - n \in Nat /\ 0 < k - n
    BY <1>1, <1>3
  <2>2. 0 * MetaSize + MetaSize <= (k - n) * MetaSize /\ (k - n) * MetaSize \in Nat
    BY <2>1, Product
  <2>3. EndOf(t, k) = L + (k - n) * MetaSize
    BY <1>12
  <2> DEFINE x == (k - n) * MetaSize
  <2>4. x \in Nat /\ MetaSize <= x /\ EndOf(t, k) = L + x
    BY <2>2, <2>3, MetaSizePositive
  <2> HIDE DEF x
  <2> QED BY <1>1, <2>4, MetaSizePositive
<1>14. \A k \in 0 .. n : EndOf(tab, k) <= L /\ EndOf(tab, k) \in Nat
  BY <1>10, EndFacts DEF L
<1>15. ASSUME NEW j \in 0 .. n + m, NEW k \in 0 .. n + m, j < k
       PROVE  EndOf(t, j) < EndOf(t, k)
  <2>1. CASE k <= n
    <3>1. j \in 0 .. n /\ k \in 0 .. n
      BY <1>1, <1>3, <1>15, <2>1
    <3>2. EndOf(tab, j) < EndOf(tab, k)
      BY <1>10, <1>15, <3>1 DEF TableOK
    <3> QED BY <1>11, <3>1, <3>2
  <2>2. CASE j <= n /\ n < k
    <3>1. j \in 0 .. n
      BY <1>1, <1>3, <2>2
    <3> QED BY <1>1, <1>11, <1>13, <1>14, <2>2, <3>1, MetaSizePositive
  <2>3. CASE n < j
    <3>1. k > n /\ j - n \in Nat /\ k - n \in Nat /\ j - n < k - n
      BY <1>1, <1>3, <1>15, <2>3
    <3>2. (j - n) * MetaSize + MetaSize <= (k - n) * MetaSize /\ (j - n) * MetaSize \in Nat
          /\ (k - n) * MetaSize \in Nat
      BY <3>1, Product
    <3>3. EndOf(t, j) = L + (j - n) * MetaSize /\ EndOf(t, k) = L + (k - n) * MetaSize
      BY <1>12, <2>3, <3>1
    <3> QED BY <1>1, <3>2, <3>3, MetaSizePositive
  <2> QED BY <1>1, <1>3, <2>1, <2>2, <2>3
<1>16. ASSUME NEW k \in 0 .. n + m PROVE EndOf(t, k) <= k * MetaSize
  <2>1. CASE k <= n
    <3>1. k \in 0 .. n
      BY <1>1, <1>3, <2>1
    <3> QED BY <1>10, <1>11, <3>1 DEF TableOK
  <2>2. CASE k > n
    <3>1. L <= n * MetaSize
      BY <1>1, <1>10 DEF TableOK, L, LastEnd, n
    <3>2. n * MetaSize \in Nat /\ k - n \in Nat /\ n + (k - n) = k
      <4>1. n * MetaSize \in Nat
        BY <1>1, Product
      <4> QED BY <1>1, <1>3, <2>2, <4>1
    <3>3. (n + (k - n)) * MetaSize = n * MetaSize + (k - n) * MetaSize /\ (k - n) * MetaSize \in Nat
      BY <1>1, <3>2, Product
    <3>4. EndOf(t, k) = L + (k - n) * MetaSize
      BY <1>12, <2>2
    <3> QED BY <1>1, <3>1, <3>2, <3>3, <3>4
  <2> QED BY <1>1, <1>3, <2>1, <2>2
<1>17. LastEnd(t) = L + m * MetaSize
  <2>1. CASE m = 0
    <3>1. n + m = n /\ n \in 0 .. n /\ 0 * MetaSize = 0
      BY <1>1, <2>1, MetaSizePositive
    <3>2. LastEnd(t) = EndOf(t, n)
      BY <1>7, <3>1 DEF LastEnd
    <3>3. EndOf(t, n) = EndOf(tab, n)
      BY <1>11, <3>1
    <3>4. EndOf(tab, n) = L
      BY DEF L, LastEnd, n
    <3> QED BY <1>1, <2>1, <3>1, <3>2, <3>3, <3>4
  <2>2. CASE m # 0
    <3>1. n + m \in 0 .. n + m /\ n + m > n /\ (n + m) - n = m
      BY <1>1, <1>3, <2>2
    <3> QED BY <1>7, <1>12, <3>1 DEF LastEnd
  <2> QED BY <2>1, <2>2
<1>18. LastEnd(t) <= Len(t.bytes) /\ Len(t.bytes) < LastEnd(t) + MetaSize
  <2>1. m * MetaSize \in Nat
    BY <1>3, Product
  <2> QED BY <1>1, <1>3, <1>8, <1>17, <2>1, MetaSizePositive
<1>19. TableOK(t, B)
  BY <1>9, <1>10, <1>15, <1>16, <1>18 DEF TableOK
<1>20. \A k \in 0 .. n + m : k > n => EndOf(t, k) > Len(b)
  <2> SUFFICES ASSUME NEW k \in 0 .. n + m, k > n PROVE EndOf(t, k) > Len(b)
    OBVIOUS
  <2>1. EndOf(t, k) >= L + MetaSize /\ EndOf(t, k) \in Nat
    BY <1>13
  <2>2. Len(b) < L + MetaSize
    BY <1>2 DEF L
  <2> QED BY <1>1, <2>1, <2>2, MetaSizePositive
<1>21. Continues(tab, t)
  <2>1. Len(tab.ends) <= Len(t.ends) /\ Len(b) <= Len(t.bytes)
    BY <1>1, <1>3, <1>7, <1>8 DEF n
  <2>2. ASSUME NEW k \in 0 .. n + m, k > n PROVE EndOf(t, k) >= Len(b)
    BY <1>1, <1>13, <1>20, <2>2
  <2> QED BY <1>8, <1>10, <1>11, <2>1, <2>2 DEF Continues, n
<1> QED BY <1>8, <1>10, <1>12, <1>19, <1>20, <1>21 DEF Appended, n, L

\* A flush finishes the open block, if there is one.
LEMMA FlushTable ==
    ASSUME NEW tab, NEW B, TableOK(tab, B), NEW t, t = MetaFlush(tab)
    PROVE  /\ TableOK(t, B) /\ Continues(tab, t)
           /\ t.bytes = tab.bytes /\ LastEnd(t) = Len(t.bytes)
           /\ OpenSize(tab) = 0 => t = tab
<1> DEFINE n == Len(tab.ends)
<1>1. /\ n \in Nat /\ Len(tab.bytes) \in Nat /\ LastEnd(tab) \in Nat /\ n \in Ends(tab)
      /\ \A k \in Ends(tab) : EndOf(tab, k) \in Nat /\ EndOf(tab, k) <= LastEnd(tab)
      /\ OpenSize(tab) \in Nat
  BY EndFacts, MetaSizePositive
<1>2. Ends(tab) = 0 .. n
  BY DEF Ends
<1>3. CASE OpenSize(tab) = 0
  <2>1. t = tab
    BY <1>3 DEF MetaFlush
  <2>2. LastEnd(tab) = Len(tab.bytes)
    BY <1>1, <1>3 DEF OpenSize
  <2>3. Continues(tab, tab)
    BY <1>1, <1>2 DEF Continues
  <2> QED BY <2>1, <2>2, <2>3
<1>4. CASE OpenSize(tab) # 0
  <2>1. t = [tab EXCEPT !.ends = Append(tab.ends, Len(tab.bytes))]
    BY <1>4 DEF MetaFlush
  <2>2. tab \in [bytes : Seq(B), ends : Seq(Nat)]
    BY DEF TableOK
  <2>3. t.bytes = tab.bytes /\ t.ends = Append(tab.ends, Len(tab.bytes)) /\ t \in [bytes : Seq(B), ends : Seq(Nat)]
    <3> DEFINE z == Append(tab.ends, Len(tab.bytes))
    <3>1. z \in Seq(Nat) /\ t = [tab EXCEPT !.ends = z]
      BY <1>1, <2>1, <2>2
    <3> HIDE DEF z
    <3>2. t.bytes = tab.bytes /\ t.ends = z /\ t \in [bytes : Seq(B), ends : Seq(Nat)]
      BY <2>2, <3>1
    <3> QED BY <3>2 DEF z
  <2>4. LastEnd(tab) < Len(tab.bytes)
    BY <1>1, <1>4 DEF OpenSize
  <2>5. /\ Len(t.ends) = n + 1 /\ t.ends[n + 1] = Len(tab.bytes)
        /\ \A k \in 1 .. n : t.ends[k] = tab.ends[k]
    BY <1>1, <2>2, <2>3
  <2>6. \A k \in 0 .. n : EndOf(t, k) = EndOf(tab, k)
    BY <1>1, <2>5 DEF EndOf
  <2>7. EndOf(t, n + 1) = Len(tab.bytes) /\ LastEnd(t) = Len(t.bytes)
    BY <1>1, <2>3, <2>5 DEF EndOf, LastEnd
  <2>8. Ends(t) = 0 .. n + 1
    BY <2>5 DEF Ends
  <2> HIDE DEF n
  <2>9. ASSUME NEW j \in 0 .. n + 1, NEW k \in 0 .. n + 1, j < k
        PROVE  EndOf(t, j) < EndOf(t, k)
    <3>1. j \in 0 .. n
      BY <1>1, <2>9
    <3>2. CASE k \in 0 .. n
      <4>1. EndOf(tab, j) < EndOf(tab, k)
        BY <1>2, <2>9, <3>1, <3>2 DEF TableOK
      <4> QED BY <2>6, <3>1, <3>2, <4>1
    <3>3. CASE k = n + 1
      BY <1>1, <1>2, <2>4, <2>6, <2>7, <3>1, <3>3
    <3> QED BY <1>1, <3>2, <3>3
  <2>10. ASSUME NEW k \in 0 .. n + 1 PROVE EndOf(t, k) <= k * MetaSize
    <3>1. CASE k \in 0 .. n
      BY <1>2, <2>6, <3>1 DEF TableOK
    <3>2. CASE k = n + 1
      <4>1. LastEnd(tab) <= n * MetaSize
        BY <1>1 DEF TableOK, LastEnd, n
      <4>2. n * MetaSize + MetaSize <= (n + 1) * MetaSize /\ n * MetaSize \in Nat /\ (n + 1) * MetaSize \in Nat
        <5>1. n + 1 \in Nat /\ n < n + 1
          BY <1>1
        <5> QED BY <1>1, <5>1, Product
      <4>3. Len(tab.bytes) < LastEnd(tab) + MetaSize
        BY DEF TableOK
      <4> DEFINE x == n * MetaSize
                 y == (n + 1) * MetaSize
      <4>4. x \in Nat /\ y \in Nat /\ x + MetaSize <= y /\ LastEnd(tab) <= x
        BY <4>1, <4>2
      <4>5. EndOf(t, k) = Len(tab.bytes) /\ k * MetaSize = y
        BY <2>7, <3>2
      <4> HIDE DEF x, y
      <4> QED BY <1>1, <4>3, <4>4, <4>5, MetaSizePositive
    <3> QED BY <1>1, <3>1, <3>2
  <2>11. LastEnd(t) <= Len(t.bytes) /\ Len(t.bytes) < LastEnd(t) + MetaSize
    BY <1>1, <2>3, <2>7, MetaSizePositive
  <2>12. TableOK(t, B)
    BY <2>3, <2>8, <2>9, <2>10, <2>11 DEF TableOK
  <2>13. \A k \in 0 .. n + 1 : k > n => EndOf(t, k) >= Len(tab.bytes)
    BY <1>1, <2>7
  <2>14. Continues(tab, t)
    BY <1>1, <1>2, <2>3, <2>5, <2>6, <2>8, <2>13 DEF Continues, n
  <2> QED BY <1>4, <2>3, <2>7, <2>12, <2>14
<1> QED BY <1>3, <1>4

-----------------------------------------------------------------------------
(* Reading.  A reader that begins at the location of a byte of a table and *)
(* follows its blocks gets the bytes of the table, one after the other.    *)

\* Byte q of a table, counted from 0, is in block b.
Within(tab, q, b) ==
    /\ b \in 0 .. Len(tab.ends) - 1
    /\ EndOf(tab, b) <= q /\ q < EndOf(tab, b + 1)

\* The finished blocks of a table are in an image from a place on.
Found(img, tab, base) ==
    \A b \in 0 .. Len(tab.ends) - 1 :
        /\ Len(BlockAt(img, base + SizeOf(tab, b))) = EndOf(tab, b + 1) - EndOf(tab, b)
        /\ \A j \in 1 .. EndOf(tab, b + 1) - EndOf(tab, b) :
              BlockAt(img, base + SizeOf(tab, b))[j] = tab.bytes[EndOf(tab, b) + j]

\* The location of byte q.
LocIn(tab, base, b, q) == [at |-> base + SizeOf(tab, b), pos |-> q - EndOf(tab, b)]
Loc(tab, base, q) == LocIn(tab, base, CHOOSE b : Within(tab, q, b), q)

\* A byte of a finished block is in one of them, and in no other.
LEMMA WithinSome ==
    ASSUME NEW tab, NEW B, TableOK(tab, B), NEW q \in Nat, q < LastEnd(tab)
    PROVE  \E b : Within(tab, q, b)
<1> DEFINE T == {k \in Ends(tab) : q < EndOf(tab, k)}
<1>1. /\ Len(tab.ends) \in Nat /\ Len(tab.ends) \in Ends(tab) /\ EndOf(tab, 0) = 0
      /\ \A k \in Ends(tab) : EndOf(tab, k) \in Nat /\ k \in Nat
  BY EndFacts
<1>2. T \in SUBSET Nat /\ T # {}
  BY <1>1 DEF LastEnd
<1>3. PICK x \in T : \A y \in T : x <= y
  BY <1>2, LeastElement
<1>4. x \in Ends(tab) /\ q < EndOf(tab, x) /\ x # 0
  BY <1>1
<1>5. x - 1 \in Ends(tab) /\ x - 1 \in 0 .. Len(tab.ends) - 1 /\ x - 1 < x /\ (x - 1) + 1 = x
  BY <1>1, <1>4 DEF Ends
<1>6. ~(q < EndOf(tab, x - 1))
  BY <1>1, <1>3, <1>5
<1>7. Within(tab, q, x - 1)
  BY <1>1, <1>4, <1>5, <1>6 DEF Within
<1> QED BY <1>7

LEMMA WithinOne ==
    ASSUME NEW tab, NEW B, TableOK(tab, B), NEW q \in Nat,
           NEW b, NEW c, Within(tab, q, b), Within(tab, q, c)
    PROVE  b = c
<1>1. /\ Len(tab.ends) \in Nat
      /\ \A k \in Ends(tab) : EndOf(tab, k) \in Nat /\ k \in Nat
  BY EndFacts
<1>2. /\ b \in Ends(tab) /\ b + 1 \in Ends(tab) /\ c \in Ends(tab) /\ c + 1 \in Ends(tab)
      /\ b \in Nat /\ c \in Nat
  BY <1>1 DEF Within, Ends
<1>3. /\ EndOf(tab, b) <= q /\ q < EndOf(tab, b + 1)
      /\ EndOf(tab, c) <= q /\ q < EndOf(tab, c + 1)
  BY DEF Within
<1>4. ~(b < c)
  <2> SUFFICES ASSUME b < c PROVE FALSE
    OBVIOUS
  <2>1. b + 1 = c \/ b + 1 < c
    BY <1>2
  <2>2. EndOf(tab, b + 1) <= EndOf(tab, c)
    BY <1>1, <1>2, <2>1 DEF TableOK
  <2> QED BY <1>1, <1>2, <1>3, <2>2
<1>5. ~(c < b)
  <2> SUFFICES ASSUME c < b PROVE FALSE
    OBVIOUS
  <2>1. c + 1 = b \/ c + 1 < b
    BY <1>2
  <2>2. EndOf(tab, c + 1) <= EndOf(tab, b)
    BY <1>1, <1>2, <2>1 DEF TableOK
  <2> QED BY <1>1, <1>2, <1>3, <2>2
<1> QED BY <1>2, <1>4, <1>5

LEMMA LocIs ==
    ASSUME NEW tab, NEW B, TableOK(tab, B), NEW base, NEW q \in Nat, NEW b, Within(tab, q, b)
    PROVE  Loc(tab, base, q) = LocIn(tab, base, b, q)
<1> DEFINE c == CHOOSE c : Within(tab, q, c)
<1>1. Within(tab, q, c)
  BY Zenon
<1> HIDE DEF c
<1>2. b = c
  BY <1>1, WithinOne
<1> QED BY <1>2 DEF Loc, c

\* A location is read as the byte of the table, and followed by the next one.
LEMMA ByteFound ==
    ASSUME NEW tab, NEW B, TableOK(tab, B), NEW base \in Nat, NEW img, Found(img, tab, base),
           NEW q \in Nat, NEW b, Within(tab, q, b)
    PROVE  /\ ByteAt(img, LocIn(tab, base, b, q)) = tab.bytes[q + 1]
           /\ q + 1 < LastEnd(tab) =>
                 NextByte(img, LocIn(tab, base, b, q)) = Loc(tab, base, q + 1)
<1> DEFINE l == LocIn(tab, base, b, q)
           blk == BlockAt(img, base + SizeOf(tab, b))
           s == EndOf(tab, b)
           e == EndOf(tab, b + 1)
<1>1. /\ Len(tab.ends) \in Nat
      /\ \A k \in Ends(tab) : EndOf(tab, k) \in Nat /\ k \in Nat
  BY EndFacts
<1>2. b \in Nat /\ b + 1 \in Ends(tab) /\ b \in Ends(tab) /\ b + 1 <= Len(tab.ends)
  BY <1>1 DEF Within, Ends
<1>3. s \in Nat /\ e \in Nat /\ s <= q /\ q < e
  BY <1>1, <1>2 DEF Within
<1>4. Len(blk) = e - s /\ \A j \in 1 .. e - s : blk[j] = tab.bytes[s + j]
  BY DEF Found, Within
<1>5. l.at = base + SizeOf(tab, b) /\ l.pos = q - s
  BY DEF LocIn
<1>6. BlockAt(img, l.at) = blk
  BY <1>5
<1>7. SizeOf(tab, b) = b * 2 + s /\ SizeOf(tab, b + 1) = (b + 1) * 2 + e
  BY DEF SizeOf, BlockHeader
<1> HIDE DEF blk, s, e, l
<1>8. ByteAt(img, l) = tab.bytes[q + 1]
  <2>1. q - s < e - s /\ (q - s) + 1 \in 1 .. e - s /\ s + ((q - s) + 1) = q + 1
    BY <1>3
  <2>2. blk[(q - s) + 1] = tab.bytes[q + 1]
    BY <1>4, <2>1
  <2> QED BY <1>4, <1>5, <1>6, <2>1, <2>2 DEF ByteAt
<1>9. ASSUME q + 1 < LastEnd(tab)
      PROVE  NextByte(img, l) = Loc(tab, base, q + 1)
  <2>1. CASE q + 1 < e
    <3>1. Within(tab, q + 1, b)
      BY <1>1, <1>2, <1>3, <2>1 DEF Within, s, e
    <3>2. Loc(tab, base, q + 1) = LocIn(tab, base, b, q + 1)
      BY <3>1, LocIs
    <3>3. (q - s) + 1 < e - s /\ (q - s) + 1 = (q + 1) - s
      BY <1>3, <2>1
    <3>4. NextByte(img, l) = [at |-> l.at, pos |-> l.pos + 1]
      BY <1>4, <1>5, <1>6, <3>3 DEF NextByte
    <3> QED BY <1>5, <3>2, <3>3, <3>4 DEF LocIn, s
  <2>2. CASE ~(q + 1 < e)
    <3>1. q + 1 = e
      BY <1>3, <2>2
    <3>2. b + 1 # Len(tab.ends)
      BY <1>3, <1>9, <3>1 DEF LastEnd, e
    <3>3. b + 1 \in 0 .. Len(tab.ends) - 1 /\ (b + 1) + 1 \in Ends(tab) /\ b + 1 < (b + 1) + 1
      BY <1>1, <1>2, <3>2 DEF Ends
    <3>4. EndOf(tab, b + 1) < EndOf(tab, (b + 1) + 1)
      BY <1>2, <3>3 DEF TableOK
    <3>5. Within(tab, q + 1, b + 1)
      BY <1>3, <3>1, <3>3, <3>4 DEF Within, e
    <3>6. Loc(tab, base, q + 1) = LocIn(tab, base, b + 1, q + 1)
      BY <3>5, LocIs
    <3>7. ~((q - s) + 1 < e - s)
      BY <1>3, <2>2
    <3>8. NextByte(img, l) = [at |-> l.at + Len(blk) + BlockHeader, pos |-> 0]
      BY <1>4, <1>5, <1>6, <3>7 DEF NextByte
    <3>9. l.at + Len(blk) + BlockHeader = base + SizeOf(tab, b + 1) /\ (q + 1) - e = 0
      BY <1>2, <1>3, <1>4, <1>5, <1>7, <3>1 DEF BlockHeader
    <3> QED BY <3>6, <3>8, <3>9 DEF LocIn, e
  <2> QED BY <2>1, <2>2
<1> QED BY <1>8, <1>9 DEF l

\* Reading n bytes from the location of byte p yields bytes p + 1 .. p + n.
Reads(img, tab, base, b, p, n) ==
    ReadBytes(img, base + SizeOf(tab, b), p - EndOf(tab, b), n) =
        [j \in 1 .. n |-> tab.bytes[p + j]]

LEMMA ReadRange ==
    ASSUME NEW tab, NEW B, TableOK(tab, B), NEW base \in Nat, NEW img, Found(img, tab, base),
           NEW p \in Nat, NEW n \in Nat, n > 0, p + n <= LastEnd(tab),
           NEW b, Within(tab, p, b)
    PROVE  Reads(img, tab, base, b, p, n)
<1> DEFINE start == [at |-> base + SizeOf(tab, b), pos |-> p - EndOf(tab, b)]
           Walk(g) == g = [k \in 0 .. n |-> IF k = 0 THEN start ELSE NextByte(img, g[k - 1])]
           L(k) == Loc(tab, base, p + k)
<1>1. LastEnd(tab) \in Nat
  BY EndFacts
<1>2. ASSUME NEW k \in 0 .. n - 1
      PROVE  /\ ByteAt(img, L(k)) = tab.bytes[(p + k) + 1]
             /\ k < n - 1 => NextByte(img, L(k)) = L(k + 1)
  <2>1. p + k \in Nat /\ p + k < LastEnd(tab)
    BY <1>1
  <2>2. PICK c : Within(tab, p + k, c)
    BY <2>1, WithinSome
  <2>3. L(k) = LocIn(tab, base, c, p + k)
    BY <2>1, <2>2, LocIs
  <2>4. /\ ByteAt(img, L(k)) = tab.bytes[(p + k) + 1]
        /\ (p + k) + 1 < LastEnd(tab) => NextByte(img, L(k)) = Loc(tab, base, (p + k) + 1)
    BY <2>1, <2>2, <2>3, ByteFound
  <2>5. k < n - 1 => (p + k) + 1 < LastEnd(tab) /\ (p + k) + 1 = p + (k + 1)
    BY <1>1
  <2> QED BY <2>4, <2>5
<1>3. L(0) = start
  <2>1. p + 0 = p
    OBVIOUS
  <2>2. Loc(tab, base, p) = LocIn(tab, base, b, p)
    BY LocIs
  <2> QED BY <2>1, <2>2 DEF LocIn
<1> HIDE DEF L, start
<1>4. \E g : Walk(g)
  <2> DEFINE w == [k \in 0 .. n |-> IF k = n THEN NextByte(img, L(n - 1)) ELSE L(k)]
  <2>1. ASSUME NEW k \in 0 .. n
        PROVE  w[k] = IF k = 0 THEN start ELSE NextByte(img, w[k - 1])
    <3>1. CASE k = 0
      <4>1. w[0] = L(0)
        OBVIOUS
      <4> QED BY <1>3, <3>1, <4>1
    <3>2. CASE k # 0
      <4>1. k - 1 \in 0 .. n - 1 /\ k - 1 \in 0 .. n /\ k - 1 # n /\ (k - 1) + 1 = k
        BY <3>2
      <4>2. w[k - 1] = L(k - 1)
        BY <4>1
      <4>3. CASE k = n
        BY <3>2, <4>2, <4>3
      <4>4. CASE k # n
        <5>1. k - 1 < n - 1
          BY <4>4
        <5>2. NextByte(img, L(k - 1)) = L(k)
          BY <1>2, <4>1, <5>1
        <5> QED BY <3>2, <4>2, <4>4, <5>2
      <4> QED BY <4>3, <4>4
    <3> QED BY <3>1, <3>2
  <2>2. w = [k \in 0 .. n |-> w[k]]
    OBVIOUS
  <2> HIDE DEF w
  <2>3. Walk(w)
    BY <2>1, <2>2
  <2> QED BY <2>3
<1> DEFINE loc == CHOOSE g : Walk(g)
<1>5. Walk(loc)
  <2> HIDE DEF Walk
  <2> QED BY <1>4, Zenon
<1>6. ReadBytes(img, base + SizeOf(tab, b), p - EndOf(tab, b), n) =
          [k \in 1 .. n |-> ByteAt(img, loc[k - 1])]
  BY Zenon DEF ReadBytes, start
<1> HIDE DEF loc
<1>7. /\ loc[0] = start
      /\ \A k \in 1 .. n : loc[k] = NextByte(img, loc[k - 1])
  BY <1>5
<1>8. \A k \in 0 .. n - 1 : loc[k] = L(k)
  <2> DEFINE T == {k \in 0 .. n - 1 : loc[k] # L(k)}
  <2> SUFFICES ASSUME T # {} PROVE FALSE
    OBVIOUS
  <2>1. T \in SUBSET Nat
    OBVIOUS
  <2>2. PICK x \in T : \A y \in T : x <= y
    BY <2>1, LeastElement
  <2>3. x \in 0 .. n - 1 /\ x # 0
    BY <1>3, <1>7
  <2>4. x - 1 \in 0 .. n - 1 /\ x - 1 < x /\ x - 1 < n - 1 /\ (x - 1) + 1 = x /\ x \in 1 .. n
    BY <2>3
  <2>5. loc[x - 1] = L(x - 1)
    BY <2>2, <2>4
  <2>6. loc[x] = NextByte(img, L(x - 1))
    BY <1>7, <2>4, <2>5
  <2>7. NextByte(img, L(x - 1)) = L(x)
    BY <1>2, <2>4
  <2> QED BY <2>6, <2>7
<1>9. ASSUME NEW k \in 1 .. n PROVE ByteAt(img, loc[k - 1]) = tab.bytes[p + k]
  <2>1. k - 1 \in 0 .. n - 1 /\ (p + (k - 1)) + 1 = p + k
    OBVIOUS
  <2> QED BY <1>2, <1>8, <2>1
<1> QED BY <1>6, <1>9 DEF Reads

\* The place of block b grows with b.
LEMMA SizeFacts ==
    ASSUME NEW tab, NEW B, TableOK(tab, B)
    PROVE  /\ \A k \in Ends(tab) : SizeOf(tab, k) \in Nat /\ SizeOf(tab, k) <= TableSize(tab)
           /\ \A j, k \in Ends(tab) : j < k => SizeOf(tab, j) < SizeOf(tab, k)
           /\ TableSize(tab) \in Nat
<1>1. /\ Len(tab.ends) \in Nat /\ Len(tab.ends) \in Ends(tab)
      /\ \A k \in Ends(tab) : EndOf(tab, k) \in Nat /\ k \in Nat /\ EndOf(tab, k) <= LastEnd(tab)
  BY EndFacts
<1>2. ASSUME NEW k \in Ends(tab)
      PROVE  SizeOf(tab, k) \in Nat /\ SizeOf(tab, k) <= TableSize(tab)
  <2>1. k \in Nat /\ k <= Len(tab.ends)
    BY <1>1 DEF Ends
  <2> QED BY <1>1, <2>1 DEF SizeOf, TableSize, BlockHeader, LastEnd
<1>3. ASSUME NEW j \in Ends(tab), NEW k \in Ends(tab), j < k
      PROVE  SizeOf(tab, j) < SizeOf(tab, k)
  <2>1. EndOf(tab, j) < EndOf(tab, k)
    BY <1>3 DEF TableOK
  <2> QED BY <1>1, <1>3, <2>1 DEF SizeOf, BlockHeader
<1> QED BY <1>1, <1>2, <1>3 DEF TableSize

BlockRec(tab, base, b) ==
    [at |-> base + SizeOf(tab, b), bytes |-> SubSeq(tab.bytes, EndOf(tab, b) + 1, EndOf(tab, b + 1))]

LEMMA BlocksAre ==
    ASSUME NEW tab, NEW B, TableOK(tab, B), NEW base
    PROVE  /\ \A b \in 0 .. Len(tab.ends) - 1 : BlockRec(tab, base, b) \in BlocksAt(tab, base)
           /\ \A r \in BlocksAt(tab, base) :
                 \E b \in 0 .. Len(tab.ends) - 1 : r = BlockRec(tab, base, b)
<1> DEFINE R(k) == [at |-> base + SizeOf(tab, k - 1),
                    bytes |-> SubSeq(tab.bytes, EndOf(tab, k - 1) + 1, EndOf(tab, k))]
<1>1. Len(tab.ends) \in Nat /\ DOMAIN tab.ends = 1 .. Len(tab.ends)
  BY EndFacts DEF TableOK
<1>2. BlocksAt(tab, base) = {R(k) : k \in DOMAIN tab.ends}
  BY DEF BlocksAt
<1>3. ASSUME NEW k \in 1 .. Len(tab.ends)
      PROVE  R(k) = BlockRec(tab, base, k - 1)
  <2>1. (k - 1) + 1 = k
    BY <1>1
  <2> QED BY <2>1 DEF BlockRec
<1> HIDE DEF R
<1>4. ASSUME NEW b \in 0 .. Len(tab.ends) - 1 PROVE BlockRec(tab, base, b) \in BlocksAt(tab, base)
  <2>1. b + 1 \in 1 .. Len(tab.ends) /\ (b + 1) - 1 = b
    BY <1>1
  <2>2. R(b + 1) = BlockRec(tab, base, b)
    BY <1>3, <2>1
  <2> QED BY <1>1, <1>2, <2>1, <2>2
<1>5. ASSUME NEW r \in BlocksAt(tab, base)
      PROVE  \E b \in 0 .. Len(tab.ends) - 1 : r = BlockRec(tab, base, b)
  <2>1. PICK k \in 1 .. Len(tab.ends) : r = R(k)
    BY <1>1, <1>2
  <2>2. k - 1 \in 0 .. Len(tab.ends) - 1
    BY <1>1
  <2> QED BY <1>3, <2>1, <2>2
<1> QED BY <1>4, <1>5

\* Blocks do not share a place, so that the one a reader finds is the one put there.
LEMMA BlocksFound ==
    ASSUME NEW d, NEW e, NEW B, NEW C, TableOK(d, B), TableOK(e, C), NEW base \in Nat, NEW img,
           img.blocks = BlocksAt(d, base) \cup BlocksAt(e, base + TableSize(d))
    PROVE  Found(img, d, base) /\ Found(img, e, base + TableSize(d))
<1> DEFINE next == base + TableSize(d)
<1>1. /\ TableSize(d) \in Nat /\ next \in Nat
      /\ Len(d.ends) \in Nat /\ Len(e.ends) \in Nat
  BY SizeFacts, EndFacts
<1>2. ASSUME NEW tab, NEW A, TableOK(tab, A), NEW from \in Nat,
             NEW b \in 0 .. Len(tab.ends) - 1, NEW r \in BlocksAt(tab, from),
             r.at = from + SizeOf(tab, b)
      PROVE  r = BlockRec(tab, from, b)
  <2>1. PICK c \in 0 .. Len(tab.ends) - 1 : r = BlockRec(tab, from, c)
    BY <1>2, BlocksAre
  <2>2. Len(tab.ends) \in Nat
    BY <1>2, EndFacts
  <2>3. b \in Ends(tab) /\ c \in Ends(tab) /\ b \in Nat /\ c \in Nat
    BY <2>2 DEF Ends
  <2>4. SizeOf(tab, b) \in Nat /\ SizeOf(tab, c) \in Nat
    BY <1>2, <2>3, SizeFacts
  <2>5. SizeOf(tab, b) = SizeOf(tab, c)
    BY <1>2, <2>1, <2>4 DEF BlockRec
  <2>6. ~(b < c) /\ ~(c < b)
    BY <1>2, <2>3, <2>4, <2>5, SizeFacts
  <2>7. b = c
    BY <2>3, <2>6
  <2> QED BY <2>1, <2>7
<1>3. ASSUME NEW b \in 0 .. Len(d.ends) - 1, NEW c \in 0 .. Len(e.ends) - 1
      PROVE  base + SizeOf(d, b) # next + SizeOf(e, c)
  <2>1. b \in Ends(d) /\ Len(d.ends) \in Ends(d) /\ b < Len(d.ends) /\ c \in Ends(e)
    BY <1>1 DEF Ends
  <2>2. SizeOf(d, b) < TableSize(d) /\ SizeOf(d, b) \in Nat /\ SizeOf(e, c) \in Nat
    BY <2>1, SizeFacts DEF TableSize
  <2> QED BY <1>1, <2>2
<1>4. ASSUME NEW rec \in img.blocks, \A r \in img.blocks : r.at = rec.at => r = rec
      PROVE  BlockAt(img, rec.at) = rec.bytes
  <2> DEFINE r == CHOOSE r \in img.blocks : r.at = rec.at
  <2>1. r \in img.blocks /\ r.at = rec.at
    <3>1. \E x \in img.blocks : x.at = rec.at
      BY Zenon
    <3> QED BY <3>1, Zenon
  <2>2. r = rec
    BY <1>4, <2>1
  <2>3. BlockAt(img, rec.at) = r.bytes
    BY DEF BlockAt
  <2> QED BY <2>2, <2>3
<1>5. ASSUME NEW tab, NEW A, TableOK(tab, A), NEW b \in 0 .. Len(tab.ends) - 1, NEW blk,
             blk = SubSeq(tab.bytes, EndOf(tab, b) + 1, EndOf(tab, b + 1))
      PROVE  /\ Len(blk) = EndOf(tab, b + 1) - EndOf(tab, b)
             /\ \A j \in 1 .. EndOf(tab, b + 1) - EndOf(tab, b) :
                   blk[j] = tab.bytes[EndOf(tab, b) + j]
  <2>1. /\ Len(tab.ends) \in Nat /\ Len(tab.bytes) \in Nat
        /\ \A k \in Ends(tab) : EndOf(tab, k) \in Nat /\ EndOf(tab, k) <= LastEnd(tab)
        /\ LastEnd(tab) \in Nat
    BY <1>5, EndFacts
  <2>2. b \in Ends(tab) /\ b + 1 \in Ends(tab) /\ b < b + 1
    BY <2>1 DEF Ends
  <2>3. EndOf(tab, b) < EndOf(tab, b + 1) /\ LastEnd(tab) <= Len(tab.bytes) /\ tab.bytes \in Seq(A)
    BY <1>5, <2>2 DEF TableOK
  <2> DEFINE s == EndOf(tab, b)
             f == EndOf(tab, b + 1)
  <2>4. s \in Nat /\ f \in Nat /\ s < f /\ f <= Len(tab.bytes) /\ blk = SubSeq(tab.bytes, s + 1, f)
    BY <1>5, <2>1, <2>2, <2>3
  <2> HIDE DEF s, f
  <2>5. Len(blk) = f - s /\ \A j \in 1 .. f - s : blk[j] = tab.bytes[s + j]
    BY <2>3, <2>4
  <2> QED BY <2>5 DEF s, f
<1>6. Found(img, d, base)
  <2> SUFFICES ASSUME NEW b \in 0 .. Len(d.ends) - 1
               PROVE  BlockAt(img, base + SizeOf(d, b)) = BlockRec(d, base, b).bytes
    BY <1>5 DEF Found, BlockRec
  <2> DEFINE rec == BlockRec(d, base, b)
  <2>1. rec \in BlocksAt(d, base) /\ rec.at = base + SizeOf(d, b)
    BY BlocksAre DEF BlockRec
  <2> HIDE DEF rec
  <2>2. ASSUME NEW r \in img.blocks, r.at = rec.at PROVE r = rec
    <3>1. CASE r \in BlocksAt(d, base)
      BY <1>2, <2>1, <2>2, <3>1 DEF rec
    <3>2. CASE r \in BlocksAt(e, next)
      <4>1. PICK c \in 0 .. Len(e.ends) - 1 : r = BlockRec(e, next, c)
        BY <3>2, BlocksAre
      <4> QED BY <1>3, <2>1, <2>2, <4>1 DEF BlockRec
    <3> QED BY <3>1, <3>2
  <2> QED BY <1>4, <2>1, <2>2 DEF rec
<1>7. Found(img, e, next)
  <2> SUFFICES ASSUME NEW b \in 0 .. Len(e.ends) - 1
               PROVE  BlockAt(img, next + SizeOf(e, b)) = BlockRec(e, next, b).bytes
    BY <1>5 DEF Found, BlockRec
  <2> DEFINE rec == BlockRec(e, next, b)
  <2>1. rec \in BlocksAt(e, next) /\ rec.at = next + SizeOf(e, b)
    BY BlocksAre DEF BlockRec
  <2> HIDE DEF rec
  <2>2. ASSUME NEW r \in img.blocks, r.at = rec.at PROVE r = rec
    <3>1. CASE r \in BlocksAt(e, next)
      <4> HIDE DEF next
      <4> QED BY <1>1, <1>2, <2>1, <2>2, <3>1 DEF rec
    <3>2. CASE r \in BlocksAt(d, base)
      <4>1. PICK c \in 0 .. Len(d.ends) - 1 : r = BlockRec(d, base, c)
        BY <3>2, BlocksAre
      <4> QED BY <1>3, <2>1, <2>2, <4>1 DEF BlockRec
    <3> QED BY <3>1, <3>2
  <2> QED BY <1>4, <2>1, <2>2 DEF rec
<1> QED BY <1>6, <1>7

-----------------------------------------------------------------------------
(* Sets of attributes.                                                     *)

DataByte == {Stored(a) : a \in Attributes} \X Nat
DescByte == [xattr : [block : Nat, offset : Nat], count : Nat, size : Nat] \X Nat

\* What is appended for a set has the size its descriptor says.
GoodSet(xs) ==
    /\ Len(xs) \in Nat
    /\ DataBytes(xs) \in Seq(DataByte)
    /\ StoredSize(xs) \in Nat /\ Len(DataBytes(xs)) = StoredSize(xs)
    /\ xs # <<>> => StoredSize(xs) > 0
    /\ xs = <<>> => DataBytes(xs) = <<>>

LEMMA BytesOfItem ==
    ASSUME NEW item, NEW S, item \in S, NEW size \in Nat
    PROVE  /\ BytesOf(item, size) \in Seq(S \X Nat) /\ Len(BytesOf(item, size)) = size
           /\ \A j \in 1 .. size : BytesOf(item, size)[j] = <<item, j>>
<1>1. \A j \in 1 .. size : <<item, j>> \in S \X Nat
  OBVIOUS
<1>2. BytesOf(item, size) \in [1 .. size -> S \X Nat]
  BY <1>1 DEF BytesOf
<1>3. BytesOf(item, size) \in Seq(S \X Nat) /\ Len(BytesOf(item, size)) = size
  BY <1>2
<1> QED BY <1>3 DEF BytesOf

LEMMA FlattenTwo ==
    ASSUME NEW S, NEW seqs, NEW m, m = 1 \/ m = 2, Len(seqs) = m
    PROVE  /\ m = 1 => FlattenSeq(seqs) = seqs[1]
           /\ m = 2 => FlattenSeq(seqs) = seqs[1] \o seqs[2]
<1> DEFINE G(g) == g = [i \in 1 .. m |-> IF i = 1 THEN seqs[i] ELSE g[i - 1] \o seqs[i]]
           w == [i \in 1 .. m |-> IF i = 1 THEN seqs[1] ELSE seqs[1] \o seqs[2]]
           flatten == CHOOSE g : G(g)
<1>1. ASSUME NEW i \in 1 .. m
      PROVE  w[i] = IF i = 1 THEN seqs[i] ELSE w[i - 1] \o seqs[i]
  <2>1. i = 1 \/ i = 2
    OBVIOUS
  <2>2. CASE i = 1
    BY <2>2
  <2>3. CASE i = 2
    <3>1. w[1] = seqs[1] /\ i - 1 = 1 /\ i # 1
      BY <2>3
    <3> QED BY <2>3, <3>1
  <2> QED BY <2>1, <2>2, <2>3
<1>2. w = [i \in 1 .. m |-> w[i]]
  OBVIOUS
<1> HIDE DEF w
<1>3. G(w)
  BY <1>1, <1>2
<1>4. G(flatten)
  <2> HIDE DEF G
  <2> QED BY <1>3, Zenon
<1>5. FlattenSeq(seqs) = flatten[Len(seqs)]
  BY DEF FlattenSeq
<1> HIDE DEF flatten
<1>6. flatten[1] = seqs[1] /\ (m = 2 => flatten[2] = flatten[1] \o seqs[2])
  <2>1. 1 \in 1 .. m /\ flatten[1] = seqs[1]
    BY <1>4
  <2>2. m = 2 => 2 \in 1 .. m /\ 2 # 1 /\ 2 - 1 = 1
    OBVIOUS
  <2>3. m = 2 => flatten[2] = flatten[2 - 1] \o seqs[2]
    BY <1>4, <2>2
  <2> QED BY <2>1, <2>2, <2>3
<1> QED BY <1>5, <1>6

LEMMA SizeOfTwo ==
    ASSUME NEW xs \in Seq(Attributes), NEW m, m \in 0 .. 2, Len(xs) = m
    PROVE  /\ m = 0 => StoredSize(xs) = 0
           /\ m = 1 => StoredSize(xs) = xs[1].size
           /\ m = 2 => StoredSize(xs) = xs[1].size + xs[2].size
<1> DEFINE G(g) == g = [n \in 0 .. m |-> IF n = 0 THEN 0 ELSE g[n - 1] + xs[n].size]
           w == [n \in 0 .. m |-> IF n = 0 THEN 0
                                        ELSE IF n = 1 THEN xs[1].size ELSE xs[1].size + xs[2].size]
           size == CHOOSE g : G(g)
<1>0. \A n \in 1 .. m : xs[n].size \in Nat
  BY AttributesHaveSizes
<1>1. ASSUME NEW n \in 0 .. m
      PROVE  w[n] = IF n = 0 THEN 0 ELSE w[n - 1] + xs[n].size
  <2>1. n = 0 \/ n = 1 \/ n = 2
    OBVIOUS
  <2>2. CASE n = 0
    BY <2>2
  <2>3. CASE n = 1
    <3>1. w[0] = 0 /\ w[n] = xs[1].size /\ xs[1].size \in Nat
      BY <1>0, <2>3
    <3> HIDE DEF w
    <3> QED BY <2>3, <3>1
  <2>4. CASE n = 2
    <3>1. w[1] = xs[1].size /\ w[n] = xs[1].size + xs[2].size
      BY <2>4
    <3> HIDE DEF w
    <3> QED BY <2>4, <3>1
  <2> QED BY <2>1, <2>2, <2>3, <2>4
<1>2. w = [n \in 0 .. m |-> w[n]]
  OBVIOUS
<1> HIDE DEF w
<1>3. G(w)
  BY <1>1, <1>2
<1>4. G(size)
  <2> HIDE DEF G
  <2> QED BY <1>3, Zenon
<1>5. StoredSize(xs) = size[Len(xs)]
  BY DEF StoredSize
<1> HIDE DEF size
<1>6. /\ size[0] = 0
      /\ \A n \in 1 .. m : size[n] = size[n - 1] + xs[n].size
  BY <1>4
<1>7. CASE m = 0
  BY <1>5, <1>6, <1>7
<1>8. CASE m = 1
  <2>1. size[1] = size[0] + xs[1].size
    BY <1>6, <1>8
  <2> QED BY <1>0, <1>5, <1>6, <1>8, <2>1
<1>9. CASE m = 2
  <2>1. size[1] = size[0] + xs[1].size /\ size[2] = size[1] + xs[2].size
    BY <1>6, <1>9
  <2> QED BY <1>0, <1>5, <1>6, <1>9, <2>1
<1> QED BY <1>7, <1>8, <1>9

LEMMA CollectionsGood ==
    ASSUME xattrs \subseteq Attributes, NEW xs \in Collections
    PROVE  GoodSet(xs)
<1> DEFINE Part(n) == BytesOf(Stored(xs[n]), xs[n].size)
           seqs == [n \in DOMAIN xs |-> Part(n)]
<1>1. xs \in Seq(Attributes) /\ Len(xs) \in 0 .. 2
  <2>1. PICK m \in 0 .. 2 : xs \in [1 .. m -> xattrs]
    BY DEF Collections, SeqOf
  <2> QED BY <2>1
<1>2. ASSUME NEW n \in DOMAIN xs
      PROVE  /\ Part(n) \in Seq(DataByte) /\ Len(Part(n)) = xs[n].size
             /\ xs[n].size \in Nat \ {0}
  <2>1. xs[n] \in Attributes
    BY <1>1
  <2>2. xs[n].size \in Nat \ {0}
    BY <2>1, AttributesHaveSizes
  <2>3. Stored(xs[n]) \in {Stored(a) : a \in Attributes}
    BY <2>1
  <2> QED BY <2>2, <2>3, BytesOfItem DEF DataByte
<1> HIDE DEF Part
<1>3. seqs \in Seq(Seq(DataByte)) /\ Len(seqs) = Len(xs) /\ \A n \in DOMAIN xs : seqs[n] = Part(n)
  <2>1. seqs \in [1 .. Len(xs) -> Seq(DataByte)]
    BY <1>1, <1>2
  <2>2. seqs \in Seq(Seq(DataByte)) /\ Len(seqs) = Len(xs)
    BY <1>1, <2>1
  <2> QED BY <2>2
<1>4. DataBytes(xs) = FlattenSeq(seqs)
  BY DEF DataBytes, Part
<1> HIDE DEF seqs
<1>5. CASE Len(xs) = 0
  <2>1. xs = <<>> /\ seqs = <<>>
    BY <1>1, <1>3, <1>5
  <2>2. DataBytes(xs) = <<>>
    BY <1>3, <1>4, <1>5, <2>1 DEF FlattenSeq
  <2>3. StoredSize(xs) = 0
    BY <1>1, <1>5, SizeOfTwo
  <2>4. DataBytes(xs) \in Seq(DataByte) /\ Len(DataBytes(xs)) = 0
    BY <2>2
  <2> QED BY <1>5, <2>1, <2>2, <2>3, <2>4 DEF GoodSet
<1>6. CASE Len(xs) = 1
  <2>1. 1 \in DOMAIN xs /\ xs # <<>>
    BY <1>1, <1>6
  <2>2. DataBytes(xs) = Part(1)
    <3>1. Len(seqs) = 1
      BY <1>3, <1>6
    <3>2. FlattenSeq(seqs) = seqs[1]
      BY <3>1, FlattenTwo
    <3> QED BY <1>3, <1>4, <2>1, <3>2
  <2>3. StoredSize(xs) = xs[1].size
    BY <1>1, <1>6, SizeOfTwo
  <2>4. Part(1) \in Seq(DataByte) /\ Len(Part(1)) = xs[1].size /\ xs[1].size \in Nat \ {0}
    BY <1>2, <2>1
  <2> QED BY <1>6, <2>1, <2>2, <2>3, <2>4 DEF GoodSet
<1>7. CASE Len(xs) = 2
  <2>1. 1 \in DOMAIN xs /\ 2 \in DOMAIN xs /\ xs # <<>>
    BY <1>1, <1>7
  <2>2. DataBytes(xs) = Part(1) \o Part(2)
    <3>1. Len(seqs) = 2
      BY <1>3, <1>7
    <3>2. FlattenSeq(seqs) = seqs[1] \o seqs[2]
      BY <3>1, FlattenTwo
    <3> QED BY <1>3, <1>4, <2>1, <3>2
  <2>3. StoredSize(xs) = xs[1].size + xs[2].size
    BY <1>1, <1>7, SizeOfTwo
  <2>4. /\ Part(1) \in Seq(DataByte) /\ Len(Part(1)) = xs[1].size /\ xs[1].size \in Nat \ {0}
        /\ Part(2) \in Seq(DataByte) /\ Len(Part(2)) = xs[2].size /\ xs[2].size \in Nat \ {0}
    BY <1>2, <2>1
  <2>5. Joined(Part(1) \o Part(2), Part(1), Part(2), DataByte)
    BY <2>4, Concatenated
  <2>6. DataBytes(xs) \in Seq(DataByte) /\ Len(DataBytes(xs)) = xs[1].size + xs[2].size
    BY <2>2, <2>4, <2>5 DEF Joined
  <2>7. xs[1].size + xs[2].size \in Nat /\ xs[1].size + xs[2].size > 0
    BY <2>4
  <2> QED BY <1>7, <2>1, <2>3, <2>6, <2>7 DEF GoodSet
<1> QED BY <1>1, <1>5, <1>6, <1>7

-----------------------------------------------------------------------------
(* Where a set is stored.                                                  *)

\* The descriptor of a number, in the table of descriptors, is complete.
DscOf(tab, id) == tab.bytes[id * DescSize + 1][1]
DescPlaced(tab, id) ==
    /\ id * DescSize + DescSize <= Len(tab.bytes)
    /\ \A j \in 1 .. DescSize : tab.bytes[id * DescSize + j] = <<DscOf(tab, id), j>>

\* A reference leads to byte p of the table of data, and what follows are the attributes.
DataPlaced(tab, ref, xs) ==
    \E b \in Ends(tab), p \in 0 .. Len(tab.bytes) :
        /\ ref = Reference([block |-> SizeOf(tab, b), offset |-> p - EndOf(tab, b)])
        /\ EndOf(tab, b) <= p /\ (b < Len(tab.ends) => p < EndOf(tab, b + 1))
        /\ p + StoredSize(xs) <= Len(tab.bytes)
        /\ \A j \in 1 .. StoredSize(xs) : tab.bytes[p + j] = DataBytes(xs)[j]

SetStored(d, e, set) ==
    /\ DescPlaced(e, set.id)
    /\ DscOf(e, set.id).count = Len(set.attrs)
    /\ DscOf(e, set.id).size = StoredSize(set.attrs)
    /\ set.attrs # <<>> => DataPlaced(d, DscOf(e, set.id).xattr, set.attrs)

LEMMA SmallBlock ==
    ASSUME NEW a \in Nat, a < BlockRange
    PROVE  a % BlockRange = a
BY MetaSizePositive

LEMMA DescProduct ==
    ASSUME NEW i \in Nat, NEW j \in Nat
    PROVE  /\ i * DescSize \in Nat
           /\ i < j => i * DescSize + DescSize <= j * DescSize
           /\ i <= j => i * DescSize <= j * DescSize
           /\ (i + 1) * DescSize = i * DescSize + DescSize
BY MetaSizePositive

LEMMA DescKept ==
    ASSUME NEW e, NEW B, TableOK(e, B), NEW t, Continues(e, t), NEW id \in Nat, DescPlaced(e, id),
           Len(t.bytes) \in Nat
    PROVE  DescPlaced(t, id) /\ DscOf(t, id) = DscOf(e, id)
<1> DEFINE x == id * DescSize
<1>1. x \in Nat
  BY DescProduct
<1>2. Len(e.bytes) \in Nat
  BY EndFacts
<1>3. x + DescSize <= Len(e.bytes) /\ \A j \in 1 .. DescSize : e.bytes[x + j] = <<DscOf(e, id), j>>
  BY DEF DescPlaced
<1>4. Len(e.bytes) <= Len(t.bytes) /\ \A j \in 1 .. Len(e.bytes) : t.bytes[j] = e.bytes[j]
  BY DEF Continues
<1>5. DscOf(t, id) = t.bytes[x + 1][1] /\ DscOf(e, id) = e.bytes[x + 1][1]
  BY DEF DscOf
<1> HIDE DEF x
<1>6. \A j \in 1 .. DescSize : x + j \in 1 .. Len(e.bytes)
  BY <1>1, <1>2, <1>3, MetaSizePositive
<1>7. \A j \in 1 .. DescSize : t.bytes[x + j] = e.bytes[x + j]
  BY <1>4, <1>6
<1>8. DscOf(t, id) = DscOf(e, id)
  BY <1>5, <1>7, MetaSizePositive
<1>9. x + DescSize <= Len(t.bytes)
  BY <1>1, <1>2, <1>3, <1>4, MetaSizePositive
<1> QED BY <1>3, <1>7, <1>8, <1>9 DEF DescPlaced, x

LEMMA DataKept ==
    ASSUME NEW d, NEW B, TableOK(d, B), NEW t, NEW C, TableOK(t, C), Continues(d, t),
           NEW xs, GoodSet(xs), xs # <<>>, NEW ref, DataPlaced(d, ref, xs)
    PROVE  DataPlaced(t, ref, xs)
<1> DEFINE n == StoredSize(xs)
<1>1. PICK b \in Ends(d), p \in 0 .. Len(d.bytes) :
        /\ ref = Reference([block |-> SizeOf(d, b), offset |-> p - EndOf(d, b)])
        /\ EndOf(d, b) <= p /\ (b < Len(d.ends) => p < EndOf(d, b + 1))
        /\ p + n <= Len(d.bytes)
        /\ \A j \in 1 .. n : d.bytes[p + j] = DataBytes(xs)[j]
  BY DEF DataPlaced
<1>2. n \in Nat /\ n > 0
  BY DEF GoodSet
<1>3. /\ Len(d.bytes) \in Nat /\ Len(t.bytes) \in Nat /\ Len(d.ends) \in Nat /\ Len(t.ends) \in Nat
      /\ \A k \in Ends(t) : EndOf(t, k) \in Nat
  BY EndFacts
<1>4. /\ Len(d.ends) <= Len(t.ends) /\ \A k \in Ends(d) : EndOf(t, k) = EndOf(d, k)
      /\ Len(d.bytes) <= Len(t.bytes) /\ \A j \in 1 .. Len(d.bytes) : t.bytes[j] = d.bytes[j]
      /\ \A k \in Ends(t) : k > Len(d.ends) => EndOf(t, k) >= Len(d.bytes)
  BY DEF Continues
<1> HIDE DEF n
<1>5. b \in Nat /\ b \in Ends(t) /\ p \in 0 .. Len(t.bytes) /\ p \in Nat /\ b <= Len(d.ends)
  BY <1>3, <1>4 DEF Ends
<1>6. EndOf(t, b) = EndOf(d, b) /\ SizeOf(t, b) = SizeOf(d, b)
  BY <1>4 DEF SizeOf
<1>7. ASSUME b < Len(t.ends) PROVE p < EndOf(t, b + 1)
  <2>1. b + 1 \in Ends(t)
    BY <1>3, <1>5, <1>7 DEF Ends
  <2>2. CASE b < Len(d.ends)
    <3>1. b + 1 \in Ends(d)
      BY <1>3, <1>5, <2>2 DEF Ends
    <3> QED BY <1>1, <1>4, <2>2, <3>1
  <2>3. CASE ~(b < Len(d.ends))
    <3>1. b + 1 > Len(d.ends) /\ p < Len(d.bytes)
      BY <1>1, <1>2, <1>3, <1>5, <2>3
    <3> QED BY <1>3, <1>4, <1>5, <2>1, <3>1
  <2> QED BY <2>2, <2>3
<1>8. ASSUME NEW j \in 1 .. n PROVE t.bytes[p + j] = DataBytes(xs)[j]
  <2>1. p + j \in 1 .. Len(d.bytes)
    BY <1>1, <1>2, <1>3, <1>5
  <2> QED BY <1>1, <1>4, <2>1
<1>9. p + n <= Len(t.bytes)
  BY <1>1, <1>2, <1>3, <1>4, <1>5
<1>10. ref = Reference([block |-> SizeOf(t, b), offset |-> p - EndOf(t, b)]) /\ EndOf(t, b) <= p
  BY <1>1, <1>6
<1> QED BY <1>5, <1>7, <1>8, <1>9, <1>10 DEF DataPlaced, n

\* A set that is stored stays so whatever is appended or flushed.
LEMMA SetKept ==
    ASSUME NEW d, NEW e, NEW d1, NEW e1, NEW set,
           TableOK(d, DataByte), TableOK(e, DescByte), TableOK(d1, DataByte), TableOK(e1, DescByte),
           Continues(d, d1), Continues(e, e1), set.id \in Nat, GoodSet(set.attrs), SetStored(d, e, set)
    PROVE  SetStored(d1, e1, set)
<1>1. Len(e1.bytes) \in Nat
  BY EndFacts
<1>2. DescPlaced(e1, set.id) /\ DscOf(e1, set.id) = DscOf(e, set.id)
  BY <1>1, DescKept DEF SetStored
<1>3. set.attrs # <<>> => DataPlaced(d1, DscOf(e, set.id).xattr, set.attrs)
  BY DataKept DEF SetStored
<1> QED BY <1>2, <1>3 DEF SetStored

\* What libsqfs_xattrset_serialize_data appends is stored where the descriptor says.
LEMMA NewData ==
    ASSUME NEW d, TableOK(d, DataByte), NEW xs, GoodSet(xs), NEW t, t = MetaAppend(d, DataBytes(xs))
    PROVE  DataPlaced(t, Reference(PlaceIn(d)), xs)
<1> DEFINE n == StoredSize(xs)
           b == Len(d.ends)
           p == Len(d.bytes)
<1>1. n \in Nat /\ DataBytes(xs) \in Seq(DataByte) /\ Len(DataBytes(xs)) = n
  BY DEF GoodSet
<1>2. /\ TableOK(t, DataByte) /\ Continues(d, t)
      /\ Len(t.bytes) = p + n
      /\ \A j \in 1 .. n : t.bytes[p + j] = DataBytes(xs)[j]
      /\ \A k \in Ends(t) : k > b => EndOf(t, k) > p
  <2> DEFINE new == DataBytes(xs)
  <2> HIDE DEF new
  <2>1. Appended(d, new, t, DataByte)
    BY <1>1, AppendTable DEF new
  <2> QED BY <1>1, <2>1 DEF Appended, new
<1>3. b \in Nat /\ p \in Nat /\ Len(t.ends) \in Nat /\ b \in Ends(d) /\ LastEnd(d) \in Nat
  BY <1>2, EndFacts
<1>4. EndOf(t, b) = EndOf(d, b) /\ b <= Len(t.ends) /\ EndOf(d, b) = LastEnd(d) /\ LastEnd(d) <= p
  BY <1>2, <1>3 DEF Continues, LastEnd, TableOK
<1>5. PlaceIn(d) = [block |-> SizeOf(t, b), offset |-> p - EndOf(t, b)]
  BY <1>4 DEF PlaceIn, TableSize, SizeOf, OpenSize
<1> HIDE DEF n, b, p
<1>6. b \in Ends(t) /\ p \in 0 .. Len(t.bytes) /\ p + n <= Len(t.bytes) /\ EndOf(t, b) <= p
  BY <1>1, <1>2, <1>3, <1>4 DEF Ends
<1>7. b < Len(t.ends) => p < EndOf(t, b + 1)
  <2> SUFFICES ASSUME b < Len(t.ends) PROVE p < EndOf(t, b + 1)
    OBVIOUS
  <2>1. b + 1 \in Ends(t) /\ b + 1 > b
    BY <1>3 DEF Ends
  <2> QED BY <1>2, <2>1
<1> QED BY <1>2, <1>5, <1>6, <1>7 DEF DataPlaced, n

LEMMA NewDesc ==
    ASSUME NEW e, TableOK(e, DescByte), NEW dsc, NEW S, dsc \in S, S \X Nat = DescByte,
           NEW t, t = MetaAppend(e, BytesOf(dsc, DescSize)), NEW id \in Nat, Len(e.bytes) = id * DescSize
    PROVE  DescPlaced(t, id) /\ DscOf(t, id) = dsc
<1>1. /\ BytesOf(dsc, DescSize) \in Seq(DescByte) /\ Len(BytesOf(dsc, DescSize)) = DescSize
      /\ \A j \in 1 .. DescSize : BytesOf(dsc, DescSize)[j] = <<dsc, j>>
  BY BytesOfItem, MetaSizePositive
<1>2. /\ Len(t.bytes) = Len(e.bytes) + DescSize
      /\ \A j \in 1 .. DescSize : t.bytes[Len(e.bytes) + j] = BytesOf(dsc, DescSize)[j]
  <2> DEFINE new == BytesOf(dsc, DescSize)
  <2> HIDE DEF new
  <2>1. Appended(e, new, t, DescByte)
    BY <1>1, AppendTable DEF new
  <2> QED BY <1>1, <2>1 DEF Appended, new
<1>3. \A j \in 1 .. DescSize : t.bytes[id * DescSize + j] = <<dsc, j>>
  BY <1>1, <1>2
<1>4. DscOf(t, id) = dsc
  BY <1>3, MetaSizePositive DEF DscOf
<1>5. id * DescSize + DescSize <= Len(t.bytes)
  <2> DEFINE x == id * DescSize
  <2>1. x \in Nat /\ Len(t.bytes) = x + DescSize
    BY <1>2, DescProduct
  <2> HIDE DEF x
  <2>2. x + DescSize <= Len(t.bytes)
    BY <2>1, MetaSizePositive
  <2> QED BY <2>2 DEF x
<1> QED BY <1>3, <1>4, <1>5 DEF DescPlaced

\* A set that is stored is read back from an image that has the blocks of both tables,
\* if no block of descriptors before its own was ended early.
LEMMA SetRead ==
    ASSUME NEW d, NEW e, TableOK(d, DataByte), TableOK(e, DescByte),
           LastEnd(d) = Len(d.bytes), LastEnd(e) = Len(e.bytes),
           NEW base \in Nat, NEW set, set.id \in Nat, GoodSet(set.attrs), SetStored(d, e, set),
           set.attrs # <<>> => TableSize(d) < BlockRange,
           \A k \in Ends(e) : EndOf(e, k) = k * MetaSize \/ EndOf(e, k) >= set.id * DescSize + DescSize,
           NEW img, NEW n \in Nat, set.id < n, img.xattr_ids = n, img.start = base,
           img.blocks = BlocksAt(d, base) \cup BlocksAt(e, base + TableSize(d)),
           img.index = [k \in 1 .. (n * DescSize + MetaSize - 1) \div MetaSize |->
                           base + TableSize(d) + SizeOf(e, k - 1)]
    PROVE  SetReadBack(img, set)
<1> DEFINE id == set.id
           x == id * DescSize
           q == x \div MetaSize
           next == base + TableSize(d)
           dsc == DscOf(e, id)
           entries == (n * DescSize + MetaSize - 1) \div MetaSize
<1>1. Found(img, d, base) /\ Found(img, e, next)
  BY BlocksFound
<1>2. next \in Nat /\ TableSize(d) \in Nat
  BY SizeFacts
<1>3. /\ x \in Nat /\ q \in Nat /\ x % MetaSize = x - q * MetaSize
      /\ q * MetaSize \in Nat /\ q * MetaSize <= x /\ x < q * MetaSize + MetaSize
  <2>1. x \in Nat
    BY DescProduct
  <2> HIDE DEF x
  <2>2. q \in Nat /\ q * MetaSize <= x /\ x < q * MetaSize + MetaSize
    BY <2>1, Quotient
  <2>3. q * MetaSize \in Nat
    BY <2>2, Product
  <2>4. x % MetaSize = x - q * MetaSize
    BY <2>1, MetaSizePositive
  <2> QED BY <2>1, <2>2, <2>3, <2>4
<1>4. /\ x + DescSize <= LastEnd(e)
      /\ \A j \in 1 .. DescSize : e.bytes[x + j] = <<dsc, j>>
  BY DEF SetStored, DescPlaced
<1>5. /\ Len(e.ends) \in Nat /\ Len(e.ends) \in Ends(e) /\ LastEnd(e) \in Nat
      /\ \A k \in Ends(e) : EndOf(e, k) \in Nat
  BY EndFacts
<1>6. \A k \in Ends(e) : EndOf(e, k) = k * MetaSize \/ EndOf(e, k) >= x + DescSize
  OBVIOUS
<1>7. img.index = [k \in 1 .. entries |-> next + SizeOf(e, k - 1)]
  OBVIOUS
<1>8. q + 1 \in 1 .. entries
  <2> DEFINE y == n * DescSize
             z == (y + MetaSize) - 1
  <2>1. y \in Nat /\ x + DescSize <= y
    BY DescProduct
  <2> HIDE DEF x, y
  <2>2. z \in Nat /\ z >= x + MetaSize /\ entries = z \div MetaSize
    BY <1>3, <2>1, MetaSizePositive DEF y
  <2> HIDE DEF z, entries
  <2>3. entries \in Nat /\ z < entries * MetaSize + MetaSize
    BY <2>2, Quotient
  <2>4. entries * MetaSize \in Nat
    BY <2>3, Product
  <2> HIDE DEF q
  <2>5. ~(entries < q + 1)
    <3> SUFFICES ASSUME entries < q + 1 PROVE FALSE
      OBVIOUS
    <3>1. entries <= q
      BY <1>3, <2>3
    <3>2. entries * MetaSize <= q * MetaSize
      <4>1. entries = q \/ entries < q
        BY <1>3, <2>3, <3>1
      <4>2. entries < q => entries * MetaSize + MetaSize <= q * MetaSize
        BY <1>3, <2>3, Product
      <4> DEFINE u == entries * MetaSize
                 v == q * MetaSize
      <4>3. u \in Nat /\ v \in Nat /\ (entries = q => u = v) /\ (entries < q => u + MetaSize <= v)
        BY <1>3, <2>4, <4>2
      <4> HIDE DEF u, v
      <4>4. u <= v
        BY <4>1, <4>3, MetaSizePositive
      <4> QED BY <4>4 DEF u, v
    <3> DEFINE u == entries * MetaSize
               v == q * MetaSize
    <3>3. u \in Nat /\ v \in Nat /\ u <= v /\ v <= x /\ z < u + MetaSize
      BY <1>3, <2>3, <2>4, <3>2
    <3> HIDE DEF u, v
    <3> QED BY <1>3, <2>2, <3>3, MetaSizePositive
  <2> QED BY <1>3, <2>3, <2>5
<1> HIDE DEF entries, next, q, x, id
<1>9. q < Len(e.ends)
  <2> SUFFICES ASSUME ~(q < Len(e.ends)) PROVE FALSE
    OBVIOUS
  <2> DEFINE u == Len(e.ends) * MetaSize
             v == q * MetaSize
  <2>1. LastEnd(e) <= u
    BY <1>5 DEF TableOK, LastEnd
  <2>2. Len(e.ends) = q \/ Len(e.ends) < q
    BY <1>3, <1>5
  <2>3. u \in Nat /\ (Len(e.ends) < q => u + MetaSize <= v)
    BY <1>3, <1>5, Product
  <2>4. v \in Nat /\ v <= x /\ (Len(e.ends) = q => u = v)
    BY <1>3
  <2> HIDE DEF u, v
  <2> QED BY <1>3, <1>4, <1>5, <2>1, <2>2, <2>3, <2>4, MetaSizePositive
<1>10. q \in Ends(e) /\ q + 1 \in Ends(e) /\ q \in 0 .. Len(e.ends) - 1
  BY <1>3, <1>5, <1>9 DEF Ends
<1>11. EndOf(e, q) = q * MetaSize
  <2>1. EndOf(e, q) <= q * MetaSize
    BY <1>10 DEF TableOK
  <2>2. ~(EndOf(e, q) >= x + DescSize)
    <3> DEFINE u == EndOf(e, q)
               v == q * MetaSize
    <3>1. u \in Nat /\ v \in Nat /\ u <= v /\ v <= x
      BY <1>3, <1>5, <1>10, <2>1
    <3> HIDE DEF u, v
    <3>2. ~(u >= x + DescSize)
      BY <1>3, <3>1, MetaSizePositive
    <3> QED BY <3>2 DEF u
  <2> QED BY <1>6, <1>10, <2>2
<1>12. x < EndOf(e, q + 1)
  <2>1. CASE EndOf(e, q + 1) >= x + DescSize
    BY <1>3, <1>5, <1>10, <2>1, MetaSizePositive
  <2>2. CASE EndOf(e, q + 1) = (q + 1) * MetaSize
    <3>1. (q + 1) * MetaSize = q * MetaSize + MetaSize
      BY <1>3, MetaSizePositive
    <3> QED BY <1>3, <2>2, <3>1
  <2> QED BY <1>6, <1>10, <2>1, <2>2
<1>13. Within(e, x, q)
  BY <1>3, <1>10, <1>11, <1>12 DEF Within
<1>14. ReadDescriptor(img, id) = [j \in 1 .. DescSize |-> e.bytes[x + j]]
  <2>0. \A k \in 1 .. entries : img.index[k] = next + SizeOf(e, k - 1)
    BY <1>7, Zenon
  <2>1. img.index[q + 1] = next + SizeOf(e, (q + 1) - 1) /\ (q + 1) - 1 = q
    <3>1. (q + 1) - 1 = q
      BY <1>3
    <3>2. img.index[q + 1] = next + SizeOf(e, (q + 1) - 1)
      BY <1>8, <2>0, Zenon
    <3> QED BY <3>1, <3>2
  <2>2. ReadDescriptor(img, id) = ReadBytes(img, next + SizeOf(e, q), x - EndOf(e, q), DescSize)
    <3>1. ReadDescriptor(img, id) = ReadBytes(img, img.index[q + 1], x % MetaSize, DescSize)
      BY DEF ReadDescriptor, q, x
    <3>2. img.index[q + 1] = next + SizeOf(e, q) /\ x % MetaSize = x - EndOf(e, q)
      BY <1>3, <1>11, <2>1
    <3> QED BY <3>1, <3>2
  <2>3. Reads(img, e, next, q, x, DescSize)
    BY <1>1, <1>2, <1>3, <1>4, <1>13, ReadRange, MetaSizePositive
  <2> QED BY <2>2, <2>3 DEF Reads
<1>15. ReadDescriptor(img, id) = BytesOf(dsc, DescSize)
  BY <1>4, <1>14 DEF BytesOf
<1>16. dsc.count = Len(set.attrs) /\ dsc.size = StoredSize(set.attrs)
  BY DEF SetStored, id
<1>17. ReadBytes(img, img.start + dsc.xattr.block, dsc.xattr.offset, dsc.size) = DataBytes(set.attrs)
  <2>1. CASE set.attrs = <<>>
    <3>1. DataBytes(set.attrs) = <<>> /\ dsc.size = 0
      <4>1. DataBytes(set.attrs) = <<>> /\ Len(DataBytes(set.attrs)) = StoredSize(set.attrs)
        BY <2>1 DEF GoodSet
      <4>2. Len(<<>>) = 0
        OBVIOUS
      <4> QED BY <1>16, <4>1, <4>2
    <3>2. ASSUME NEW at, NEW offset PROVE ReadBytes(img, at, offset, 0) = <<>>
      <4>1. 1 .. 0 = {}
        OBVIOUS
      <4> QED BY <4>1 DEF ReadBytes
    <3> QED BY <3>1, <3>2
  <2>2. CASE set.attrs # <<>>
    <3> DEFINE m == StoredSize(set.attrs)
               new == DataBytes(set.attrs)
    <3>1. PICK b \in Ends(d), p \in 0 .. Len(d.bytes) :
            /\ dsc.xattr = Reference([block |-> SizeOf(d, b), offset |-> p - EndOf(d, b)])
            /\ EndOf(d, b) <= p /\ (b < Len(d.ends) => p < EndOf(d, b + 1))
            /\ p + m <= Len(d.bytes)
            /\ \A j \in 1 .. m : d.bytes[p + j] = new[j]
      BY <2>2 DEF SetStored, DataPlaced, id
    <3>2. m \in Nat /\ m > 0 /\ new \in Seq(DataByte) /\ Len(new) = m
      BY <2>2 DEF GoodSet
    <3>3. /\ Len(d.ends) \in Nat /\ Len(d.bytes) \in Nat
          /\ \A k \in Ends(d) : EndOf(d, k) \in Nat /\ k \in Nat
      BY EndFacts
    <3> HIDE DEF m, new, dsc
    <3>4. p \in Nat /\ p + m <= LastEnd(d) /\ p < LastEnd(d)
      BY <3>1, <3>2, <3>3
    <3>5. b \in 0 .. Len(d.ends) - 1
      <4>1. b # Len(d.ends)
        BY <3>1, <3>3, <3>4 DEF LastEnd
      <4> QED BY <3>3, <4>1 DEF Ends
    <3>6. Within(d, p, b)
      BY <3>1, <3>3, <3>5 DEF Within
    <3>7. SizeOf(d, b) \in Nat /\ SizeOf(d, b) < BlockRange
      BY <1>2, <2>2, SizeFacts, MetaSizePositive
    <3>8. dsc.xattr.block = SizeOf(d, b) /\ dsc.xattr.offset = p - EndOf(d, b)
      <4>1. dsc.xattr.block = SizeOf(d, b) % BlockRange /\ dsc.xattr.offset = p - EndOf(d, b)
        BY <3>1 DEF Reference
      <4>2. SizeOf(d, b) % BlockRange = SizeOf(d, b)
        BY <3>7, SmallBlock
      <4> QED BY <4>1, <4>2
    <3>9. ReadBytes(img, base + SizeOf(d, b), p - EndOf(d, b), m) = [j \in 1 .. m |-> d.bytes[p + j]]
      <4>1. Reads(img, d, base, b, p, m)
        BY <1>1, <3>2, <3>4, <3>6, ReadRange
      <4> QED BY <4>1 DEF Reads
    <3>10. [j \in 1 .. m |-> d.bytes[p + j]] = new
      <4>1. new = [j \in 1 .. m |-> new[j]]
        BY <3>2
      <4> QED BY <3>1, <4>1
    <3> QED BY <1>16, <3>8, <3>9, <3>10 DEF m, new
  <2> QED BY <2>1, <2>2
<1>18. BytesOf(dsc, DescSize)[1] = <<dsc, 1>>
  BY MetaSizePositive DEF BytesOf
<1>19. <<dsc, 1>> # NoByte /\ <<dsc, 1>>[1] = dsc
  BY DEF NoByte
<1> HIDE DEF dsc
<1>20. set.id = id /\ id < img.xattr_ids
  BY DEF id
<1> QED BY <1>15, <1>16, <1>17, <1>18, <1>19, <1>20 DEF SetReadBack

-----------------------------------------------------------------------------
(* The invariant.                                                          *)

SetRecords == [id : Nat, attrs : Seq(Attributes)]

\* Types; every set has a number that was given out, and what an inode names is a set.
XattrTypeOK ==
    /\ IdTypeOK
    /\ xattrs \subseteq Attributes
    /\ nids \in Nat /\ trusted \in Nat /\ isize \in Nat /\ lost \in BOOLEAN
    /\ sets \in Seq(SetRecords)
    /\ \A n \in DOMAIN sets : sets[n].id < nids /\ GoodSet(sets[n].attrs)
    /\ xset \in Seq(Nat) /\ Len(xset) = Len(attrs)
    /\ \A i \in DOMAIN xset : xset[i] <= Len(sets)

TablesOK == TableOK(data, DataByte) /\ TableOK(desc, DescByte)

\* The numbers whose descriptors are where a reader looks: those given out and trusted.
Sure == IF trusted < nids THEN trusted ELSE nids

\* No block of descriptors ends early before those; as long as every number has been
\* trusted, the table has all descriptors, in full blocks.
SureTo(tab, n) ==
    /\ n * DescSize <= Len(tab.bytes)
    /\ \A k \in Ends(tab) : EndOf(tab, k) = k * MetaSize \/ EndOf(tab, k) >= n * DescSize
FullTo(tab, n) ==
    /\ Len(tab.bytes) = n * DescSize
    /\ \A k \in Ends(tab) : EndOf(tab, k) = k * MetaSize
DescInv ==
    /\ SureTo(desc, Sure)
    /\ phase = "building" /\ trusted > nids => FullTo(desc, nids)
    /\ ~lost => Len(desc.bytes) = nids * DescSize

\* Trusted sets are stored.
SetsInv == \A n \in DOMAIN sets : sets[n].id < trusted => SetStored(data, desc, sets[n])

\* What is on disk has inodes that exist.
WrittenInv == written # NotWritten => written.inodes \in Nat /\ written.inodes <= Len(attrs)

XattrInv ==
    /\ XattrTypeOK /\ AttrsRefer /\ TablesOK /\ DescInv /\ SetsInv /\ WrittenInv
    /\ AttributesReadBack /\ IndexWithinBlocks

LEMMA FullIsSure ==
    ASSUME NEW tab, NEW n \in Nat, FullTo(tab, n)
    PROVE  SureTo(tab, n)
<1>1. n * DescSize \in Nat
  BY DescProduct
<1> QED BY <1>1 DEF FullTo, SureTo

LEMMA SureContinues ==
    ASSUME NEW e, NEW B, TableOK(e, B), NEW t, NEW C, TableOK(t, C), Continues(e, t),
           NEW n \in Nat, SureTo(e, n)
    PROVE  SureTo(t, n)
<1> DEFINE x == n * DescSize
<1>1. x \in Nat
  BY DescProduct
<1>2. /\ Len(e.bytes) \in Nat /\ Len(t.bytes) \in Nat /\ Len(e.ends) \in Nat /\ Len(t.ends) \in Nat
      /\ \A k \in Ends(t) : EndOf(t, k) \in Nat
  BY EndFacts
<1>3. x <= Len(e.bytes) /\ \A k \in Ends(e) : EndOf(e, k) = k * MetaSize \/ EndOf(e, k) >= x
  BY DEF SureTo
<1> HIDE DEF x
<1>4. x <= Len(t.bytes)
  BY <1>1, <1>2, <1>3 DEF Continues
<1>5. ASSUME NEW k \in Ends(t) PROVE EndOf(t, k) = k * MetaSize \/ EndOf(t, k) >= x
  <2>1. CASE k \in Ends(e)
    BY <1>3, <2>1 DEF Continues
  <2>2. CASE k \notin Ends(e)
    <3>1. k > Len(e.ends)
      BY <1>2, <2>2 DEF Ends
    <3>2. EndOf(t, k) >= Len(e.bytes)
      BY <3>1 DEF Continues
    <3> QED BY <1>1, <1>2, <1>3, <3>2
  <2> QED BY <2>1, <2>2
<1> QED BY <1>4, <1>5 DEF SureTo, x

LEMMA FullAppended ==
    ASSUME NEW e, NEW B, TableOK(e, B), NEW new, NEW t, Appended(e, new, t, B),
           Len(new) = DescSize, NEW n \in Nat, FullTo(e, n)
    PROVE  FullTo(t, n + 1)
<1> DEFINE m == Len(e.ends)
<1>1. m \in Nat /\ m \in Ends(e) /\ Len(t.ends) \in Nat
  BY EndFacts DEF Appended
<1>2. Len(t.bytes) = (n + 1) * DescSize
  BY DescProduct DEF Appended, FullTo
<1>3. LastEnd(e) = m * MetaSize
  BY <1>1 DEF LastEnd, FullTo
<1>4. ASSUME NEW k \in Ends(t) PROVE EndOf(t, k) = k * MetaSize
  <2>1. CASE k \in Ends(e)
    BY <2>1 DEF Appended, Continues, FullTo
  <2>2. CASE k \notin Ends(e)
    <3>1. k > m /\ k \in Nat /\ k - m \in Nat /\ m + (k - m) = k
      BY <1>1, <2>2 DEF Ends
    <3>2. EndOf(t, k) = LastEnd(e) + (k - m) * MetaSize
      BY <3>1 DEF Appended
    <3>3. (m + (k - m)) * MetaSize = m * MetaSize + (k - m) * MetaSize
      BY <1>1, <3>1, Product
    <3> QED BY <1>3, <3>1, <3>2, <3>3
  <2> QED BY <2>1, <2>2
<1> QED BY <1>2, <1>4 DEF FullTo

LEMMA SizeGrows ==
    ASSUME NEW d, NEW B, TableOK(d, B), NEW t, NEW C, TableOK(t, C), Continues(d, t)
    PROVE  TableSize(d) <= TableSize(t) /\ TableSize(d) \in Nat /\ TableSize(t) \in Nat
<1>1. Len(d.ends) \in Nat /\ Len(t.ends) \in Nat /\ Len(d.ends) \in Ends(d)
  BY EndFacts
<1>2. Len(d.ends) \in Ends(t)
  BY <1>1 DEF Continues, Ends
<1>3. SizeOf(t, Len(d.ends)) = TableSize(d)
  BY <1>1 DEF Continues, SizeOf, TableSize
<1> QED BY <1>2, <1>3, SizeFacts

LEMMA ContinuesSame ==
    ASSUME NEW tab, NEW B, TableOK(tab, B)
    PROVE  Continues(tab, tab)
<1>1. Len(tab.bytes) \in Nat /\ Len(tab.ends) \in Nat
  BY EndFacts
<1> QED BY <1>1 DEF Continues, Ends

LEMMA SureIsNat == XattrTypeOK => Sure \in Nat /\ Sure <= nids /\ Sure <= trusted
BY DEF XattrTypeOK, Sure

LEMMA XattrInitInv == XattrInit => XattrInv
<1> SUFFICES ASSUME XattrInit PROVE XattrInv
  OBVIOUS
<1>1. IdTypeOK /\ AttrsRefer
  BY InitIds DEF XattrInit
<1>2. attrs = <<>> /\ sets = <<>> /\ xset = <<>> /\ xattrs = {} /\ nids = 0 /\ lost = FALSE
  BY DEF XattrInit, Init
<1>3. data = EmptyTable /\ desc = EmptyTable /\ trusted = MaxSets /\ isize = ImageStart
  BY DEF XattrInit
<1>4. written = NotWritten /\ phase = "building"
  BY DEF XattrInit
<1>5. XattrTypeOK
  <2>1. nids \in Nat /\ trusted \in Nat /\ isize \in Nat /\ lost \in BOOLEAN /\ xattrs \subseteq Attributes
    BY <1>2, <1>3, MetaSizePositive
  <2>2. sets \in Seq(SetRecords) /\ DOMAIN sets = {} /\ xset \in Seq(Nat) /\ DOMAIN xset = {}
    BY <1>2
  <2>3. Len(xset) = Len(attrs)
    BY <1>2
  <2> QED BY <1>1, <2>1, <2>2, <2>3 DEF XattrTypeOK
<1>6. TablesOK
  BY <1>3, EmptyTableOK DEF TablesOK
<1>7. FullTo(desc, 0) /\ Sure = 0
  <2>1. desc.bytes = <<>> /\ desc.ends = <<>>
    BY <1>3 DEF EmptyTable
  <2>2. Ends(desc) = {0} /\ EndOf(desc, 0) = 0 /\ 0 * MetaSize = 0 /\ 0 * DescSize = 0 /\ Len(desc.bytes) = 0
    BY <2>1, MetaSizePositive DEF Ends, EndOf
  <2>3. Sure = 0
    BY <1>2, <1>3, MetaSizePositive DEF Sure
  <2> QED BY <2>2, <2>3 DEF FullTo
<1>8. DescInv
  BY <1>2, <1>7, FullIsSure DEF DescInv, FullTo
<1>9. SetsInv
  BY <1>2 DEF SetsInv
<1> QED BY <1>1, <1>4, <1>5, <1>6, <1>8, <1>9 DEF XattrInv, WrittenInv, AttributesReadBack, IndexWithinBlocks

\* What was read back stays so while the image on disk is the same: sets are only added,
\* numbers only lose trust, and the table of data only grows.
LEMMA ReadBackKept ==
    ASSUME XattrTypeOK, TablesOK, WrittenInv, AttributesReadBack, written' = written,
           trusted' \in Nat, trusted' <= trusted, TableOK(data, DataByte)', Continues(data, data'),
           \A n \in DOMAIN sets : n \in DOMAIN sets' /\ sets'[n] = sets[n],
           \A i \in DOMAIN attrs : attrs'[i] = attrs[i] /\ xset'[i] = xset[i]
    PROVE  AttributesReadBack'
<1> SUFFICES ASSUME written # NotWritten, NEW i \in 1 .. written.inodes
             PROVE  /\ Len(written.ids) <= IdRange =>
                          /\ written.ids[attrs'[i].mapped_uid + 1] = attrs'[i].uid
                          /\ written.ids[attrs'[i].mapped_gid + 1] = attrs'[i].gid
                    /\ xset'[i] # 0 /\ sets'[xset'[i]].id < trusted' /\ ~OutOfRange(sets[xset[i]])'
                         => SetReadBack(written, sets'[xset'[i]])
  BY DEF AttributesReadBack
<1>1. written.inodes \in Nat /\ written.inodes <= Len(attrs)
  BY DEF WrittenInv
<1>2. attrs \in Seq(AttrRecords) /\ xset \in Seq(Nat) /\ Len(xset) = Len(attrs) /\ sets \in Seq(SetRecords)
  BY DEF XattrTypeOK, IdTypeOK, AttrRecords
<1>3. i \in DOMAIN attrs /\ i \in DOMAIN xset
  BY <1>1, <1>2
<1>4. attrs'[i] = attrs[i] /\ xset'[i] = xset[i]
  BY <1>3
<1>5. /\ Len(written.ids) <= IdRange =>
            /\ written.ids[attrs[i].mapped_uid + 1] = attrs[i].uid
            /\ written.ids[attrs[i].mapped_gid + 1] = attrs[i].gid
      /\ xset[i] # 0 /\ sets[xset[i]].id < trusted /\ ~OutOfRange(sets[xset[i]])
           => SetReadBack(written, sets[xset[i]])
  BY DEF AttributesReadBack
<1>6. ASSUME xset[i] # 0, sets'[xset'[i]].id < trusted', ~OutOfRange(sets[xset[i]])'
      PROVE  SetReadBack(written, sets'[xset'[i]])
  <2> DEFINE n == xset[i]
  <2>1. n \in DOMAIN sets
    BY <1>2, <1>3, <1>6 DEF XattrTypeOK
  <2>2. sets'[xset'[i]] = sets[n] /\ sets[n].id \in Nat
    <3>1. sets[n] \in SetRecords
      BY <1>2, <2>1
    <3>2. sets[n].id \in Nat
      BY <3>1 DEF SetRecords
    <3> QED BY <1>4, <2>1, <3>2
  <2>3. sets[n].id < trusted
    BY <1>6, <2>2 DEF XattrTypeOK
  <2>4. TableSize(data) <= TableSize(data') /\ TableSize(data) \in Nat /\ TableSize(data') \in Nat
    BY SizeGrows DEF TablesOK
  <2>5. ~OutOfRange(sets[n])
    BY <1>6, <2>2, <2>4, MetaSizePositive DEF OutOfRange
  <2> QED BY <1>5, <1>6, <2>2, <2>3, <2>5
<1> QED BY <1>4, <1>5, <1>6

LEMMA SetsKept ==
    ASSUME XattrTypeOK, TablesOK, SetsInv, TablesOK', Continues(data, data'), Continues(desc, desc'),
           trusted' \in Nat, trusted' <= trusted
    PROVE  \A n \in DOMAIN sets : sets[n].id < trusted' => SetStored(data', desc', sets[n])
<1> SUFFICES ASSUME NEW n \in DOMAIN sets, sets[n].id < trusted'
             PROVE  SetStored(data', desc', sets[n])
  OBVIOUS
<1>1. sets[n] \in SetRecords
  BY DEF XattrTypeOK
<1>2. sets[n].id \in Nat /\ GoodSet(sets[n].attrs) /\ trusted \in Nat
  BY <1>1 DEF XattrTypeOK, SetRecords
<1>3. SetStored(data, desc, sets[n])
  BY <1>2 DEF SetsInv
<1>4. /\ TableOK(data, DataByte) /\ TableOK(desc, DescByte)
      /\ TableOK(data', DataByte) /\ TableOK(desc', DescByte)
  BY DEF TablesOK
<1> DEFINE set == sets[n]
<1> HIDE DEF set
<1>5. set.id \in Nat /\ GoodSet(set.attrs) /\ SetStored(data, desc, set)
  BY <1>2, <1>3 DEF set
<1>6. SetStored(data', desc', set)
  BY <1>4, <1>5, SetKept
<1> QED BY <1>6 DEF set

LEMMA IdsKept ==
    ASSUME IdTypeOK, AttrsRefer, UNCHANGED idVars
    PROVE  IdTypeOK' /\ AttrsRefer'
BY DEF IdTypeOK, AttrsRefer, Refers, idVars

LEMMA XattrCreateStep ==
    ASSUME XattrInv, NEW a \in Attributes, XattrCreate(a)
    PROVE  XattrInv'
<1>1. /\ XattrTypeOK /\ AttrsRefer /\ TablesOK /\ DescInv /\ SetsInv /\ WrittenInv
      /\ AttributesReadBack /\ IndexWithinBlocks
  BY DEF XattrInv
<1>2. /\ UNCHANGED <<idVars, xset, nids, sets, data, desc, lost, trusted, isize, written, phase>>
      /\ xattrs' = xattrs \cup {a}
  BY DEF XattrCreate, diskVars
<1>3. IdTypeOK' /\ AttrsRefer'
  BY <1>1, <1>2, IdsKept DEF XattrTypeOK
<1>4. XattrTypeOK'
  BY <1>1, <1>2, <1>3 DEF XattrTypeOK, idVars
<1>5. TablesOK' /\ DescInv' /\ SetsInv' /\ WrittenInv' /\ IndexWithinBlocks' /\ AttributesReadBack'
  BY <1>1, <1>2 DEF TablesOK, DescInv, Sure, SetsInv, WrittenInv, IndexWithinBlocks,
     AttributesReadBack, OutOfRange, idVars
<1> QED BY <1>3, <1>4, <1>5 DEF XattrInv

\* libsqfs_inodeattr_create_extended.
LEMMA ExtendedStep ==
    ASSUME XattrInv, NEW uid \in Owners, NEW gid \in Owners, NEW set \in 0 .. Len(sets),
           InodeattrCreateExtended(uid, gid, set)
    PROVE  XattrInv'
<1>1. /\ XattrTypeOK /\ AttrsRefer /\ TablesOK /\ DescInv /\ SetsInv /\ WrittenInv
      /\ AttributesReadBack /\ IndexWithinBlocks
  BY DEF XattrInv
<1>2. UNCHANGED <<xattrs, nids, sets, data, desc, lost, trusted, isize, written, phase>>
  BY DEF InodeattrCreateExtended, diskVars, xattrVars
<1>3. IdTypeOK
  BY <1>1 DEF XattrTypeOK
<1>4. CreateSimple(uid, gid, TRUE, TRUE)
  BY DEF InodeattrCreateExtended
<1>5. /\ IdTypeOK' /\ AttrsRefer'
      /\ \E attr \in AttrRecords : attrs' = Append(attrs, attr)
  BY <1>1, <1>3, <1>4, CreateStep
<1>6. PICK attr \in AttrRecords : attrs' = Append(attrs, attr)
  BY <1>5
<1>7. attrs \in Seq(AttrRecords) /\ xset \in Seq(Nat) /\ Len(xset) = Len(attrs) /\ sets \in Seq(SetRecords)
  BY <1>1, <1>3 DEF XattrTypeOK, IdTypeOK, AttrRecords
<1>8. attrs' # attrs /\ Len(attrs') = Len(attrs) + 1 /\ \A i \in DOMAIN attrs : attrs'[i] = attrs[i]
  BY <1>6, <1>7
<1>9. xset' = Append(xset, set)
  BY <1>8 DEF InodeattrCreateExtended
<1>10. set \in Nat /\ set <= Len(sets)
  BY <1>7
<1>11. xset' \in Seq(Nat) /\ Len(xset') = Len(xset) + 1 /\ (\A i \in DOMAIN xset : xset'[i] = xset[i])
       /\ xset'[Len(xset) + 1] = set
  BY <1>7, <1>9, <1>10
<1>12. \A i \in DOMAIN xset' : xset'[i] <= Len(sets)
  <2> SUFFICES ASSUME NEW i \in DOMAIN xset' PROVE xset'[i] <= Len(sets)
    OBVIOUS
  <2>1. i \in DOMAIN xset \/ i = Len(xset) + 1
    BY <1>7, <1>11
  <2> QED BY <1>1, <1>10, <1>11, <2>1 DEF XattrTypeOK
<1>13. XattrTypeOK'
  BY <1>1, <1>2, <1>5, <1>7, <1>8, <1>11, <1>12 DEF XattrTypeOK
<1>14. TablesOK' /\ DescInv' /\ SetsInv' /\ IndexWithinBlocks'
  BY <1>1, <1>2 DEF TablesOK, DescInv, Sure, SetsInv, IndexWithinBlocks
<1>15. WrittenInv'
  <2>1. Len(attrs) \in Nat
    BY <1>7
  <2> QED BY <1>1, <1>2, <1>8, <2>1 DEF WrittenInv
<1>16. AttributesReadBack'
  <2>1. DOMAIN attrs = DOMAIN xset
    BY <1>7
  <2>2. \A i \in DOMAIN attrs : attrs'[i] = attrs[i] /\ xset'[i] = xset[i]
    BY <1>8, <1>11, <2>1
  <2>3. trusted' \in Nat /\ trusted' <= trusted
    BY <1>1, <1>2 DEF XattrTypeOK
  <2>4. Continues(data, data') /\ TableOK(data, DataByte)'
    BY <1>1, <1>2, ContinuesSame DEF TablesOK
  <2>5. written' = written /\ \A n \in DOMAIN sets : n \in DOMAIN sets' /\ sets'[n] = sets[n]
    BY <1>2
  <2> QED BY <1>1, <2>2, <2>3, <2>4, <2>5, ReadBackKept
<1> QED BY <1>5, <1>13, <1>14, <1>15, <1>16 DEF XattrInv

\* libsqfs_xattrset_create that succeeds.
LEMMA SetCreateStep ==
    ASSUME XattrInv, NEW xs \in Collections, XattrsetCreate(xs)
    PROVE  XattrInv'
<1>1. /\ XattrTypeOK /\ AttrsRefer /\ TablesOK /\ DescInv /\ SetsInv /\ WrittenInv
      /\ AttributesReadBack /\ IndexWithinBlocks
  BY DEF XattrInv
<1>2. /\ UNCHANGED <<idVars, xset, xattrs, lost, trusted, isize, written, phase>>
      /\ nids' = nids + 1 /\ sets' = Append(sets, [id |-> nids, attrs |-> xs])
      /\ data' = MetaAppend(data, DataBytes(xs)) /\ phase = "building"
  BY DEF XattrsetCreate, diskVars
<1>3. PICK pos \in StoredPos(xs) : desc' = MetaAppend(desc, BytesOf(Descriptor(xs, pos), DescSize))
  BY DEF XattrsetCreate
<1> DEFINE dsc == Descriptor(xs, pos)
           S == [xattr : [block : Nat, offset : Nat], count : Nat, size : Nat]
           new == DataBytes(xs)
           head == BytesOf(dsc, DescSize)
           set == [id |-> nids, attrs |-> xs]
<1>4. GoodSet(xs) /\ xs \in Seq(Attributes)
  <2>1. xattrs \subseteq Attributes
    BY <1>1 DEF XattrTypeOK
  <2>2. PICK m \in 0 .. 2 : xs \in [1 .. m -> xattrs]
    BY DEF Collections, SeqOf
  <2>3. xs \in Seq(Attributes)
    BY <2>1, <2>2
  <2> QED BY <2>1, <2>3, CollectionsGood
<1>5. nids \in Nat /\ trusted \in Nat /\ sets \in Seq(SetRecords) /\ TableOK(data, DataByte) /\ TableOK(desc, DescByte)
  BY <1>1 DEF XattrTypeOK, TablesOK
<1>6. dsc \in S /\ dsc.count = Len(xs) /\ dsc.size = StoredSize(xs) /\ dsc.xattr = Reference(pos)
  <2>1. TableSize(data) \in Nat /\ OpenSize(data) \in Nat
    BY <1>5, SizeFacts, EndFacts, MetaSizePositive
  <2>2. pos.block \in Nat /\ pos.offset \in Nat
    BY <2>1 DEF StoredPos, PlaceIn
  <2>3. pos.block % BlockRange \in Nat
    BY <2>2, MetaSizePositive
  <2>4. Reference(pos) \in [block : Nat, offset : Nat]
    BY <2>2, <2>3 DEF Reference
  <2> QED BY <1>4, <2>4 DEF Descriptor, GoodSet
<1>7. S \X Nat = DescByte
  BY DEF DescByte
<1> HIDE DEF dsc, S
<1>8. head \in Seq(DescByte) /\ Len(head) = DescSize
  BY <1>6, <1>7, BytesOfItem, MetaSizePositive
<1>9. desc' = MetaAppend(desc, head) /\ data' = MetaAppend(data, new)
  BY <1>2, <1>3 DEF dsc
<1>10. new \in Seq(DataByte)
  BY <1>4 DEF GoodSet
<1> HIDE DEF new, head
<1>11. Appended(desc, head, desc', DescByte)
  BY <1>5, <1>8, <1>9, AppendTable
<1>12. Appended(data, new, data', DataByte)
  BY <1>5, <1>9, <1>10, AppendTable
<1>13. TablesOK' /\ Continues(data, data') /\ Continues(desc, desc')
  BY <1>11, <1>12 DEF Appended, TablesOK
<1>14. DescInv'
  <2>1. Len(desc'.bytes) = Len(desc.bytes) + DescSize
    BY <1>8, <1>11 DEF Appended
  <2>2. ASSUME ~lost' PROVE Len(desc'.bytes) = nids' * DescSize
    <3>1. Len(desc.bytes) = nids * DescSize
      BY <1>1, <1>2, <2>2 DEF DescInv
    <3> QED BY <1>2, <1>5, <2>1, <3>1, DescProduct
  <2>3. CASE trusted > nids
    <3>1. FullTo(desc, nids)
      BY <1>1, <1>2, <2>3 DEF DescInv
    <3>2. FullTo(desc', nids + 1)
      BY <1>5, <1>8, <1>11, <3>1, FullAppended
    <3>3. Sure' = nids + 1
      BY <1>2, <1>5, <2>3 DEF Sure
    <3>4. SureTo(desc', nids + 1)
      BY <1>5, <3>2, FullIsSure
    <3> QED BY <1>2, <2>2, <3>2, <3>3, <3>4 DEF DescInv
  <2>4. CASE ~(trusted > nids)
    <3>1. Sure = trusted /\ Sure' = trusted /\ ~(trusted' > nids')
      BY <1>2, <1>5, <2>4 DEF Sure
    <3>2. SureTo(desc, trusted)
      BY <1>1, <3>1 DEF DescInv
    <3>3. SureTo(desc', trusted)
      BY <1>5, <1>13, <3>2, SureContinues DEF TablesOK
    <3> QED BY <2>2, <3>1, <3>3 DEF DescInv
  <2> QED BY <2>3, <2>4
<1>15. set \in SetRecords /\ set.id = nids /\ set.attrs = xs
  BY <1>4, <1>5 DEF SetRecords
<1>16. sets' = Append(sets, set)
  BY <1>2
<1> HIDE DEF set
<1>17. /\ sets' \in Seq(SetRecords) /\ Len(sets') = Len(sets) + 1 /\ sets'[Len(sets) + 1] = set
       /\ \A n \in DOMAIN sets : n \in DOMAIN sets' /\ sets'[n] = sets[n]
       /\ \A n \in DOMAIN sets' : n \in DOMAIN sets \/ n = Len(sets) + 1
       /\ Len(sets) \in Nat
  BY <1>5, <1>15, <1>16
<1>18. SetsInv'
  <2>1. \A n \in DOMAIN sets : sets[n].id < trusted' => SetStored(data', desc', sets[n])
    <3>1. trusted' \in Nat /\ trusted' <= trusted
      BY <1>2, <1>5
    <3> QED BY <1>1, <1>13, <3>1, SetsKept
  <2>2. ASSUME nids < trusted PROVE SetStored(data', desc', set)
    <3>1. FullTo(desc, nids)
      BY <1>1, <1>2, <1>5, <2>2 DEF DescInv
    <3>2. DescPlaced(desc', nids) /\ DscOf(desc', nids) = dsc
      BY <1>5, <1>6, <1>7, <1>9, <3>1, NewDesc DEF FullTo, head
    <3>3. ASSUME xs # <<>> PROVE DataPlaced(data', dsc.xattr, xs)
      <4>1. pos = PlaceIn(data)
        BY <3>3 DEF StoredPos
      <4> QED BY <1>4, <1>5, <1>6, <1>9, <4>1, NewData DEF new
    <3> QED BY <1>6, <1>15, <3>2, <3>3 DEF SetStored
  <2> SUFFICES ASSUME NEW n \in DOMAIN sets', sets'[n].id < trusted'
               PROVE  SetStored(data', desc', sets'[n])
    BY DEF SetsInv
  <2>3. CASE n \in DOMAIN sets
    BY <1>17, <2>1, <2>3
  <2>4. CASE n = Len(sets) + 1
    BY <1>2, <1>15, <1>17, <2>2, <2>4
  <2> QED BY <1>17, <2>3, <2>4
<1>19. IdTypeOK' /\ AttrsRefer'
  BY <1>1, <1>2, IdsKept DEF XattrTypeOK
<1>20. XattrTypeOK'
  <2>1. \A n \in DOMAIN sets' : sets'[n].id < nids' /\ GoodSet(sets'[n].attrs)
    <3> SUFFICES ASSUME NEW n \in DOMAIN sets' PROVE sets'[n].id < nids' /\ GoodSet(sets'[n].attrs)
      OBVIOUS
    <3>1. CASE n \in DOMAIN sets
      <4>1. sets[n] \in SetRecords /\ sets[n].id < nids /\ GoodSet(sets[n].attrs)
        BY <1>1, <1>5, <3>1 DEF XattrTypeOK
      <4>2. sets[n].id \in Nat
        BY <4>1 DEF SetRecords
      <4> QED BY <1>2, <1>5, <1>17, <3>1, <4>1, <4>2
    <3>2. CASE n = Len(sets) + 1
      BY <1>2, <1>4, <1>5, <1>15, <1>17, <3>2
    <3> QED BY <1>17, <3>1, <3>2
  <2>2. \A i \in DOMAIN xset' : xset'[i] <= Len(sets')
    BY <1>1, <1>2, <1>17 DEF XattrTypeOK
  <2> QED BY <1>1, <1>2, <1>5, <1>17, <1>19, <2>1, <2>2 DEF XattrTypeOK, idVars
<1>21. WrittenInv' /\ IndexWithinBlocks'
  BY <1>1, <1>2 DEF WrittenInv, IndexWithinBlocks, idVars
<1>22. AttributesReadBack'
  <2>1. \A i \in DOMAIN attrs : attrs'[i] = attrs[i] /\ xset'[i] = xset[i]
    BY <1>2 DEF idVars
  <2>2. trusted' \in Nat /\ trusted' <= trusted /\ written' = written
    BY <1>2, <1>5
  <2>3. TableOK(data, DataByte)'
    BY <1>13 DEF TablesOK
  <2> QED BY <1>1, <1>13, <1>17, <2>1, <2>2, <2>3, ReadBackKept
<1> QED BY <1>13, <1>14, <1>18, <1>19, <1>20, <1>21, <1>22 DEF XattrInv

\* libsqfs_xattrset_create that fails at an append.
LEMMA SetFailStep ==
    ASSUME XattrInv, NEW xs \in Collections, XattrsetFail(xs)
    PROVE  XattrInv'
<1>1. /\ XattrTypeOK /\ AttrsRefer /\ TablesOK /\ DescInv /\ SetsInv /\ WrittenInv
      /\ AttributesReadBack /\ IndexWithinBlocks
  BY DEF XattrInv
<1>2. /\ UNCHANGED <<idVars, xset, xattrs, sets, desc, isize, written, phase>>
      /\ nids' = nids + 1 /\ lost' = TRUE /\ trusted' = IF trusted > nids THEN nids ELSE trusted
      /\ phase = "building"
  BY DEF XattrsetFail, diskVars
<1>3. nids \in Nat /\ trusted \in Nat /\ sets \in Seq(SetRecords) /\ TableOK(data, DataByte) /\ TableOK(desc, DescByte)
  BY <1>1 DEF XattrTypeOK, TablesOK
<1>4. \E new \in Seq(DataByte) : data' = MetaAppend(data, new)
  <2>1. DataBytes(xs) \in Seq(DataByte)
    BY <1>1, CollectionsGood DEF GoodSet, XattrTypeOK
  <2>2. CASE data' = MetaAppend(data, DataBytes(xs))
    BY <2>1, <2>2
  <2>3. CASE data' \in MetaAppendFailed(data, DataBytes(xs))
    <3> DEFINE s == DataBytes(xs)
    <3> HIDE DEF s
    <3>1. PICK n \in 0 .. Len(s) - 1 : data' = MetaAppend(data, SubSeq(s, 1, n))
      BY <2>3 DEF MetaAppendFailed, s
    <3>2. SubSeq(s, 1, n) \in Seq(DataByte)
      BY <2>1 DEF s
    <3> QED BY <3>1, <3>2
  <2> QED BY <2>2, <2>3 DEF XattrsetFail
<1>5. PICK new \in Seq(DataByte) : data' = MetaAppend(data, new)
  BY <1>4
<1>6. Appended(data, new, data', DataByte)
  BY <1>3, <1>5, AppendTable
<1>7. TablesOK' /\ Continues(data, data') /\ Continues(desc, desc')
  BY <1>2, <1>3, <1>6, ContinuesSame DEF Appended, TablesOK
<1>8. trusted' \in Nat /\ trusted' <= trusted /\ Sure' = Sure /\ ~(trusted' > nids')
  BY <1>2, <1>3 DEF Sure
<1>9. DescInv'
  BY <1>1, <1>2, <1>8 DEF DescInv
<1>10. SetsInv'
  <2>1. \A n \in DOMAIN sets : sets[n].id < trusted' => SetStored(data', desc', sets[n])
    BY <1>1, <1>7, <1>8, SetsKept
  <2> QED BY <1>2, <2>1 DEF SetsInv
<1>11. IdTypeOK' /\ AttrsRefer'
  BY <1>1, <1>2, IdsKept DEF XattrTypeOK
<1>12. XattrTypeOK'
  <2>1. ASSUME NEW n \in DOMAIN sets PROVE sets[n].id < nids'
    <3>1. sets[n] \in SetRecords /\ sets[n].id < nids
      BY <1>1, <1>3 DEF XattrTypeOK
    <3>2. sets[n].id \in Nat
      BY <3>1 DEF SetRecords
    <3> QED BY <1>2, <1>3, <3>1, <3>2
  <2> QED BY <1>1, <1>2, <1>3, <1>8, <1>11, <2>1 DEF XattrTypeOK, idVars
<1>13. WrittenInv' /\ IndexWithinBlocks'
  BY <1>1, <1>2 DEF WrittenInv, IndexWithinBlocks, idVars
<1>14. AttributesReadBack'
  <2>1. \A i \in DOMAIN attrs : attrs'[i] = attrs[i] /\ xset'[i] = xset[i]
    BY <1>2 DEF idVars
  <2>2. TableOK(data, DataByte)' /\ written' = written
    BY <1>2, <1>7 DEF TablesOK
  <2>3. \A n \in DOMAIN sets : n \in DOMAIN sets' /\ sets'[n] = sets[n]
    BY <1>2
  <2> QED BY <1>1, <1>7, <1>8, <2>1, <2>2, <2>3, ReadBackKept
<1> QED BY <1>7, <1>9, <1>10, <1>11, <1>12, <1>13, <1>14 DEF XattrInv

\* The index has no more entries than there are blocks of descriptors.
LEMMA EntriesWithin ==
    ASSUME nids \in Nat, NEW e, NEW B, TableOK(e, B), LastEnd(e) = nids * DescSize
    PROVE  IndexEntries <= Len(e.ends)
<1> DEFINE y == nids * DescSize
           z == (y + MetaSize) - 1
           n == Len(e.ends)
<1>1. y \in Nat
  BY DescProduct
<1>2. n \in Nat /\ y <= n * MetaSize
  BY EndFacts DEF TableOK, LastEnd
<1> HIDE DEF y, n
<1>3. z \in Nat /\ IndexEntries = z \div MetaSize
  BY <1>1, MetaSizePositive DEF IndexEntries, y
<1> DEFINE q == z \div MetaSize
           u == q * MetaSize
           v == n * MetaSize
<1>4. q \in Nat /\ u <= z
  BY <1>3, Quotient
<1>5. u \in Nat /\ v \in Nat /\ (n < q => v + MetaSize <= u)
  BY <1>2, <1>4, Product
<1>6. y <= v
  BY <1>2
<1> HIDE DEF u, v, q
<1>7. ~(n < q)
  BY <1>1, <1>4, <1>5, <1>6, MetaSizePositive
<1> QED BY <1>2, <1>3, <1>4, <1>7 DEF q, n

LEMMA EntriesNat == nids \in Nat => IndexEntries \in Nat
<1> SUFFICES ASSUME nids \in Nat PROVE IndexEntries \in Nat
  OBVIOUS
<1> DEFINE z == (nids * DescSize + MetaSize) - 1
<1>1. nids * DescSize \in Nat
  BY DescProduct
<1>2. z \in Nat /\ IndexEntries = z \div MetaSize
  BY <1>1, MetaSizePositive DEF IndexEntries
<1> HIDE DEF z
<1> QED BY <1>2, Quotient

\* What is written is read back.
LEMMA WrittenReadBack ==
    ASSUME XattrTypeOK, AttrsRefer, NEW d, NEW e, TableOK(d, DataByte), TableOK(e, DescByte),
           LastEnd(d) = Len(d.bytes), LastEnd(e) = Len(e.bytes), NEW tr \in Nat, NEW sure \in Nat,
           sure = (IF tr < nids THEN tr ELSE nids), SureTo(e, sure),
           \A n \in DOMAIN sets : sets[n].id < tr => SetStored(d, e, sets[n]),
           NEW i \in DOMAIN attrs
    PROVE  /\ Len(ids) <= IdRange => /\ ids[attrs[i].mapped_uid + 1] = attrs[i].uid
                                     /\ ids[attrs[i].mapped_gid + 1] = attrs[i].gid
           /\ xset[i] # 0 /\ sets[xset[i]].id < tr
                 /\ ~(TableSize(d) >= BlockRange /\ sets[xset[i]].attrs # <<>>)
                 => SetReadBack(TablesOnDisk(d, e), sets[xset[i]])
<1>1. attrs \in Seq(AttrRecords) /\ xset \in Seq(Nat) /\ Len(xset) = Len(attrs) /\ sets \in Seq(SetRecords)
      /\ ids \in Seq(Owners) /\ nids \in Nat /\ isize \in Nat
  BY DEF XattrTypeOK, IdTypeOK, AttrRecords
<1>2. ASSUME Len(ids) <= IdRange
      PROVE  /\ ids[attrs[i].mapped_uid + 1] = attrs[i].uid
             /\ ids[attrs[i].mapped_gid + 1] = attrs[i].gid
  <2>1. Refers(attrs[i].mapped_uid, attrs[i].uid) /\ Refers(attrs[i].mapped_gid, attrs[i].gid)
    BY DEF AttrsRefer
  <2> QED BY <1>1, <1>2, <2>1, ReferredEntry
<1>3. ASSUME xset[i] # 0, sets[xset[i]].id < tr,
             ~(TableSize(d) >= BlockRange /\ sets[xset[i]].attrs # <<>>)
      PROVE  SetReadBack(TablesOnDisk(d, e), sets[xset[i]])
  <2> DEFINE set == sets[xset[i]]
             img == TablesOnDisk(d, e)
  <2>1. xset[i] \in DOMAIN sets
    BY <1>1, <1>3 DEF XattrTypeOK
  <2>2. set \in SetRecords /\ set.id < nids /\ GoodSet(set.attrs) /\ SetStored(d, e, set)
    BY <1>1, <1>3, <2>1 DEF XattrTypeOK
  <2>3. set.id \in Nat
    BY <2>2 DEF SetRecords
  <2>4. set.id < tr /\ (set.attrs # <<>> => TableSize(d) < BlockRange)
    <3>1. TableSize(d) \in Nat
      BY SizeFacts
    <3> QED BY <1>3, <3>1, MetaSizePositive
  <2> HIDE DEF set
  <2>5. set.id * DescSize + DescSize <= sure * DescSize /\ set.id * DescSize \in Nat /\ sure * DescSize \in Nat
    <3>1. set.id < sure
      BY <1>1, <2>2, <2>3, <2>4
    <3> QED BY <2>3, <3>1, DescProduct
  <2>6. ASSUME NEW k \in Ends(e)
        PROVE  EndOf(e, k) = k * MetaSize \/ EndOf(e, k) >= set.id * DescSize + DescSize
    <3>1. EndOf(e, k) = k * MetaSize \/ EndOf(e, k) >= sure * DescSize
      BY DEF SureTo
    <3>2. EndOf(e, k) \in Nat
      BY EndFacts
    <3> DEFINE u == sure * DescSize
               v == set.id * DescSize
    <3>3. u \in Nat /\ v \in Nat /\ v + DescSize <= u /\ (EndOf(e, k) = k * MetaSize \/ EndOf(e, k) >= u)
      BY <2>5, <3>1
    <3> HIDE DEF u, v
    <3>4. EndOf(e, k) = k * MetaSize \/ EndOf(e, k) >= v + DescSize
      BY <3>2, <3>3, MetaSizePositive
    <3> QED BY <3>4 DEF v
  <2>7. /\ img.xattr_ids = nids /\ img.start = isize
        /\ img.blocks = BlocksAt(d, isize) \cup BlocksAt(e, isize + TableSize(d))
        /\ img.index = [k \in 1 .. IndexEntries |-> isize + TableSize(d) + SizeOf(e, k - 1)]
    BY DEF TablesOnDisk
  <2>8. img.index = [k \in 1 .. (nids * DescSize + MetaSize - 1) \div MetaSize |->
                        isize + TableSize(d) + SizeOf(e, k - 1)]
    BY <2>7 DEF IndexEntries
  <2> HIDE DEF img
  <2>9. SetReadBack(img, set)
    BY <1>1, <2>2, <2>3, <2>4, <2>6, <2>7, <2>8, SetRead
  <2> QED BY <2>9 DEF img, set
<1> QED BY <1>2, <1>3

\* libsqfs_idtable_write and libsqfs_xattr_table_write.
LEMMA WriteStep ==
    ASSUME XattrInv, WriteTables
    PROVE  XattrInv'
<1>1. /\ XattrTypeOK /\ AttrsRefer /\ TablesOK /\ DescInv /\ SetsInv /\ WrittenInv
      /\ AttributesReadBack /\ IndexWithinBlocks
  BY DEF XattrInv
<1> DEFINE d == MetaFlush(data)
           e == MetaFlush(desc)
<1>2. /\ UNCHANGED <<idVars, xset, xattrs, nids, sets, lost>>
      /\ data' = (IF nids = 0 THEN data ELSE d) /\ desc' = (IF nids = 0 THEN desc ELSE e)
      /\ trusted' = (IF OpenSize(desc) # 0 /\ trusted > nids THEN nids ELSE trusted)
      /\ phase = "building"
  BY DEF WriteTables
<1>3. \/ /\ nids > 0 /\ IndexEntries > Len(e.ends)
         /\ phase' = "crashed" /\ UNCHANGED <<isize, written>>
      \/ /\ written' = TablesOnDisk(d, e) /\ isize' = (IF nids = 0 THEN isize ELSE XattrEnd(d, e))
         /\ UNCHANGED phase
  BY DEF WriteTables
<1>4. /\ nids \in Nat /\ trusted \in Nat /\ isize \in Nat /\ sets \in Seq(SetRecords)
      /\ TableOK(data, DataByte) /\ TableOK(desc, DescByte)
  BY <1>1 DEF XattrTypeOK, TablesOK
<1>5. /\ TableOK(d, DataByte) /\ Continues(data, d) /\ LastEnd(d) = Len(d.bytes)
      /\ TableOK(e, DescByte) /\ Continues(desc, e) /\ LastEnd(e) = Len(e.bytes)
      /\ e.bytes = desc.bytes /\ (OpenSize(desc) = 0 => e = desc)
  BY <1>4, FlushTable
<1> HIDE DEF d, e
<1>6. /\ TableOK(data', DataByte) /\ TableOK(desc', DescByte)
      /\ Continues(data, data') /\ Continues(desc, desc')
  <2>1. Continues(data, data) /\ Continues(desc, desc)
    BY <1>4, ContinuesSame
  <2>2. CASE nids = 0
    BY <1>2, <1>4, <2>1, <2>2
  <2>3. CASE nids # 0
    BY <1>2, <1>5, <2>3
  <2> QED BY <2>2, <2>3
<1>7. TablesOK'
  BY <1>6 DEF TablesOK
<1>8. trusted' \in Nat /\ trusted' <= trusted /\ Sure' = Sure /\ Sure \in Nat
  BY <1>2, <1>4 DEF Sure
<1>9. DescInv'
  <2>1. SureTo(desc', Sure)
    BY <1>1, <1>4, <1>6, <1>8, SureContinues DEF DescInv
  <2>2. trusted' > nids' => trusted > nids /\ desc' = desc
    BY <1>2, <1>4, <1>5
  <2>3. desc'.bytes = desc.bytes
    BY <1>2, <1>5
  <2> QED BY <1>1, <1>2, <1>8, <2>1, <2>2, <2>3 DEF DescInv
<1>10. \A n \in DOMAIN sets : sets[n].id < trusted' => SetStored(data', desc', sets[n])
  BY <1>1, <1>6, <1>7, <1>8, SetsKept
<1>11. SetsInv'
  BY <1>2, <1>10 DEF SetsInv
<1>12. IdTypeOK' /\ AttrsRefer'
  BY <1>1, <1>2, IdsKept DEF XattrTypeOK
<1>13. isize' \in Nat
  <2>1. TableSize(d) \in Nat /\ TableSize(e) \in Nat /\ IndexEntries \in Nat
    BY <1>4, <1>5, SizeFacts, EntriesNat
  <2>2. XattrEnd(d, e) \in Nat
    BY <1>4, <2>1 DEF XattrEnd, HeaderSize, IndexEntrySize
  <2> QED BY <1>3, <1>4, <2>2
<1>14. XattrTypeOK'
  BY <1>1, <1>2, <1>4, <1>8, <1>12, <1>13 DEF XattrTypeOK, idVars
<1>15. CASE /\ nids > 0 /\ IndexEntries > Len(e.ends)
            /\ phase' = "crashed" /\ UNCHANGED <<isize, written>>
  <2>1. lost
    <3> SUFFICES ASSUME ~lost PROVE FALSE
      BY <1>1 DEF XattrTypeOK
    <3>1. LastEnd(e) = nids * DescSize
      BY <1>1, <1>5 DEF DescInv
    <3>2. IndexEntries <= Len(e.ends)
      BY <1>4, <1>5, <3>1, EntriesWithin
    <3>3. Len(e.ends) \in Nat /\ IndexEntries \in Nat
      BY <1>4, <1>5, EndFacts, EntriesNat
    <3> QED BY <1>15, <3>2, <3>3
  <2>2. IndexWithinBlocks' /\ WrittenInv'
    BY <1>1, <1>2, <1>15, <2>1 DEF IndexWithinBlocks, WrittenInv, idVars
  <2>3. AttributesReadBack'
    <3>1. \A i \in DOMAIN attrs : attrs'[i] = attrs[i] /\ xset'[i] = xset[i]
      BY <1>2 DEF idVars
    <3>2. TableOK(data, DataByte)' /\ written' = written
      BY <1>6, <1>15
    <3>3. \A n \in DOMAIN sets : n \in DOMAIN sets' /\ sets'[n] = sets[n]
      BY <1>2
    <3> QED BY <1>1, <1>6, <1>8, <3>1, <3>2, <3>3, ReadBackKept
  <2> QED BY <1>7, <1>9, <1>11, <1>12, <1>14, <2>2, <2>3 DEF XattrInv
<1>16. CASE /\ written' = TablesOnDisk(d, e) /\ isize' = (IF nids = 0 THEN isize ELSE XattrEnd(d, e))
            /\ UNCHANGED phase
  <2>1. written'.inodes = Len(attrs) /\ written'.ids = ids
    BY <1>16 DEF TablesOnDisk
  <2>2. attrs \in Seq(AttrRecords) /\ attrs' = attrs /\ xset' = xset /\ sets' = sets
    BY <1>1, <1>2 DEF XattrTypeOK, IdTypeOK, AttrRecords, idVars
  <2>3. Len(attrs) \in Nat /\ DOMAIN attrs = 1 .. Len(attrs)
    BY <2>2
  <2>4. WrittenInv'
    BY <2>1, <2>2, <2>3 DEF WrittenInv
  <2>5. IndexWithinBlocks'
    BY <1>2, <1>16 DEF IndexWithinBlocks
  <2>6. \A n \in DOMAIN sets : nids # 0
    <3> SUFFICES ASSUME NEW n \in DOMAIN sets PROVE nids # 0
      OBVIOUS
    <3>1. sets[n] \in SetRecords /\ sets[n].id < nids
      BY <1>1, <1>4 DEF XattrTypeOK
    <3>2. sets[n].id \in Nat
      BY <3>1 DEF SetRecords
    <3> QED BY <1>4, <3>1, <3>2
  <2>7. \A n \in DOMAIN sets : sets[n].id < trusted' => SetStored(d, e, sets[n])
    BY <1>2, <1>10, <2>6
  <2>8. Sure = IF trusted' < nids THEN trusted' ELSE nids
    BY <1>2, <1>8 DEF Sure
  <2>9. SureTo(e, Sure)
    BY <1>1, <1>4, <1>5, <1>8, SureContinues DEF DescInv
  <2> DEFINE tr == trusted'
             sure == Sure
             img == TablesOnDisk(d, e)
  <2>10. tr \in Nat /\ sure \in Nat /\ sure = (IF tr < nids THEN tr ELSE nids) /\ SureTo(e, sure)
         /\ \A n \in DOMAIN sets : sets[n].id < tr => SetStored(d, e, sets[n])
    BY <1>8, <2>7, <2>8, <2>9
  <2> HIDE DEF tr, sure, img
  <2>11. ASSUME NEW i \in DOMAIN attrs
         PROVE  /\ Len(ids) <= IdRange => /\ ids[attrs[i].mapped_uid + 1] = attrs[i].uid
                                          /\ ids[attrs[i].mapped_gid + 1] = attrs[i].gid
                /\ xset[i] # 0 /\ sets[xset[i]].id < tr
                      /\ ~(TableSize(d) >= BlockRange /\ sets[xset[i]].attrs # <<>>)
                      => SetReadBack(img, sets[xset[i]])
    BY <1>1, <1>5, <2>10, WrittenReadBack DEF img
  <2>12. ASSUME NEW i \in DOMAIN attrs, xset[i] # 0, ~OutOfRange(sets[xset[i]])'
         PROVE  ~(TableSize(d) >= BlockRange /\ sets[xset[i]].attrs # <<>>)
    <3>1. xset \in Seq(Nat) /\ Len(xset) = Len(attrs)
      BY <1>1 DEF XattrTypeOK
    <3>2. xset[i] \in DOMAIN sets
      BY <1>1, <1>4, <2>3, <2>12, <3>1 DEF XattrTypeOK
    <3>3. data' = d
      BY <1>2, <2>6, <3>2
    <3> QED BY <2>2, <2>12, <3>3 DEF OutOfRange
  <2>13. AttributesReadBack'
    <3> SUFFICES ASSUME NEW i \in 1 .. Len(attrs)
                 PROVE  /\ Len(ids) <= IdRange => /\ ids[attrs[i].mapped_uid + 1] = attrs[i].uid
                                                  /\ ids[attrs[i].mapped_gid + 1] = attrs[i].gid
                        /\ xset[i] # 0 /\ sets[xset[i]].id < tr /\ ~OutOfRange(sets[xset[i]])'
                             => SetReadBack(img, sets[xset[i]])
      BY <1>16, <2>1, <2>2 DEF AttributesReadBack, tr, img
    <3> QED BY <2>3, <2>11, <2>12
  <2> QED BY <1>7, <1>9, <1>11, <1>12, <1>14, <2>4, <2>5, <2>13 DEF XattrInv
<1> QED BY <1>3, <1>15, <1>16

\* A write that fails.
LEMMA WriteFailStep ==
    ASSUME XattrInv, WriteFail
    PROVE  XattrInv'
<1>1. /\ XattrTypeOK /\ AttrsRefer /\ TablesOK /\ DescInv /\ SetsInv /\ WrittenInv
      /\ AttributesReadBack /\ IndexWithinBlocks
  BY DEF XattrInv
<1> DEFINE d == MetaFlush(data)
           e == MetaFlush(desc)
<1>2. /\ UNCHANGED <<idVars, xset, xattrs, nids, sets, lost, trusted, written>> /\ phase' = "fatal"
      /\ (data' = data \/ data' = d) /\ (desc' = desc \/ desc' = e)
      /\ \/ isize' = isize
         \/ isize' = isize + TableSize(d)
         \/ isize' = isize + TableSize(d) + TableSize(e)
         \/ isize' = XattrEnd(d, e)
  BY DEF WriteFail
<1>3. /\ nids \in Nat /\ trusted \in Nat /\ isize \in Nat /\ sets \in Seq(SetRecords)
      /\ TableOK(data, DataByte) /\ TableOK(desc, DescByte)
  BY <1>1 DEF XattrTypeOK, TablesOK
<1>4. /\ TableOK(d, DataByte) /\ Continues(data, d)
      /\ TableOK(e, DescByte) /\ Continues(desc, e) /\ e.bytes = desc.bytes
  BY <1>3, FlushTable
<1> HIDE DEF d, e
<1>5. /\ TableOK(data', DataByte) /\ TableOK(desc', DescByte)
      /\ Continues(data, data') /\ Continues(desc, desc') /\ desc'.bytes = desc.bytes
  BY <1>2, <1>3, <1>4, ContinuesSame
<1>6. TablesOK' /\ trusted' \in Nat /\ trusted' <= trusted
  BY <1>2, <1>3, <1>5 DEF TablesOK
<1>7. DescInv'
  <2>1. Sure' = Sure /\ Sure \in Nat
    BY <1>2, <1>3 DEF Sure
  <2>2. SureTo(desc', Sure)
    BY <1>1, <1>3, <1>5, <2>1, SureContinues DEF DescInv
  <2> QED BY <1>1, <1>2, <1>5, <2>1, <2>2 DEF DescInv
<1>8. SetsInv'
  <2>1. \A n \in DOMAIN sets : sets[n].id < trusted' => SetStored(data', desc', sets[n])
    BY <1>1, <1>5, <1>6, SetsKept
  <2> QED BY <1>2, <2>1 DEF SetsInv
<1>9. IdTypeOK' /\ AttrsRefer'
  BY <1>1, <1>2, IdsKept DEF XattrTypeOK
<1>10. isize' \in Nat
  <2>1. TableSize(d) \in Nat /\ TableSize(e) \in Nat /\ IndexEntries \in Nat
    BY <1>3, <1>4, SizeFacts, EntriesNat
  <2>2. XattrEnd(d, e) \in Nat
    BY <1>3, <2>1 DEF XattrEnd, HeaderSize, IndexEntrySize
  <2> QED BY <1>2, <1>3, <2>1, <2>2
<1>11. XattrTypeOK'
  BY <1>1, <1>2, <1>3, <1>6, <1>9, <1>10 DEF XattrTypeOK, idVars
<1>12. WrittenInv' /\ IndexWithinBlocks'
  BY <1>1, <1>2 DEF WrittenInv, IndexWithinBlocks, idVars
<1>13. AttributesReadBack'
  <2>1. \A i \in DOMAIN attrs : attrs'[i] = attrs[i] /\ xset'[i] = xset[i]
    BY <1>2 DEF idVars
  <2>2. TableOK(data, DataByte)' /\ written' = written
    BY <1>2, <1>5
  <2>3. \A n \in DOMAIN sets : n \in DOMAIN sets' /\ sets'[n] = sets[n]
    BY <1>2
  <2> QED BY <1>1, <1>5, <1>6, <2>1, <2>2, <2>3, ReadBackKept
<1> QED BY <1>6, <1>7, <1>8, <1>9, <1>11, <1>12, <1>13 DEF XattrInv

xattrAll == <<idVars, xset, xattrVars, diskVars>>

\* The invariant holds for any sizes, attributes and faults.
THEOREM XattrInvariant == XattrSpec => []XattrInv
<1>1. XattrInv /\ [XattrNext]_xattrAll => XattrInv'
  <2> SUFFICES ASSUME XattrInv, [XattrNext]_xattrAll PROVE XattrInv'
    OBVIOUS
  <2>1. ASSUME NEW a \in Attributes, XattrCreate(a) PROVE XattrInv'
    BY <2>1, XattrCreateStep
  <2>2. ASSUME NEW xs \in Collections, XattrsetCreate(xs) \/ XattrsetFail(xs) PROVE XattrInv'
    BY <2>2, SetCreateStep, SetFailStep
  <2>3. ASSUME NEW uid \in Owners, NEW gid \in Owners, NEW set \in 0 .. Len(sets),
               InodeattrCreateExtended(uid, gid, set)
        PROVE  XattrInv'
    BY <2>3, ExtendedStep
  <2>4. CASE WriteTables
    BY <2>4, WriteStep
  <2>5. CASE WriteFail
    BY <2>5, WriteFailStep
  <2>6. CASE UNCHANGED xattrAll
    <3>1. UNCHANGED <<idVars, xset, xattrs, nids, sets, data, desc, lost, trusted, isize, written, phase>>
      BY <2>6 DEF xattrAll, xattrVars, diskVars
    <3>2. XattrTypeOK' /\ AttrsRefer'
      BY <3>1, IdsKept DEF XattrInv, XattrTypeOK, idVars
    <3>3. TablesOK' /\ DescInv' /\ SetsInv' /\ WrittenInv' /\ IndexWithinBlocks' /\ AttributesReadBack'
      BY <3>1 DEF XattrInv, TablesOK, DescInv, Sure, SetsInv, WrittenInv, IndexWithinBlocks,
         AttributesReadBack, OutOfRange, idVars
    <3> QED BY <3>2, <3>3 DEF XattrInv
  <2> QED BY <2>1, <2>2, <2>3, <2>4, <2>5, <2>6 DEF XattrNext
<1> QED BY <1>1, XattrInitInv, PTL DEF XattrSpec, xattrAll

\* Whoever reads an inode of the image finds the owners and the extended attributes it
\* was created with (libsqfs_xattrset_serialize_data, libsqfs_xattr_table_write).
THEOREM AttributesAreReadBack == XattrSpec => []AttributesReadBack
<1>1. XattrInv => AttributesReadBack
  BY DEF XattrInv
<1> QED BY <1>1, XattrInvariant, PTL

\* The loop that fills the index stays within the list of blocks unless a set was lost
\* (libsqfs_xattr_table_write).
THEOREM IndexStaysWithinBlocks == XattrSpec => []IndexWithinBlocks
<1>1. XattrInv => IndexWithinBlocks
  BY DEF XattrInv
<1> QED BY <1>1, XattrInvariant, PTL

\* Owners are kept beside extended attributes as well (libsqfs_inodeattr_create_extended).
THEOREM OwnersAreKeptExtended == XattrSpec => []OwnersKeptInRange
<1>1. XattrInv => OwnersKeptInRange
  BY ReferredOwners DEF XattrInv, XattrTypeOK, OwnersKeptInRange
<1> QED BY <1>1, XattrInvariant, PTL
=============================================================================

------------------------------ MODULE InodeTree ------------------------------
(***************************************************************************)
(* The tree of inodes (inodes.c, directory.c, special.c, regular.c): the   *)
(* application creates inodes and enters them into directories, and        *)
(* libsqfs_inode_serialize of the root writes them, children first, to the *)
(* inode table and the listings of the directories to the directory table. *)
(*                                                                         *)
(* An inode is its number.  A name is a number, too; strcmp is the order   *)
(* of numbers.  A byte of a table is known by its position in the stream   *)
(* of bytes, and its place is the pair (block, offset) of Place; that      *)
(* libsqfs_metatable_append hands out places a reader can find is the      *)
(* subject of module MetaTable.                                            *)
(*                                                                         *)
(* The recursion of libsqfs_directory_serialize is a stack of frames       *)
(* [dir, next]: the directory, and which of its entries comes next.        *)
(***************************************************************************)
EXTENDS Integers, Sequences, FiniteSets

CONSTANTS
    Makes,              \* inodes that may be created: [kind, xattr]
    MaxInodes,          \* bound: inodes created
    Names,              \* names of entries
    NameLength,         \* name -> its length
    MaxEntries,         \* bound: entries of all directories together
    MetaSize,           \* SQUASHFS_METADATA_SIZE
    DirHeaderSize,      \* sizeof(struct squashfs_dir_header)
    DirEntrySize,       \* sizeof(struct squashfs_dir_entry)
    HalfDiff,           \* 2^15: half the values of squashfs_dir_entry.inode_number
    MaxRun,             \* 256: entries behind one header
    IndexSpacing,       \* 128: entries between two entries of the index
    ShortMax,           \* USHRT_MAX: the largest size of a short directory inode
    RecordSize,         \* size of an inode in the inode table
    IndexSize,          \* size of an entry of the index in the inode table
    Faults              \* "link": add_entry, "append": an append to a table may fail

Kinds == {"dir", "file", "symlink", "device", "fifo"}

ASSUME MakesAreInodes == Makes \subseteq [kind : Kinds, xattr : BOOLEAN]
ASSUME TreeBounds == MaxInodes \in Nat /\ MaxEntries \in Nat
ASSUME NamesAreOrdered == Names \subseteq Nat /\ NameLength \in [Names -> Nat \ {0}]
ASSUME TreeSizes ==
    /\ {MetaSize, DirHeaderSize, DirEntrySize, HalfDiff, MaxRun, RecordSize, IndexSize}
           \subseteq Nat \ {0}
    /\ IndexSpacing \in Nat /\ ShortMax \in Nat

VARIABLES
    kind,           \* of each inode: its class
    xattr,          \* of each inode: it has xattrs, or it is a file whose size or
                    \* first block does not fit 32 bits, or that is sparse
    nlink,          \* of each inode: its link count
    parent,         \* of each inode: the parent of a directory, or 0
    entries,        \* of each inode: the entries of a directory, [name, inode]
    root,           \* image->root, or 0
    oom,            \* add_entry has run out of memory
    etype,          \* encoded_type of each inode: "none", "short" or "long"
    place,          \* inode_table_entry of each inode, a position, or -1
    inodeTable,     \* the inodes in the inode table
    inodeSize,      \* the size of the inode table
    dirTable,       \* the entries in the directory table, in their order
    dirSize,        \* the size of the directory table
    phase,          \* "build", "serialize", "serialized" or "failed"
    stack           \* the running calls of libsqfs_directory_serialize

treeVars == <<kind, xattr, nlink, parent, entries, root, oom>>
tableVars == <<etype, place, inodeTable, inodeSize, dirTable, dirSize>>
runVars == <<phase, stack>>

Inodes == 1 .. Len(kind)

Init ==
    /\ kind = <<>> /\ xattr = <<>> /\ nlink = <<>> /\ parent = <<>> /\ entries = <<>>
    /\ root = 0 /\ oom = FALSE
    /\ etype = <<>> /\ place = <<>>
    /\ inodeTable = {} /\ inodeSize = 0
    /\ dirTable = <<>> /\ dirSize = 0
    /\ phase = "build" /\ stack = <<>>

-----------------------------------------------------------------------------
(* Building the tree.                                                      *)

\* libsqfs_inode_init, at the end of every function that creates an inode.
CreateInode(m) ==
    /\ phase = "build"
    /\ Len(kind) < MaxInodes
    /\ kind' = Append(kind, m.kind)
    /\ xattr' = Append(xattr, m.xattr)
    /\ nlink' = Append(nlink, 0)
    /\ parent' = Append(parent, 0)
    /\ entries' = Append(entries, <<>>)
    /\ etype' = Append(etype, "none")
    /\ place' = Append(place, -1)
    /\ UNCHANGED <<root, oom, inodeTable, inodeSize, dirTable, dirSize, runVars>>

\* libsqfs_image_set_root.
SetRoot(d) ==
    /\ phase = "build"
    /\ root = 0 /\ kind[d] = "dir"
    /\ root' = d
    /\ nlink' = [nlink EXCEPT ![d] = @ + 1]
    /\ UNCHANGED <<kind, xattr, parent, entries, oom, tableVars, runVars>>

\* i is d or a directory above it: it is in every set that has d and, with a
\* directory, its parent.
HasParents(S) == \A x \in S : parent[x] # 0 => parent[x] \in S
IsAbove(i, d) == \A S \in SUBSET Inodes : d \in S /\ HasParents(S) => i \in S

\* Where the new entry goes: before the first one that is not smaller.
InsertAt(d, name) ==
    1 + Cardinality({k \in DOMAIN entries[d] :
                        \A j \in 1 .. k : entries[d][j].name < name})

EntriesWith(d, name, i) ==
    SubSeq(entries[d], 1, InsertAt(d, name) - 1) \o <<[name |-> name, inode |-> i]>>
        \o SubSeq(entries[d], InsertAt(d, name), Len(entries[d]))

\* A subdirectory is a link to its parent.
Adopt(d, i) == IF kind[i] = "dir" THEN [nlink EXCEPT ![d] = @ + 1] ELSE nlink

TotalEntries == Cardinality(UNION {{<<d, k>> : k \in DOMAIN entries[d]} : d \in Inodes})

\* The application does not put a directory below itself.
MayAdd(d, i) ==
    /\ phase = "build"
    /\ kind[d] = "dir"
    /\ kind[i] = "dir" => parent[i] = 0 /\ ~IsAbove(i, d)
    /\ TotalEntries < MaxEntries

\* libsqfs_directory_add_entry.  A directory that has a parent is refused, and
\* nothing changes.
AddEntry(d, name, i) ==
    /\ MayAdd(d, i)
    /\ parent' = IF kind[i] = "dir" THEN [parent EXCEPT ![i] = d] ELSE parent
    /\ nlink' = [Adopt(d, i) EXCEPT ![i] = @ + 1]
    /\ entries' = [entries EXCEPT ![d] = EntriesWith(d, name, i)]
    /\ UNCHANGED <<kind, xattr, root, oom, tableVars, runVars>>

\* mutant: the link is counted before the entry is allocated
AddEntryFail_Linked(d, name, i) ==
    /\ "link" \in Faults
    /\ MayAdd(d, i)
    /\ parent' = IF kind[i] = "dir" THEN [parent EXCEPT ![i] = d] ELSE parent
    /\ nlink' = [Adopt(d, i) EXCEPT ![i] = @ + 1]
    /\ oom' = TRUE
    /\ UNCHANGED <<kind, xattr, entries, root, tableVars, runVars>>

\* The entry or its name cannot be allocated: a directory has got a parent by then,
\* and the parent a link.
AddEntryFail(d, name, i) ==
    /\ "link" \in Faults
    /\ MayAdd(d, i)
    /\ parent' = IF kind[i] = "dir" THEN [parent EXCEPT ![i] = d] ELSE parent
    /\ nlink' = Adopt(d, i)
    /\ oom' = TRUE
    /\ UNCHANGED <<kind, xattr, entries, root, tableVars, runVars>>

-----------------------------------------------------------------------------
(* Encoding a directory.                                                   *)

Place(pos) == [block |-> pos \div MetaSize, offset |-> pos % MetaSize]

\* The difference of two inode numbers, and as a field of HalfDiff * 2 values.
Diff(i, ref) == i - ref
DiffField(i, ref) == ((Diff(i, ref) + HalfDiff) % (2 * HalfDiff)) - HalfDiff

\* What libsqfs_directory_encode sees of an entry: the inode has been encoded.
SeenEntry(e) ==
    [name |-> e.name, inode |-> e.inode, at |-> Place(place[e.inode]),
     type |-> IF etype[e.inode] = "none" THEN "none" ELSE kind[e.inode]]
Seen(d) == [k \in DOMAIN entries[d] |-> SeenEntry(entries[d][k])]

EntryLength(e) == DirEntrySize + NameLength[e.name]

\* need_new_dir_header for entry k, which begins at off; ref and refOff are the
\* number and the offset of the entry behind the last header (ref = 0: there is none).
NeedNewHeader_BlockForgotten(es, k, off, ref, refOff) ==     \* mutant
    \/ ref = 0
    \/ Diff(es[k].inode, es[ref].inode) \notin -HalfDiff .. HalfDiff - 1
    \/ EntryLength(es[k]) + off - refOff > MetaSize
    \/ k - ref > MaxRun - 1
NeedNewHeader_LongRun(es, k, off, ref, refOff) ==     \* mutant
    \/ ref = 0
    \/ es[k].at.block # es[ref].at.block
    \/ Diff(es[k].inode, es[ref].inode) \notin -HalfDiff .. HalfDiff - 1
    \/ EntryLength(es[k]) + off - refOff > MetaSize
    \/ k - ref > MaxRun
NeedNewHeader(es, k, off, ref, refOff) ==
    \/ ref = 0
    \/ es[k].at.block # es[ref].at.block
    \/ Diff(es[k].inode, es[ref].inode) \notin -HalfDiff .. HalfDiff - 1
    \/ EntryLength(es[k]) + off - refOff > MetaSize
    \/ k - ref > MaxRun - 1

\* The first loop of libsqfs_directory_encode: its state behind entry k, with the end
\* of what has been encoded, and the entry behind the last header.
ScanStart == [end |-> 0, ref |-> 0, refOff |-> 0]
ScanStep(es, k, s) ==
    IF NeedNewHeader(es, k, s.end, s.ref, s.refOff)
    THEN [end |-> s.end + EntryLength(es[k]) + DirHeaderSize, ref |-> k, refOff |-> s.end]
    ELSE [s EXCEPT !.end = @ + EntryLength(es[k])]
Scan(es) ==
    LET scan[k \in 0 .. Len(es)] == IF k = 0 THEN ScanStart ELSE ScanStep(es, k, scan[k - 1])
    IN scan

\* A header, with the number of entries behind it less one.
NoHeader == [count |-> -1, block |-> -1, number |-> -1]
IsRef(es, k) == Scan(es)[k].ref = k
Header(es, k) ==
    [count |-> Cardinality({j \in DOMAIN es : Scan(es)[j].ref = k}) - 1,
     block |-> es[k].at.block,
     number |-> es[k].inode]

\* The encoded entries, placed from the given position on.
EncodedEntry(es, k, from) ==
    [at |-> from + Scan(es)[k - 1].end,
     header |-> IF IsRef(es, k) THEN Header(es, k) ELSE NoHeader,
     name |-> es[k].name,
     offset |-> es[k].at.offset,
     diff |-> DiffField(es[k].inode, es[Scan(es)[k].ref].inode),
     type |-> es[k].type]
Encoded(es, from) == [k \in DOMAIN es |-> EncodedEntry(es, k, from)]

ListingSize(es) == Scan(es)[Len(es)].end

\* libsqfs_directory_inode_prune_index: of the entries with a header, the ones far
\* enough from the one kept before; the first is left out in the end.
FarEnough(k, last) == k - last > IndexSpacing
KeepStep(es, k, kept) ==
    IF IsRef(es, k) /\ (kept = <<>> \/ FarEnough(k, kept[Len(kept)]))
    THEN Append(kept, k) ELSE kept
Kept(es) ==
    LET keep[k \in 0 .. Len(es)] == IF k = 0 THEN <<>> ELSE KeepStep(es, k, keep[k - 1])
    IN keep
PrunedIndex(es) == IF es = <<>> THEN <<>> ELSE Tail(Kept(es)[Len(es)])

\* mutant: the block is counted from the start of the listing
IndexEntry_Relative(es, k, from) ==
    [index |-> Scan(es)[k - 1].end, block |-> Place(Scan(es)[k - 1].end).block,
     name |-> es[k].name]
IndexEntry(es, k, from) ==
    [index |-> Scan(es)[k - 1].end,
     block |-> Place(from + Scan(es)[k - 1].end).block,
     name |-> es[k].name]

\* The type libsqfs_directory_serialize chooses.
DirType(d) ==
    IF PrunedIndex(Seen(d)) # <<>> \/ ListingSize(Seen(d)) > ShortMax - 3 \/ xattr[d]
    THEN "long" ELSE "short"

\* libsqfs_directory_inode_encode; the listing begins at from.  The size is a field
\* of 16 bits in a short inode.
DirRecord(d, from) ==
    [inode |-> d, kind |-> "dir", type |-> DirType(d), at |-> inodeSize, nlink |-> nlink[d],
     parent |-> IF parent[d] # 0 THEN parent[d] ELSE Len(kind) + 1,
     start |-> IF entries[d] = <<>> THEN Place(0) ELSE Place(from),
     size |-> IF DirType(d) = "long" THEN ListingSize(Seen(d)) + 3
              ELSE (ListingSize(Seen(d)) + 3) % (ShortMax + 1),
     index |-> IF DirType(d) = "short" THEN <<>>
               ELSE [n \in DOMAIN PrunedIndex(Seen(d)) |->
                        IndexEntry(Seen(d), PrunedIndex(Seen(d))[n], from)]]

-----------------------------------------------------------------------------
(* Encoding other inodes.                                                  *)

\* The types the serialize functions of regular.c and special.c choose.  A short
\* regular inode has no field for its links, and a symlink none for xattrs.
RegularType(i) == IF nlink[i] # 1 \/ xattr[i] THEN "long" ELSE "short"
SymlinkType(i) == "short"
DeviceType(i) == IF xattr[i] THEN "long" ELSE "short"
FifoType(i) == IF xattr[i] THEN "long" ELSE "short"

LeafType(i) ==
    CASE kind[i] = "file"    -> RegularType(i)
      [] kind[i] = "symlink" -> SymlinkType(i)
      [] kind[i] = "device"  -> DeviceType(i)
      [] kind[i] = "fifo"    -> FifoType(i)

LeafRecord(i) ==
    [inode |-> i, kind |-> kind[i], type |-> LeafType(i), at |-> inodeSize,
     nlink |-> IF kind[i] = "file" /\ LeafType(i) = "short" THEN -1 ELSE nlink[i],
     parent |-> 0, start |-> Place(0), size |-> 0, index |-> <<>>]

-----------------------------------------------------------------------------
(* libsqfs_inode_serialize of the root.                                    *)

Top == stack[Len(stack)]
Child == entries[Top.dir][Top.next].inode
AtEntry == phase = "serialize" /\ Top.next <= Len(entries[Top.dir])
AtEnd == phase = "serialize" /\ Top.next > Len(entries[Top.dir])

\* mutant: the entry behind the one just handled is passed over
Advance_ByTwo(s) ==
    IF s = <<>> THEN <<>> ELSE [s EXCEPT ![Len(s)].next = @ + 2]

\* The loop of libsqfs_directory_serialize goes on to the next entry.
Advance(s) == IF s = <<>> THEN <<>> ELSE [s EXCEPT ![Len(s)].next = @ + 1]

SerializeRoot ==
    /\ phase = "build" /\ root # 0
    /\ phase' = "serialize"
    /\ stack' = <<[dir |-> root, next |-> 1]>>
    /\ UNCHANGED <<treeVars, tableVars>>

\* An entry whose inode has been encoded already: another link to it.
VisitEncoded ==
    /\ AtEntry /\ etype[Child] # "none"
    /\ stack' = Advance(stack)
    /\ UNCHANGED <<treeVars, tableVars, phase>>

VisitDirectory ==
    /\ AtEntry /\ etype[Child] = "none" /\ kind[Child] = "dir"
    /\ stack' = Append(stack, [dir |-> Child, next |-> 1])
    /\ UNCHANGED <<treeVars, tableVars, phase>>

\* The serialize functions of regular.c and special.c.  The type is set first.
VisitLeaf ==
    /\ AtEntry /\ etype[Child] = "none" /\ kind[Child] # "dir"
    /\ etype' = [etype EXCEPT ![Child] = LeafType(Child)]
    /\ place' = [place EXCEPT ![Child] = inodeSize]
    /\ \/ /\ inodeTable' = inodeTable \cup {LeafRecord(Child)}
          /\ inodeSize' = inodeSize + RecordSize
          /\ stack' = Advance(stack)
          /\ UNCHANGED phase
       \/ /\ "append" \in Faults
          /\ phase' = "failed"
          /\ UNCHANGED <<inodeTable, inodeSize, stack>>
    /\ UNCHANGED <<treeVars, dirTable, dirSize>>

\* The entries of a directory are encoded and appended to the directory table, its
\* index is pruned, and its inode follows; the call returns.
EncodeDirectory ==
    LET d == Top.dir
        record == DirRecord(d, dirSize)
    IN /\ AtEnd
       /\ dirTable' = dirTable \o Encoded(Seen(d), dirSize)
       /\ dirSize' = dirSize + ListingSize(Seen(d))
       /\ etype' = [etype EXCEPT ![d] = DirType(d)]
       /\ place' = [place EXCEPT ![d] = inodeSize]
       /\ \/ /\ inodeTable' = inodeTable \cup {record}
             /\ inodeSize' = inodeSize + RecordSize + IndexSize * Len(record.index)
             /\ stack' = Advance(SubSeq(stack, 1, Len(stack) - 1))
             /\ phase' = IF Len(stack) = 1 THEN "serialized" ELSE "serialize"
          \/ /\ "append" \in Faults
             /\ phase' = "failed"
             /\ UNCHANGED <<inodeTable, inodeSize, stack>>
       /\ UNCHANGED treeVars

\* The entries cannot all be encoded or appended.
EncodeFail ==
    /\ AtEnd /\ "append" \in Faults
    /\ \E n \in 0 .. Len(entries[Top.dir]) - 1 :
          /\ dirTable' = dirTable \o SubSeq(Encoded(Seen(Top.dir), dirSize), 1, n)
          /\ dirSize' = dirSize + Scan(Seen(Top.dir))[n].end
    /\ phase' = "failed"
    /\ UNCHANGED <<treeVars, etype, place, inodeTable, inodeSize, stack>>

\* libsqfs_export_table_write: the place of every inode, by its number.
ExportTable == [i \in Inodes |-> Place(place[i])]

-----------------------------------------------------------------------------
Build ==
    \/ \E m \in Makes : CreateInode(m)
    \/ \E d \in Inodes : SetRoot(d)
    \/ \E d, i \in Inodes, name \in Names : AddEntry(d, name, i) \/ AddEntryFail(d, name, i)

SerializeStep ==
    \/ SerializeRoot \/ VisitEncoded \/ VisitDirectory \/ VisitLeaf
    \/ EncodeDirectory \/ EncodeFail

Next == Build \/ SerializeStep

Spec == Init /\ [][Next]_<<treeVars, tableVars, runVars>>

-----------------------------------------------------------------------------
(* Properties.                                                             *)

\* Types of the variables; in particular the loop over the entries of a directory
\* stops behind the last one.
Entry == [name : Names, inode : Inodes]
Item == [at : Nat, header : [count : Int, block : Int, number : Int], name : Names,
         offset : Nat, diff : Int, type : Kinds \cup {"none"}]
TreeTypeOK ==
    /\ kind \in Seq(Kinds) /\ Len(kind) <= MaxInodes
    /\ xattr \in Seq(BOOLEAN) /\ Len(xattr) = Len(kind)
    /\ nlink \in Seq(Nat) /\ Len(nlink) = Len(kind)
    /\ parent \in Seq(0 .. Len(kind)) /\ Len(parent) = Len(kind)
    /\ entries \in Seq(Seq(Entry)) /\ Len(entries) = Len(kind)
    /\ root \in 0 .. Len(kind) /\ oom \in BOOLEAN
    /\ etype \in Seq({"none", "short", "long"}) /\ Len(etype) = Len(kind)
    /\ place \in Seq(Nat \cup {-1}) /\ Len(place) = Len(kind)
    /\ inodeSize \in Nat /\ dirSize \in Nat /\ dirTable \in Seq(Item)
    /\ phase \in {"build", "serialize", "serialized", "failed"}
    /\ stack \in Seq([dir : Inodes, next : Nat \ {0}])
    /\ \A n \in DOMAIN stack : stack[n].next <= Len(entries[stack[n].dir]) + 1

\* Link counts are those of the tree: an inode has a link for every entry that
\* names it, a directory one more for every subdirectory, and the root one for the
\* image.  Once add_entry has run out of memory, a directory may have a link too
\* many, for a subdirectory that was not entered.  Entered has the entries of the
\* directories D that name an inode of Q.
Entered(D, Q) ==
    UNION {{<<d, k>> : k \in {n \in DOMAIN entries[d] : entries[d][n].inode \in Q}} : d \in D}
Links(i) == Entered(Inodes, {i})
Subdirectories(d) == Entered({d}, {i \in Inodes : kind[i] = "dir"})
LinkCount(i) ==
    Cardinality(Links(i)) + Cardinality(Subdirectories(i)) + (IF i = root THEN 1 ELSE 0)
LinkCounts ==
    \A i \in Inodes :
        IF oom /\ kind[i] = "dir" THEN nlink[i] >= LinkCount(i) ELSE nlink[i] = LinkCount(i)

\* What a reader finds: the entries of a directory on disk, from the place and the
\* size in its inode.
Position(place_) == place_.block * MetaSize + place_.offset
Inside(r) ==
    {n \in DOMAIN dirTable : /\ dirTable[n].at >= Position(r.start)
                             /\ dirTable[n].at < Position(r.start) + r.size - 3}
Listing(r) ==
    IF Inside(r) = {} THEN <<>>
    ELSE SubSeq(dirTable, CHOOSE n \in Inside(r) : \A m \in Inside(r) : n <= m,
                          CHOOSE n \in Inside(r) : \A m \in Inside(r) : m <= n)

\* The entry up to which the count of a header reaches, and the header of entry k.
LastBehind(items, j) == j + items[j].header.count
HeaderOf(items, k) ==
    items[CHOOSE j \in 1 .. k :
             /\ items[j].header # NoHeader
             /\ \A n \in j + 1 .. k : items[n].header = NoHeader].header

DirectoriesOnDisk == {r \in inodeTable : r.kind = "dir"}

\* The listing r leads to is that of its directory: the first entry has a header, and
\* so has the one behind the last entry that a header counts, and no other; names,
\* types and numbers are those of the directory, and the places those of the records.
CountsRight(items) ==
    /\ items # <<>> => items[1].header # NoHeader
    /\ \A j \in DOMAIN items : items[j].header # NoHeader =>
          /\ LastBehind(items, j) \in j .. Len(items)
          /\ \A n \in j + 1 .. LastBehind(items, j) : items[n].header = NoHeader
          /\ LastBehind(items, j) < Len(items) =>
                items[LastBehind(items, j) + 1].header # NoHeader
EntryReadBack(items, k, e) ==
    /\ items[k].name = e.name
    /\ items[k].type = kind[e.inode]
    /\ HeaderOf(items, k).number + items[k].diff = e.inode
    /\ \E q \in inodeTable :
          /\ q.inode = e.inode
          /\ Place(q.at) = [block |-> HeaderOf(items, k).block, offset |-> items[k].offset]
ListingReadBack(r) ==
    /\ Len(Listing(r)) = Len(entries[r.inode])
    /\ CountsRight(Listing(r))
    /\ \A k \in DOMAIN entries[r.inode] : EntryReadBack(Listing(r), k, entries[r.inode][k])

\* The tree on disk is the tree in memory, also when serialization stops half-way:
\* whoever reads the listing of a directory whose inode is on disk finds its entries
\* with their names, types and inode numbers, and every entry refers to the place
\* of the one record of that inode.  When serialization succeeds, the root is there,
\* and the export table leads from a number on disk to its record.
\* A reader takes the link count of a short regular inode, which has none, to be 1.
TreeReadBack ==
    /\ \A r \in DirectoriesOnDisk : ListingReadBack(r)
    /\ \A q, r \in inodeTable : q.inode = r.inode => q = r
    /\ \A r \in inodeTable : (IF r.nlink = -1 THEN 1 ELSE r.nlink) = nlink[r.inode]
    /\ phase = "serialized" => \E r \in inodeTable : r.inode = root /\ r.at = place[root]
    /\ phase = "serialized" => \A r \in inodeTable : ExportTable[r.inode] = Place(r.at)

\* The rules of the format (head of directory.c, and "file names must be kept sorted
\* in directory listings"): names are in order, and behind one header there are at
\* most MaxRun entries, which with it do not exceed MetaSize bytes unless there is
\* only one.
ItemSize(x) ==
    DirEntrySize + NameLength[x.name] + (IF x.header = NoHeader THEN 0 ELSE DirHeaderSize)
HeaderRules(items, j) ==
    /\ items[j].header.count < MaxRun
    /\ items[j].header.count > 0 =>
          items[LastBehind(items, j)].at + ItemSize(items[LastBehind(items, j)]) - items[j].at
              <= MetaSize
ListingRules ==
    \A r \in DirectoriesOnDisk :
        /\ \A k \in 1 .. Len(Listing(r)) - 1 : Listing(r)[k].name <= Listing(r)[k + 1].name
        /\ \A j \in DOMAIN Listing(r) :
              Listing(r)[j].header # NoHeader => HeaderRules(Listing(r), j)

\* A reader can jump to every entry of an index: the block it names, with the offset
\* that follows from its distance to the start of the listing, is where a header
\* and then the entry of that name are.  Entries of the index are more than
\* IndexSpacing apart, counted from the first entry.
Target(r, n) ==
    IF n = 0 THEN 1
    ELSE CHOOSE k \in DOMAIN Listing(r) :
            Listing(r)[k].at - Position(r.start) = r.index[n].index
JumpsTo(r, n, x) ==
    /\ x.header # NoHeader /\ x.name = r.index[n].name
    /\ x.at = r.index[n].block * MetaSize + ((r.start.offset + r.index[n].index) % MetaSize)
IndexUsable ==
    \A r \in DirectoriesOnDisk : \A n \in DOMAIN r.index :
        /\ JumpsTo(r, n, Listing(r)[Target(r, n)])
        /\ Target(r, n) - Target(r, n - 1) > IndexSpacing

-----------------------------------------------------------------------------
(* Why they hold.                                                          *)

\* Entries are in the order of their names.
SortedInv ==
    \A d \in Inodes : \A k \in 1 .. Len(entries[d]) - 1 :
        entries[d][k].name <= entries[d][k + 1].name

\* The root is a directory; a directory is entered only in its parent, and going from
\* a directory to its parent one leaves any set of directories in the end.
ParentInv ==
    /\ root # 0 => kind[root] = "dir"
    /\ \A d \in Inodes : \A k \in DOMAIN entries[d] :
          kind[d] = "dir" /\ (kind[entries[d][k].inode] = "dir" => parent[entries[d][k].inode] = d)
    /\ \A S \in SUBSET Inodes : S # {} => \E x \in S : parent[x] \notin S

\* Nothing is encoded before the tree is serialized.
BuildInv ==
    phase = "build" =>
        /\ \A i \in Inodes : etype[i] = "none"
        /\ inodeTable = {} /\ dirTable = <<>> /\ stack = <<>>

\* The running calls lead from the root down, to directories not yet encoded; the
\* entries behind them are.
StackInv ==
    /\ phase = "serialize" =>
          /\ stack # <<>> /\ stack[1].dir = root
          /\ \A n \in DOMAIN stack :
                /\ kind[stack[n].dir] = "dir" /\ etype[stack[n].dir] = "none"
                /\ \A k \in 1 .. stack[n].next - 1 :
                      etype[entries[stack[n].dir][k].inode] # "none"
          /\ \A n \in 1 .. Len(stack) - 1 :
                /\ stack[n].next <= Len(entries[stack[n].dir])
                /\ entries[stack[n].dir][stack[n].next].inode = stack[n + 1].dir
    /\ phase = "serialized" => root # 0 /\ etype[root] # "none"

\* An inode has one record, at its place, and has one once it is encoded, unless the
\* append of the record failed.
RecordInv ==
    /\ \A r \in inodeTable :
          /\ r.inode \in Inodes /\ etype[r.inode] # "none"
          /\ r.kind = kind[r.inode] /\ r.at = place[r.inode] /\ r.at \in Nat
          /\ (IF r.nlink = -1 THEN 1 ELSE r.nlink) = nlink[r.inode]
    /\ \A q, r \in inodeTable : q.inode = r.inode => q = r
    /\ phase \in {"serialize", "serialized"} =>
          \A i \in Inodes : etype[i] # "none" => \E r \in inodeTable : r.inode = i

\* The listing of directory r lies in the directory table behind its first lo items.
ListedBehind(lo, r, es, from) ==
    /\ lo + Len(es) <= Len(dirTable)
    /\ \A k \in DOMAIN es : dirTable[lo + k] = EncodedEntry(es, k, from)
    /\ \A n \in DOMAIN dirTable : n > lo + Len(es) => dirTable[n].at >= from + ListingSize(es)
    /\ from + ListingSize(es) <= dirSize
    /\ r.size = ListingSize(es) + 3
    /\ r.index = [n \in DOMAIN PrunedIndex(es) |-> IndexEntry(es, PrunedIndex(es)[n], from)]

\* The items of the directory table lie one behind the other, and every directory on
\* disk has its listing there, with entries that are on disk.
ListingInv ==
    /\ \A m, n \in DOMAIN dirTable : m < n => dirTable[m].at < dirTable[n].at
    /\ \A n \in DOMAIN dirTable : dirTable[n].at < dirSize
    /\ \A r \in DirectoriesOnDisk :
          /\ \A k \in DOMAIN entries[r.inode] :
                \E q \in inodeTable : q.inode = entries[r.inode][k].inode
          /\ r.start = Place(Position(r.start)) /\ Position(r.start) \in Nat
          /\ \E lo \in 0 .. Len(dirTable) :
                ListedBehind(lo, r, Seen(r.inode), Position(r.start))

\* With LinkCounts, the inductive invariant.
TreeInv ==
    /\ TreeTypeOK /\ SortedInv /\ ParentInv
    /\ BuildInv /\ StackInv /\ RecordInv /\ ListingInv
=============================================================================

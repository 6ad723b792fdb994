----------------------------- MODULE XattrTable -----------------------------
(***************************************************************************)
(* Extended attributes (xattrs.c) and the attributes of inodes that name   *)
(* them (libsqfs_inodeattr_create_extended, inodes.c), beside the owners   *)
(* of module IdTable.                                                      *)
(*                                                                         *)
(* An inode has the number of a set of attributes.  A reader takes the     *)
(* number to the index behind the header of the table, from there to a     *)
(* block of descriptors, and from the descriptor to the data.  Writer and  *)
(* reader agree on none of these places in writing: the number of a set is *)
(* counted in one place, its descriptor appended in another, and either    *)
(* may fail.                                                               *)
(*                                                                         *)
(* An attribute is [prefix, name, size]; size is what its header, name and *)
(* value take up together.  A byte of a table is the pair of what it is a  *)
(* part of and its number in that.  The two metatables are not compressed  *)
(* (libsqfs_xattr_table_init drops its compressor); here such a table is   *)
(* the sequence of its bytes, with the numbers of bytes after which its    *)
(* finished blocks end, and module MetaTable has the rest.                 *)
(***************************************************************************)
EXTENDS IdTable, SequencesExt

CONSTANTS
    Attributes,     \* what libsqfs_xattr_create is called with
    MaxSets,        \* bound: calls of libsqfs_xattrset_create
    MaxWrites,      \* bound: calls of libsqfs_image_finalize that get this far
    MetaSize,       \* SQUASHFS_METADATA_SIZE
    DescSize,       \* sizeof(struct squashfs_xattr_id)
    BlockRange,     \* 2^16: values of a 32-bit block offset that survive << 16
    ImageStart      \* image->size when the tables are written

ASSUME XattrSizes ==
    /\ {MetaSize, DescSize, BlockRange} \subseteq Nat \ {0}
    /\ MetaSize % DescSize = 0
    /\ ImageStart \in Nat /\ MaxSets \in Nat /\ MaxWrites \in Nat
ASSUME AttributesHaveSizes == \A a \in Attributes : a.size \in Nat \ {0}

VARIABLES
    xattrs,     \* the attributes created
    nids,       \* tab->nids
    sets,       \* the sets handed out: [id, attrs]
    xset,       \* for each of attrs (IdTable): its set in sets, or 0
    data,       \* xattr_data, as [bytes, ends]
    desc,       \* xattr_descriptors
    lost,       \* a set was given a number and then failed
    trusted,    \* the numbers below have their descriptors where a reader looks
    isize,      \* image->size, as far as the xattr table adds to it
    written,    \* what the last complete write has put on disk, or NotWritten
    writes,     \* calls of finalize
    phase       \* "building", "fatal", or "crashed": a NULL block was followed

xattrVars == <<xattrs, nids, sets, data, desc, lost, trusted>>
diskVars == <<isize, written, writes, phase>>

-----------------------------------------------------------------------------
(* A metatable without compressor.                                         *)

EmptyTable == [bytes |-> <<>>, ends |-> <<>>]
BlockHeader == 2

\* The end of block k; what is behind the last end is the open block.
EndOf(tab, k) == IF k = 0 THEN 0 ELSE tab.ends[k]
LastEnd(tab) == EndOf(tab, Len(tab.ends))
OpenSize(tab) == Len(tab.bytes) - LastEnd(tab)

\* libsqfs_metatable_append; a block is finished as soon as it is full.
MetaAppend(tab, bytes) ==
    [bytes |-> tab.bytes \o bytes,
     ends |-> tab.ends \o [k \in 1 .. (OpenSize(tab) + Len(bytes)) \div MetaSize |->
                              LastEnd(tab) + k * MetaSize]]

\* What an append may leave behind that fails: it does where a block is needed.
MetaAppendFailed(tab, bytes) ==
    {t \in {MetaAppend(tab, SubSeq(bytes, 1, n)) : n \in 0 .. Len(bytes) - 1} : OpenSize(t) = 0}

MetaFlush(tab) ==
    IF OpenSize(tab) = 0 THEN tab ELSE [tab EXCEPT !.ends = Append(@, Len(tab.bytes))]

\* tab->size after k blocks.
SizeOf(tab, k) == k * BlockHeader + EndOf(tab, k)
TableSize(tab) == SizeOf(tab, Len(tab.ends))
PlaceIn(tab) == [block |-> TableSize(tab), offset |-> OpenSize(tab)]

BytesOf(item, size) == [j \in 1 .. size |-> <<item, j>>]

-----------------------------------------------------------------------------
(* Attributes and sets.                                                    *)

\* xattr_domains; names are compared without regard to case in the code.
DomainCode == [user |-> 0, trusted |-> 1, security |-> 2]

\* classify_xattr_domain finds the prefix.
Classified(a) == a.prefix \in DOMAIN DomainCode

\* libsqfs_xattr_create; an attribute of another domain is refused.
XattrCreate(a) ==
    /\ phase = "building"
    /\ Classified(a)
    /\ a \notin xattrs
    /\ xattrs' = xattrs \cup {a}
    /\ UNCHANGED <<idVars, xset, nids, sets, data, desc, lost, trusted, diskVars>>

\* What is stored of an attribute: the number of its domain, and the rest.
Stored(a) == [type |-> DomainCode[a.prefix], name |-> a.name]

\* The four appends for each attribute, one behind the other.
DataBytes(as) == FlattenSeq([n \in DOMAIN as |-> BytesOf(Stored(as[n]), as[n].size)])
StoredSize(as) ==
    LET size[n \in 0 .. Len(as)] == IF n = 0 THEN 0 ELSE size[n - 1] + as[n].size
    IN size[Len(as)]

\* Where the data of a set begin: at the first of its appends.  Without attributes
\* stored_pos is not initialised.
StoredPos_After(as) == {PlaceIn(MetaAppend(data, DataBytes(as)))}    \* mutant
StoredPos(as) ==
    IF as # <<>> THEN {PlaceIn(data)} ELSE {[block |-> 0, offset |-> 0], PlaceIn(data)}

\* stored_pos.block << 16 | stored_pos.offset, as the reader takes it apart.
Reference(pos) == [block |-> pos.block % BlockRange, offset |-> pos.offset]

Descriptor(as, pos) ==
    [xattr |-> Reference(pos), count |-> Len(as), size |-> StoredSize(as)]

\* libsqfs_xattrset_create with libsqfs_xattrset_serialize_data.
XattrsetCreate(as) ==
    /\ phase = "building"
    /\ nids < MaxSets
    /\ nids' = nids + 1
    /\ sets' = Append(sets, [id |-> nids, attrs |-> as])
    /\ data' = MetaAppend(data, DataBytes(as))
    /\ \E pos \in StoredPos(as) :
          desc' = MetaAppend(desc, BytesOf(Descriptor(as, pos), DescSize))
    /\ UNCHANGED <<idVars, xset, xattrs, lost, trusted, diskVars>>

\* An append fails: the number is taken and the set in the list, but the caller gets
\* NULL and there is no descriptor.
XattrsetFail(as) ==
    /\ phase = "building"
    /\ "append" \in Faults
    /\ nids < MaxSets
    /\ nids' = nids + 1
    /\ \/ data' \in MetaAppendFailed(data, DataBytes(as)) /\ UNCHANGED desc
       \/ /\ data' = MetaAppend(data, DataBytes(as))
          /\ OpenSize(desc) = 0
          /\ UNCHANGED desc
    /\ lost' = TRUE
    /\ trusted' = IF trusted > nids THEN nids ELSE trusted
    /\ UNCHANGED <<idVars, xset, xattrs, sets, diskVars>>

\* libsqfs_inodeattr_create_extended; set 0 is NULL.
InodeattrCreateExtended(uid, gid, set) ==
    /\ phase = "building"
    /\ CreateSimple(uid, gid, TRUE, TRUE)
    /\ xset' = IF attrs' = attrs THEN xset ELSE Append(xset, set)
    /\ UNCHANGED <<xattrVars, diskVars>>

-----------------------------------------------------------------------------
(* Writing the id table and the xattr table, as libsqfs_image_finalize does.*)

NotWritten == [offset |-> -1]
HeaderSize == 16            \* sizeof(struct squashfs_xattr_table)
IndexEntrySize == 8         \* sizeof(uint64_t)

\* How many blocks of descriptors the index has to name.
IndexEntries_OneMore == ((nids * DescSize) \div MetaSize) + 1        \* mutant
IndexEntries == (nids * DescSize + MetaSize - 1) \div MetaSize

\* The blocks of a table written from a place on: their places and bytes.
BlocksAt(tab, base) ==
    {[at |-> base + SizeOf(tab, k - 1), bytes |-> SubSeq(tab.bytes, EndOf(tab, k - 1) + 1, EndOf(tab, k))] :
        k \in DOMAIN tab.ends}

\* What libsqfs_idtable_write and libsqfs_xattr_table_write leave on disk.  The
\* blocks of the data come first, those of the descriptors next, and then the
\* header, which begins the index.
TablesOnDisk(d, e) ==
    LET descBase == isize + TableSize(d)
        header == descBase + TableSize(e)
    IN [offset |-> IF nids = 0 THEN -1 ELSE header,
        ids |-> ids,
        inodes |-> Len(attrs),
        start |-> isize,
        xattr_ids |-> nids,
        blocks |-> BlocksAt(d, isize) \cup BlocksAt(e, descBase),
        index |-> [k \in 1 .. IndexEntries |-> descBase + SizeOf(e, k - 1)]]

\* Where the area of the xattr table ends.
XattrEnd(d, e) ==
    isize + TableSize(d) + TableSize(e) + HeaderSize + IndexEntries * IndexEntrySize

\* The write; a failing truncate leaves the image building, and finalize may be
\* called again.
WriteTables ==
    LET d == MetaFlush(data)
        e == MetaFlush(desc)
    IN /\ phase = "building"
       /\ writes < MaxWrites
       /\ writes' = writes + 1
       /\ data' = IF nids = 0 THEN data ELSE d
       /\ desc' = IF nids = 0 THEN desc ELSE e
       /\ trusted' = IF OpenSize(desc) # 0 /\ trusted > nids THEN nids ELSE trusted
       /\ IF nids > 0 /\ IndexEntries > Len(e.ends)
          THEN phase' = "crashed" /\ UNCHANGED <<isize, written>>
          ELSE /\ written' = TablesOnDisk(d, e)
               /\ isize' = IF nids = 0 THEN isize ELSE XattrEnd(d, e)
               /\ UNCHANGED phase
       /\ UNCHANGED <<idVars, xset, xattrs, nids, sets, lost>>

\* A pwrite of the id table, or of one of the parts of the xattr table, fails, and
\* the image with it; what an earlier call has put on disk stays.
WriteFail ==
    LET d == MetaFlush(data)
        e == MetaFlush(desc)
    IN /\ phase = "building"
       /\ "write" \in Faults
       /\ writes < MaxWrites
       /\ writes' = writes + 1
       /\ phase' = "fatal"
       /\ \/ UNCHANGED <<data, desc, isize>>
          \/ /\ nids > 0 /\ data' = d
             /\ \/ isize' = isize + TableSize(d) /\ UNCHANGED desc
                \/ isize' = isize + TableSize(d) + TableSize(e) /\ desc' = e
                \/ isize' = XattrEnd(d, e) /\ desc' = e
       /\ UNCHANGED <<idVars, xset, xattrs, nids, sets, lost, trusted, written>>

-----------------------------------------------------------------------------
XattrInit ==
    /\ Init
    /\ xattrs = {} /\ nids = 0 /\ sets = <<>> /\ xset = <<>>
    /\ data = EmptyTable /\ desc = EmptyTable
    /\ lost = FALSE /\ trusted = MaxSets
    /\ isize = ImageStart /\ written = NotWritten /\ writes = 0
    /\ phase = "building"

\* "a collection of name/value pairs (with distinct names)"
Collections ==
    {as \in SeqOf(xattrs, 2) : \A m, n \in DOMAIN as : as[m] = as[n] => m = n}

XattrNext ==
    \/ \E a \in Attributes : XattrCreate(a)
    \/ \E as \in Collections : XattrsetCreate(as) \/ XattrsetFail(as)
    \/ \E uid, gid \in Owners, set \in 0 .. Len(sets) : InodeattrCreateExtended(uid, gid, set)
    \/ WriteTables \/ WriteFail

XattrSpec == XattrInit /\ [][XattrNext]_<<idVars, xset, xattrVars, diskVars>>

-----------------------------------------------------------------------------
(* Properties.                                                             *)

\* A reader of an image.  The block at a place, the byte at a location, and the location
\* of the next byte, in that block or at the beginning of the one that follows.
BlockAt(img, at) ==
    IF \E b \in img.blocks : b.at = at
    THEN (CHOOSE b \in img.blocks : b.at = at).bytes ELSE <<>>
NoByte == <<[none |-> TRUE], 0>>
ByteAt(img, l) ==
    IF l.pos < Len(BlockAt(img, l.at)) THEN BlockAt(img, l.at)[l.pos + 1] ELSE NoByte
NextByte(img, l) ==
    IF l.pos + 1 < Len(BlockAt(img, l.at)) THEN [at |-> l.at, pos |-> l.pos + 1]
    ELSE [at |-> l.at + Len(BlockAt(img, l.at)) + BlockHeader, pos |-> 0]
ReadBytes(img, at, offset, n) ==
    LET loc[k \in 0 .. n] ==
            IF k = 0 THEN [at |-> at, pos |-> offset] ELSE NextByte(img, loc[k - 1])
    IN [k \in 1 .. n |-> ByteAt(img, loc[k - 1])]

\* The descriptor of a number: entry id * DescSize \div MetaSize of the index, and
\* the rest within the block.
ReadDescriptor(img, id) ==
    ReadBytes(img, img.index[((id * DescSize) \div MetaSize) + 1], (id * DescSize) % MetaSize, DescSize)

\* The number the reader finds has a descriptor, all of it, and the descriptor leads
\* to the attributes the set was created with, one after the other.
SetReadBack(img, set) ==
    /\ set.id < img.xattr_ids
    /\ LET bytes == ReadDescriptor(img, set.id)
           d == bytes[1][1]
       IN /\ bytes[1] # NoByte
          /\ bytes = BytesOf(d, DescSize)
          /\ d.count = Len(set.attrs)
          /\ ReadBytes(img, img.start + d.xattr.block, d.xattr.offset, d.size) = DataBytes(set.attrs)

\* Are the data too far into the table for the reference (xattrs.c:113)?
OutOfRange(set) ==
    TableSize(data) >= BlockRange /\ set.attrs # <<>>

\* Whoever reads an inode of the image finds the owners and the extended attributes
\* the application created it with, through the index, the descriptors and blocks
\* that records span, also when the image is finalized again.  It holds for all
\* sets up to the first one whose creation failed, or that followed an earlier
\* finalize, as long as the table is below BlockRange; and for the owners as long as
\* there are no more than the field has values.
AttributesReadBack ==
    written # NotWritten =>
        \A i \in 1 .. written.inodes :
            /\ Len(written.ids) <= IdRange =>
                  /\ written.ids[attrs[i].mapped_uid + 1] = attrs[i].uid
                  /\ written.ids[attrs[i].mapped_gid + 1] = attrs[i].gid
            /\ xset[i] # 0 /\ sets[xset[i]].id < trusted /\ ~OutOfRange(sets[xset[i]])
                 => SetReadBack(written, sets[xset[i]])

\* The loop that fills the index follows the list of descriptor blocks as far as the
\* number of sets says: it runs off the list only after a set was lost.
IndexWithinBlocks == phase = "crashed" => lost
=============================================================================

------------------------------- MODULE MkSqfs -------------------------------
(***************************************************************************)
(* examples/mksqfs.c: the program that makes an image of a directory of    *)
(* the file system.  It walks the directory, gives every file an inode of  *)
(* module InodeTree, and serializes the tree; the objects it holds handles *)
(* of are those of module Handles.  It ignores the results of the library, *)
(* so that a NULL one crashes it sooner or later.                          *)
(*                                                                         *)
(* A source is the sequence of the files below the directory:              *)
(* [parent, name, kind, dev, ino, xattrs, target], where parent is the     *)
(* number of another file, or 0 for the directory itself.  xattrs says     *)
(* what listxattr returns for the path: "none", "known", or "foreign" if   *)
(* there is an attribute of a domain classify_xattr_domain does not know;  *)
(* target is the length of the target of a symlink.                        *)
(***************************************************************************)
EXTENDS InodeTree, Handles

CONSTANTS
    Runs,           \* command lines: [compressors, args, source, failAt]
    HashSize,       \* INODE_HASH_SIZE
    TargetMax       \* the longest target add_symlink reads

\* Names of a directory differ, and a file comes after the directory it is in.
IsSource(s) ==
    /\ s \in Seq([parent : Nat, name : Names, kind : Kinds \cup {"socket"}, dev : Nat, ino : Nat,
                  xattrs : {"none", "known", "foreign"}, target : Nat])
    /\ \A n \in DOMAIN s : s[n].parent < n /\ (s[n].parent # 0 => s[s[n].parent].kind = "dir")
    /\ \A m, n \in DOMAIN s : s[m].parent = s[n].parent /\ s[m].name = s[n].name => m = n

ASSUME HashSizePositive == HashSize \in Nat \ {0}
ASSUME TargetMaxIsNat == TargetMax \in Nat
ASSUME MakesEveryKind == Makes = [kind : Kinds, xattr : BOOLEAN]
ASSUME SourcesAreTrees == \A r \in Runs : IsSource(r.source)

VARIABLES
    run,            \* how the program was called
    stage,          \* where main is; "crashed", "exit" and "done" are its ends
    optind,         \* the next option
    heap, options, dest, image,
    compressor,     \* what parse_options holds when it crashes, or NULL
    walk,           \* the running calls of add_directory
    cache,          \* inode_cache: bucket -> sequence of [dev, ino, inode]
    target          \* of each inode: the length of the target stored

mainVars == <<run, optind, heap, options, dest, image, compressor>>
treeAll == <<treeVars, tableVars, runVars>>
walkVars == <<walk, cache, target>>

-----------------------------------------------------------------------------
(* main before the walk.                                                   *)

CreateOptions ==
    LET o == OptionsCreate(heap) IN
    /\ stage = "start"
    /\ heap' = o.heap /\ options' = o.ptr
    /\ stage' = "options"
    /\ UNCHANGED <<run, optind, dest, image, compressor, treeAll, walkVars>>

\* parse_compressor; an unknown name and a failed allocation both end the program.
ParseCompressor(name) ==
    IF name \in DOMAIN Compressors THEN CompressorCreate(heap, name) ELSE Fail(heap)

\* The option -c of parse_options.  Without options, set_compressor follows NULL before
\* it does anything else.
ParseOption ==
    LET c == ParseCompressor(run.compressors[optind]) IN
    /\ stage = "options"
    /\ optind \in DOMAIN run.compressors
    /\ optind' = optind + 1
    /\ IF c.ptr = NULL THEN stage' = "exit" /\ heap' = c.heap /\ UNCHANGED compressor
       ELSE IF options = NULL THEN stage' = "crashed" /\ heap' = c.heap /\ compressor' = c.ptr
       ELSE /\ heap' = CompressorDestroy(SetCompressor(c.heap, options, c.ptr), c.ptr)
            /\ UNCHANGED <<stage, compressor>>
    /\ UNCHANGED <<run, options, dest, image, treeAll, walkVars>>

\* The rest of parse_options.
ParseArguments ==
    /\ stage = "options"
    /\ optind \notin DOMAIN run.compressors
    /\ stage' = IF run.args THEN "destination" ELSE "exit"
    /\ UNCHANGED <<mainVars, treeAll, walkVars>>

CreateDestination ==
    LET d == DestinationCreateForFile(heap) IN
    /\ stage = "destination"
    /\ heap' = d.heap /\ dest' = d.ptr
    /\ stage' = "image"
    /\ UNCHANGED <<run, optind, options, image, compressor, treeAll, walkVars>>

\* libsqfs_image_create, libsqfs_image_options_destroy; the image is used next.
CreateImage ==
    LET i == ImageCreate(heap, options) IN
    /\ stage = "image"
    /\ image' = i.ptr
    /\ options' = NULL
    /\ heap' = IF options = NULL THEN i.heap ELSE OptionsDestroy(i.heap, options)
    /\ stage' = IF options = NULL \/ i.ptr = NULL THEN "crashed" ELSE "root"
    /\ UNCHANGED <<run, optind, dest, compressor, treeAll, walkVars>>

-----------------------------------------------------------------------------
(* The walk.  A call of add_directory scans the directory, then treats the *)
(* regular files and then the others.  sub is the inode made for the entry *)
(* at hand.                                                                *)

Files == DOMAIN run.source
FilesOf(node) == {n \in Files : run.source[n].parent = node}

Frame(inode, node) ==
    [inode |-> inode, unread |-> FilesOf(node), list |-> <<>>, pass |-> "scan", at |-> 1, sub |-> 0]

This == walk[Len(walk)]
Current == This.list[This.at]
File == run.source[Current]
InPass(pass) == stage = "walk" /\ This.pass = pass
AtFile(pass) == InPass(pass) /\ This.at <= Len(This.list)
SetThis(frame) == walk' = [walk EXCEPT ![Len(walk)] = frame]
Step == SetThis([This EXCEPT !.at = @ + 1, !.sub = 0])

\* The inode for a file, with its attributes (get_inode_attrs, get_xattrset), its
\* target, and nothing else of its content.
Make(k, xs, len) ==
    /\ CreateInode([kind |-> k, xattr |-> xs = "known"])
    /\ target' = Append(target, len)

RootDirectory ==
    /\ stage = "root"
    /\ Make("dir", "none", 0)
    /\ walk' = <<Frame(1, 0)>>
    /\ stage' = "walk"
    /\ UNCHANGED <<mainVars, cache>>

\* The source cannot be opened, or its attributes or its inode cannot be created; NULL
\* is followed by readdir, or when something is entered or the root is set.
RootFails ==
    /\ stage = "root"
    /\ "create" \in Faults
    /\ stage' = "crashed"
    /\ UNCHANGED <<mainVars, walkVars, treeAll>>

\* mutant: entries stay in the order of readdir
Inserted_Unsorted(list, n) == Append(list, n)

\* The insertion of an entry into the list, in whatever order readdir returns them.
Inserted(list, n) ==
    LET before == Cardinality({j \in DOMAIN list :
                     \A i \in 1 .. j : run.source[list[i]].name < run.source[n].name})
    IN SubSeq(list, 1, before) \o <<n>> \o SubSeq(list, before + 1, Len(list))

ReadEntry(n) ==
    /\ InPass("scan")
    /\ n \in This.unread
    /\ SetThis([This EXCEPT !.unread = @ \ {n}, !.list = Inserted(This.list, n)])
    /\ UNCHANGED <<mainVars, stage, cache, target, treeAll>>

\* A path longer than PATH_MAX.
PathTooLong ==
    /\ InPass("scan") /\ This.unread # {}
    /\ "path" \in Faults
    /\ stage' = "exit"
    /\ UNCHANGED <<mainVars, walkVars, treeAll>>

NextPass ==
    /\ \/ InPass("scan") /\ This.unread = {} /\ SetThis([This EXCEPT !.pass = "files"])
       \/ /\ InPass("files") /\ This.at > Len(This.list)
          /\ SetThis([This EXCEPT !.pass = "others", !.at = 1])
    /\ UNCHANGED <<mainVars, stage, cache, target, treeAll>>

\* Entries the other pass treats.
SkipEntry ==
    /\ \/ AtFile("files") /\ File.kind # "file"
       \/ AtFile("others") /\ File.kind = "file"
    /\ Step
    /\ UNCHANGED <<mainVars, stage, cache, target, treeAll>>

\* inode_cache_bucket, inode_cache_lookup and inode_cache_insert.
Bucket(f) == (f.dev + f.ino) % HashSize
Same_Ino(e, f) == e.ino = f.ino     \* mutant: a file system is not told from another
Same(e, f) == e.dev = f.dev /\ e.ino = f.ino
Lookup(f) ==
    LET hits == {k \in DOMAIN cache[Bucket(f)] : Same(cache[Bucket(f)][k], f)}
    IN IF hits = {} THEN 0
       ELSE cache[Bucket(f)][CHOOSE k \in hits : \A j \in hits : k <= j].inode
Insert(f, inode) ==
    cache' = [cache EXCEPT ![Bucket(f)] = <<[dev |-> f.dev, ino |-> f.ino, inode |-> inode]>> \o @]

\* A file or another entry for which there is no inode yet.
NeedsFile == AtFile("files") /\ File.kind = "file" /\ Lookup(File) = 0
NeedsOther == AtFile("others") /\ File.kind # "file" /\ This.sub = 0

\* add_file.
AddFile ==
    /\ NeedsFile /\ File.xattrs # "foreign"
    /\ Make("file", File.xattrs, 0)
    /\ Insert(File, Len(kind) + 1)
    /\ UNCHANGED <<mainVars, stage, walk>>

\* libsqfs_directory_add_entry; that it may fail goes unnoticed.
Enter(inode) ==
    /\ AddEntry(This.inode, File.name, inode) \/ AddEntryFail(This.inode, File.name, inode)
    /\ Step
    /\ UNCHANGED <<mainVars, stage, cache, target>>

EnterFile == AtFile("files") /\ File.kind = "file" /\ Lookup(File) # 0 /\ Enter(Lookup(File))

\* The length of the target add_symlink stores, 0 for other files.
TargetOf(f) ==
    IF f.kind # "symlink" THEN 0 ELSE IF f.target > TargetMax THEN TargetMax ELSE f.target

\* add_symlink, add_device, add_fifo, or the recursive call of add_directory.
AddOther ==
    LET inode == Len(kind) + 1
        here == [walk EXCEPT ![Len(walk)].sub = inode]
    IN /\ NeedsOther /\ File.xattrs # "foreign" /\ File.kind # "socket"
       /\ Make(File.kind, File.xattrs, TargetOf(File))
       /\ walk' = IF File.kind = "dir" THEN Append(here, Frame(inode, Current)) ELSE here
       /\ UNCHANGED <<mainVars, stage, cache>>

EnterOther == AtFile("others") /\ This.sub # 0 /\ Enter(This.sub)

\* "Don't know how to handle"; the attributes are made first.
UnknownKind ==
    /\ NeedsOther /\ File.kind = "socket" /\ File.xattrs # "foreign"
    /\ stage' = "exit"
    /\ UNCHANGED <<mainVars, walkVars, treeAll>>

\* What cannot be created is NULL, and libsqfs_directory_add_entry or an earlier
\* function follows it.  An attribute of a foreign domain is NULL in the set, and
\* libsqfs_xattrset_serialize_data follows that.
NullFollowed ==
    /\ NeedsFile \/ NeedsOther
    /\ File.xattrs = "foreign" \/ ("create" \in Faults /\ File.kind # "socket")
    /\ stage' = "crashed"
    /\ UNCHANGED <<mainVars, walkVars, treeAll>>

\* add_directory returns.
Return ==
    /\ InPass("others") /\ This.at > Len(This.list)
    /\ walk' = SubSeq(walk, 1, Len(walk) - 1)
    /\ stage' = IF Len(walk) = 1 THEN "setroot" ELSE "walk"
    /\ UNCHANGED <<mainVars, cache, target, treeAll>>

-----------------------------------------------------------------------------
(* main after the walk.                                                    *)

MainSetRoot ==
    /\ stage = "setroot"
    /\ SetRoot(1)
    /\ stage' = "finalize"
    /\ UNCHANGED <<mainVars, walkVars>>

\* Tables are written behind a serialization that failed as well: finalize does not look
\* at its result.
WritesTables == phase \in {"serialized", "failed"}

\* A block of metadata is flushed with a compressor that has no function for it, or
\* something is to be written and there is no destination.
FlushCrashes ==
    /\ WritesTables \/ inodeSize >= MetaSize \/ dirSize >= MetaSize
    /\ ~Compressors[ImageAlgorithm(heap, image)].meta
WriteCrashes == WritesTables /\ dest = NULL

FinalizeStep ==
    /\ stage = "finalize"
    /\ ~FlushCrashes
    /\ SerializeStep
    /\ UNCHANGED <<mainVars, stage, walkVars>>

FinalizeCrash ==
    /\ stage = "finalize"
    /\ FlushCrashes \/ WriteCrashes
    /\ stage' = "crashed"
    /\ UNCHANGED <<mainVars, walkVars, treeAll>>

\* A worker that has to write a block of data finds no destination.
WorkerCrash ==
    /\ dest = NULL
    /\ stage \in {"walk", "setroot", "finalize"} /\ phase = "build"
    /\ \E i \in Inodes : kind[i] = "file"
    /\ stage' = "crashed"
    /\ UNCHANGED <<mainVars, walkVars, treeAll>>

\* libsqfs_image_close: libsqfs_image_finalize has ended, or returned at once because
\* the data of a file could not be read.
MainClose ==
    /\ stage = "finalize"
    /\ \/ WritesTables /\ ~FlushCrashes /\ ~WriteCrashes
       \/ phase = "build" /\ "data" \in Faults
    /\ heap' = ImageDestroy(heap, image)
    /\ image' = NULL
    /\ stage' = "release"
    /\ UNCHANGED <<run, optind, options, dest, compressor, walkVars, treeAll>>

MainRelease ==
    /\ stage = "release"
    /\ IF dest = NULL THEN stage' = "crashed" /\ UNCHANGED <<heap, dest>>
       ELSE stage' = "done" /\ heap' = DestinationRelease(heap, dest) /\ dest' = NULL
    /\ UNCHANGED <<run, optind, options, image, compressor, walkVars, treeAll>>

-----------------------------------------------------------------------------
MkInit ==
    /\ Init
    /\ run \in Runs
    /\ stage = "start" /\ optind = 1
    /\ heap = NewHeap(run.failAt)
    /\ options = NULL /\ dest = NULL /\ image = NULL /\ compressor = NULL
    /\ walk = <<>> /\ cache = [b \in 0 .. HashSize - 1 |-> <<>>] /\ target = <<>>

Main ==
    \/ CreateOptions \/ ParseOption \/ ParseArguments \/ CreateDestination \/ CreateImage
    \/ RootDirectory \/ RootFails \/ MainSetRoot \/ FinalizeStep \/ FinalizeCrash \/ WorkerCrash
    \/ MainClose \/ MainRelease

AddDirectory ==
    \/ \E n \in Files : ReadEntry(n)
    \/ PathTooLong \/ NextPass \/ SkipEntry \/ AddFile \/ EnterFile \/ AddOther \/ EnterOther
    \/ UnknownKind \/ NullFollowed \/ Return

mkVars == <<mainVars, stage, walkVars, treeAll>>

\* The program has ended; anywhere else a state without a next step is a deadlock.
Stopped == stage \in {"done", "exit", "crashed"} /\ UNCHANGED mkVars

MkNext == Main \/ AddDirectory \/ Stopped

MkSpec == MkInit /\ [][MkNext]_mkVars

-----------------------------------------------------------------------------
(* Properties.                                                             *)

\* The objects alive are those the program has handles of, with what they own: a
\* function that fails half-way gives back what it took, an image keeps its own copy
\* of the options, and at the end nothing is left.  Nothing is used or freed after
\* it was freed.
HandlesBalanced ==
    /\ ~heap.bad
    /\ Live(heap) = Owned(heap, {options, image, dest, compressor})

\* What a reader finds: the inode of a name in a directory on disk, 0 if there is
\* none, and the inode of a file of the source.
RecordOf(i) == CHOOSE r \in inodeTable : r.inode = i
ReadName(i, name) ==
    LET items == IF \E r \in DirectoriesOnDisk : r.inode = i THEN Listing(RecordOf(i)) ELSE <<>>
        hits == {k \in DOMAIN items : items[k].name = name}
    IN IF hits = {} THEN 0
       ELSE LET k == CHOOSE k \in hits : TRUE IN HeaderOf(items, k).number + items[k].diff
Found ==
    LET found[n \in 0 .. Len(run.source)] ==
            IF n = 0 THEN root ELSE ReadName(found[run.source[n].parent], run.source[n].name)
    IN found

\* The image is the source: in whatever order readdir returns names, every file is
\* found under its path with its kind, its target and its links, there is nothing
\* else, and two paths lead to the same inode exactly if they are the same regular
\* file (other kinds of files lose their hard links).
SourceMirrored ==
    phase = "serialized" /\ ~oom =>
        LET found == Found
            src == run.source
            same(m, n) == /\ src[m].kind = "file" /\ src[n].kind = "file"
                          /\ <<src[m].dev, src[m].ino>> = <<src[n].dev, src[n].ino>>
        IN /\ Len(dirTable) = Len(src)
           /\ \A n \in Files :
                 /\ found[n] # 0
                 /\ \E r \in inodeTable :
                       /\ r.inode = found[n] /\ r.kind = src[n].kind
                       /\ r.kind = "file" =>
                             (IF r.nlink = -1 THEN 1 ELSE r.nlink) = Cardinality({m \in Files : same(m, n)})
                 /\ src[n].kind = "symlink" /\ src[n].target <= TargetMax
                       => target[found[n]] = src[n].target
           /\ \A m, n \in Files : found[m] = found[n] <=> (m = n \/ same(m, n))

\* Images of the same source are the same: inode numbers follow from the source and
\* not from the order of readdir.  In every directory the regular files come before
\* the others and otherwise the names decide, except for a file that has another
\* path and may have been numbered there.
Precedes(f, g) ==
    IF (f.kind = "file") = (g.kind = "file") THEN f.name < g.name ELSE f.kind = "file"
OtherPath(n) ==
    \E m \in Files \ {n} : /\ run.source[m].kind = "file" /\ run.source[n].kind = "file"
                           /\ run.source[m].dev = run.source[n].dev
                           /\ run.source[m].ino = run.source[n].ino
NumberedInOrder ==
    phase = "serialized" /\ ~oom =>
        LET found == Found IN
        \A m, n \in Files :
            /\ run.source[m].parent = run.source[n].parent
            /\ Precedes(run.source[m], run.source[n])
            /\ ~OtherPath(n)
            => found[m] < found[n]
=============================================================================

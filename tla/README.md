# A TLA+ model of libsqfs

libsqfs is a C library that builds SquashFS images. This directory holds TLA+
modules that model it, the configurations with which TLC checks them on small
instances, and proofs that TLAPS checks for all instances. Source paths below
are relative to the repository (`src/bulkdata.c` is the library file).

## 1. The system: inventory

| Component | State | Operations | Interacts with |
|---|---|---|---|
| Bulk-data pipeline (`src/bulkdata.c`) | chunk list with counters, five work queues, list of fragment pieces, fragment blocks, `may_add_chunks`, `aborted`, a lock and a condition | submit, submit_fragment, seal, process, finish, abort, write_fragment_table | run by the workers and by the application thread; calls data sources, compressors, destination; flags errors on the image |
| Image (`src/image.c`) | state, error message, root, `size`, options, all tables | create, set_root, spawn, abort, finalize, close, reserve, flag_error | owns everything else; `finalize` waits for the pipeline and lays out the tables |
| Thread pool (`src/threadpool.c`) | list of threads | spawn, auto_spawn, wait | runs `libsqfs_bulkdata_process` |
| Metadata tables (`src/metatable.c`) | list of finished blocks, open block, size, offset | append, write, write_with_index | every table of the image |
| Data sources (`src/datasource.c`) | path, buffer or list of pieces | get_size, pread | read by the pipeline, sized by regular files |
| Regular files (`src/regular.c`) | size, blocks, tail piece | create, serialize | submits chunks |
| Directories (`src/directory.c`) | entries, parent, link count | add_entry, lookup, serialize | inode and directory table |
| Special inodes (`src/special.c`) | target or device number | create, serialize | inode table |
| Inodes, attributes, ids (`src/inodes.c`, `src/idtable.c`) | inode list, owner table | create_simple, map, write | named by every inode |
| Extended attributes (`src/xattrs.c`) | attributes, sets with their numbers, data and descriptors | create, create set, write | named by inode attributes; tail of `finalize` |
| Export table, superblock (`src/export.c`, `src/superblock.c`) | offsets | write | tail of `finalize` |
| Compressors (`src/compressor*.c`), destination (`src/destination.c`) | library handles, a descriptor | create, copy, open, destroy; compress, pwrite, truncate | owned by options and images; external libraries and system calls |
| mksqfs (`examples/mksqfs.c`) | list of entries per directory, cache of inodes by device and number | parse options, walk a directory, close | the one application of the library in the repository |

What is hard here. The pipeline is concurrent: chunks are read, compressed and
written with the lock released, several at a time, and yet the image must have
them in the order of submission. Errors arise in workers while the application
is inside `finalize`. `image->size` is shared by workers and by the tail of
`finalize`. Places of records are handed out before the block they name is
compressed. File sizes are taken long before the bytes are read. The list of
hazards in `PROJECT.json` names each at its line, with the properties that
cover it.

What makes each component correct:

- pipeline: the image is the one a single thread would write; no chunk is lost
  or handled twice; buffers are there when used and free of races; every thread
  ends;
- image: *finalized* means complete, without overlaps or holes; errors are
  final and reported; `close` returns;
- tables: a record is found at the place handed out for it, by a reader who has
  only the image;
- files: the chunks cover the file, hold its bytes, and agree with what a reader
  computes from the size;
- tree: a reader finds the tree the application built; link counts are right;
- ids and xattrs: an inode names the owners and attributes it was created with,
  for a reader who has index, descriptors and blocks only;
- handles: what a failing function took is given back, once;
- mksqfs: the image mirrors the directory, whatever order `readdir` returns.

## 2. Modules

| Module | Models |
|---|---|
| `ImageBlocks` | a stored block and what compression makes of a content |
| `BulkData` | the pipeline, all threads, all failures |
| `OrderedImage` | abstract: what the pipeline promises, as a sequential program |
| `Image` | life of an image around `BulkData`: finalize with its tables, close |
| `MetaTable` | the container of every table |
| `IdTable` | owner ids in 16-bit fields |
| `XattrTable` | extended attributes, on top of `IdTable`: sets, descriptors, index; what is on disk |
| `InodeTree` | inodes, directories, link counts; serialization with listings and indexes |
| `FileData` | cutting a file into chunks and reading them through a data source |
| `Handles` | options, images, compressors, destinations as objects of a heap: who owns what |
| `MkSqfs` | the program `mksqfs`, on top of `InodeTree` and `Handles` |
| `BulkDataInvariants` | the invariants behind the properties of `BulkData` about bytes and places, and its refinement mapping to `OrderedImage` |
| `BulkDataProofs` | theorems: queues, stages, lock, order of writing, fragment blocks |
| `BulkDataResultProofs` | theorems: bytes in memory, blocks on disk, nothing is lost, the finished image is complete and read back, `BulkData` implements `OrderedImage` |
| `ImageProofs` | theorems about `Image`: failures are reported and final, areas are disjoint and leave no hole, *finalized* means complete |
| `XattrTableProofs` | theorems about `IdTable` and `XattrTable`: owners and extended attributes |
| `MkSqfsProofs` | theorems about `MkSqfs`: handles are balanced, the program uses the tree as `InodeTree` has it, the image is the source |
| `MetaTableProofs`, `FileDataProofs`, `InodeTreeProofs` | theorems about the module of that name |
| `MC*` | constants and symmetry for TLC |

### BulkData

A chunk is its number in the order of submission, so the links `prev` and `next`
of the chunk list are arithmetic; number 0 is NULL. The variables are the fields
of `libsqfs_bulkdata`, of the chunks and of the fragment blocks under their own
names where TLA+ allows; `disk` records the writes that succeeded, `pc` and
`cur` where each thread is and which chunk it holds. `cached[c]` stands for the
buffer `cached_data`, the `content` of an image block for its `data` (empty:
NULL). The bytes of a chunk are one data item.

An action is a maximal section of code between two operations on the lock, and
every iteration of the loop of `process` is one. `pc = "loop"` is exactly
"holds the lock". A chunk's stage method that releases the lock is split into
the action that takes the chunk (`StartRead`, `StartCompress`, `StartWrite`) and
the one that comes back (`ReadDone`, `CompressDone`, `WriteDone`, or the
failure). An error is two actions, because `flag_error` sets the state first
and `libsqfs_bulkdata_abort` takes the lock afterwards. `pthread_cond_signal`
wakes any one waiter, `pthread_cond_wait` may return spuriously.

Not in the model: the allocation failure in `libsqfs_image_block_compress` (the
code tests the size instead of the pointer, so that the error path cannot be
taken), and submissions that fail to allocate (nothing changes).

`RegularInode` and `FragmentTable` are what finalize stores about a file once the
pipeline is done: the place of its first block, the sizes of its blocks, the index
and the offset of its tail. A file is any run of full blocks with an optional
piece behind it, since that is what `libsqfs_regular_inode_create` submits.

### OrderedImage

What a reader of the header comment of `bulkdata.h` would write down: chunks are
handled one after the other. `BulkDataInvariants` maps `BulkData` to it: written chunks
are the finished ones, the log is `disk`, and the open fragment block is the
block of the last finished piece, cut to the pieces that are finished.

### Image

Extends `BulkData` with the calls of the application and the part of `finalize`
that follows the bulk data. A table is a sequence of parts (data, index,
descriptors, header), each reserved and written in turn. `ReadSize` and
`WritePart` are the two halves of `libsqfs_image_reserve`, which finalize calls
without a lock. The serialization of the inode tree is one step that may fail.
`finalize` may be called again as long as the image is *building*.

### MetaTable, IdTable, FileData

`MetaTable` has one action per iteration of the loops of `append` and `write`;
bytes are pairs (record, position), so that the properties can say which byte a
reader finds. The compressor returns any of a set of sizes. A table is either
indexed (filled, written once) or lives with the image (written again by a
second `finalize`, after more appends). A write may fail at the header of a block
or at its data, and then leaves the header on disk. `IdTable` has the width of the inode's
field as a constant. `FileData` covers `libsqfs_regular_inode_create`, the
three kinds of data source and the check in `libsqfs_chunk_do_read`; the file
may change at any moment.

### XattrTable

Extends `IdTable`, so that an inode has owners and a set of attributes, and adds
what finalize writes of both. A byte is the pair of the record it belongs to and
its number in that, a table is the sequence of its bytes with the ends of its
finished blocks (the open block is what follows the last end), and the properties
read the image the way a reader does: number of the set, entry of the index, block
of descriptors, reference, data. Owners are read back as long as the table of ids
is within the range of its field (`idtable_full` is what happens beyond it). `nids` is counted before anything is serialized, as
in the code. The code gives a reader a wrong answer in three cases, which the
property names instead of leaving them out of the model: sets created after one
whose creation failed (`lost`, `trusted`), sets created after an earlier finalize
(the open block of descriptors was closed, `trusted`), and data beyond 64 KiB
(`OutOfRange`). In the first case the loop over the blocks of descriptors may even
run off its list (`phase = "crashed"`).

### Handles and MkSqfs

The functions of `Handles` take a heap and return one. Everything that can fail
(malloc, open, ftruncate, deflateInit) is a numbered call, and a run fails call
`failAt`. `MkSqfs` calls them from `main`, and the actions of `InodeTree` from the
walk: a stack of frames, one per running call of `add_directory`, each with the
entries read so far in sorted order and one of three passes (scan, regular files,
others). `readdir` returns any entry not returned yet. mksqfs looks at no result
of the library: where it follows NULL the model ends in `crashed`, where it calls
`exit` in `exit`. The crash of `-c` without options comes while `parse_options` holds a
compressor, the variable of that name. The result of the serialization is ignored by
finalize: the tables are written, or the program crashes writing them, also behind one
that failed (`WritesTables`). Finalize is the serialization of `InodeTree`; the pipeline is
left to `BulkData` and `Image`.

### InodeTree

Inodes are their numbers, names are numbers in the order of `strcmp`. The
functions that create inodes and `libsqfs_directory_add_entry` build the tree;
`libsqfs_inode_serialize` of the root is a stack of frames, one per running call of
`libsqfs_directory_serialize`, and an action handles one entry or ends one
directory. `Scan` is the loop of `libsqfs_directory_encode` and `Kept` that of the
pruning, as functions of the number of entries handled; both see the entries of a
directory through `Seen`, with the types and places their inodes have by then. The encoded difference of inode numbers and the size in a short
directory inode keep their widths (`HalfDiff`, `ShortMax`). A record is known by
its position in the stream of bytes of its table; that the table makes it
readable at its place is `MetaTable`'s part. The properties are those of a
reader who has only the two tables. The application is assumed not to enter a
directory below itself, which the code does not notice. A second serialization
(`finalize` again, after a failed truncate) finds the root encoded and does
nothing, so one is modelled.

## 3. Runs

| Run | What it shows |
|---|---|
| `pipeline` | two workers and the application thread, up to four submissions: every interleaving yields the sequential image (`SameAsSequential`), every file is read back from its inode (`FilesReadBack`), and the invariants of the pipeline hold |
| `pipeline_faults` | the same with every failure, an abort and a spurious wakeup: what is on disk is still a prefix of the sequential image; the inductive invariants `IInv` and `DataInv` hold, blocks are contiguous, bytes are in memory when used and left alone meanwhile |
| `image` | the life of an image with failing table writes: complete, disjoint, without holes, failures reported |
| `image_live` | every thread ends and `libsqfs_image_close` returns, with every fault the model has, for one submission and the closing piece; the application may finalize once and then close |
| `metatable` | records are read back from their places; a table on disk stays intact; an index locates every byte; the inductive invariant `MetaInv` holds |
| `attributes` | owners and extended attributes are read back through the tables on disk; the index stays within the list of blocks |
| `mksqfs` | the image mirrors the source directory; inode numbers follow kind and name within a directory, whatever order `readdir` returns, except those of files with hard links elsewhere; nothing leaks and nothing is used after it was freed, whichever call fails; a reader reaches every entry of a directory's index through its block and distance |
| `inodetree` | a reader finds every directory on disk as it is in memory, by the rules of the format; link counts are those of the tree; the inductive invariant `TreeInv` holds |
| `filedata` | chunks cover the file and hold its bytes, or the image is broken |
| `image_fatal`, `image_race`, `idtable_full` | expected violations, see section 5 |

Bounds. A block has three units, pieces have one and two, so that a fragment
block can be filled exactly, be short by one and overflow by one. Four submitted
chunks and the closing piece are enough for two fragment blocks with a full
block between their pieces, for a piece that waits for its predecessor while a
third is compressed, and for a chunk that becomes writable while its predecessor
is being written; three threads let a third one interfere with the two that hand
a chunk over. `MaxChunks` bounds the submissions, `MaxSpurious` the spurious
wakeups, `MaxFinalize` the calls of finalize, `MaxRecords` and `MaxWrites` the
life of a table, `MaxAttrs` the attributes, `MaxSets` the sets of extended
attributes and `MaxLength` the length of a file.
A tree has four inodes and three entries over two names: enough for a header to
be split for each of its four reasons, for hard links across directories and for entries of
equal name.
Table blocks have three bytes and records one, two and five: within a block, up
to its end, across two boundaries. Two descriptors fill a block, so that three sets
need a second entry of the index; attributes lie within a block and across its end,
and references wrap at the third block. mksqfs is run on every directory of up to
three files of all kinds, with two file systems and a cache of two buckets, which
gives hard links, equal numbers on different devices and collisions. For the index it is
also run on directories of seven files, five behind a subdirectory's two: the listing of
the root begins inside the second block, its index has two entries in different blocks,
there are headers in between that pruning drops, and with a hard-linked file headers
with two entries behind them. Each of the
first eighteen calls that can fail fails in one of its runs. In `image_live` three
threads share one submission and the closing piece: the price of liveness with all
the faults, and enough for a worker that waits while another fails with its chunk. That
nobody waits for a chunk that was lost among more of them is the safety property
`NoChunkLost` of `pipeline`, and proved. With two calls of finalize an image is
finalized and then closed, closed at once, or finalized again after the padding failed.
Workers are interchangeable, and symmetry is
used in the runs without liveness.

Deadlock is checked in `mksqfs`, which marks its ends (`Stopped`). The other systems
end when the application is done.

Fairness. `FairSpec` has weak fairness of every thread's own steps and of the
application's steps inside `finalize` and `close`: the threads are scheduled by
the operating system, and blocking calls on files come back. Nothing is assumed
of what the application chooses to do, of spurious wakeups, of who is woken, or of
failures.

## 4. Proofs

TLAPS checks every theorem below for all values of the constants, under the named
assumptions of the modules: for any set of workers, any number, kinds and sizes of
chunks, any compression and any set of faults. TLC checks the same invariants on
the instances of section 3, most of the inductive ones too.

### The pipeline

The proofs form four layers, each inductive on top of the ones before.

1. `PipelineInvariant` (`IInv`, `BulkDataProofs`), with `TypeCorrect`,
   `AssertionsNeverFail`, `WrittenInOrder` and `ChunksHandedOutOnce`.
2. `PackingInvariant` (`PackInv`, `BulkDataProofs`), with
   `FragmentBlocksPacked`.
3. `ImageInvariant` (`ImageInv`, `BulkDataResultProofs`), with `DataInvariant`,
   `BlocksContiguous`, `BytesAlwaysPresent` and the action property
   `SourcesUndisturbed`.
4. `FileBlocksAdjacent` (`AdjacentInv`, `BulkDataResultProofs`).

From these follow, without further induction over steps, `NoChunkIsLost`,
`FinishedImageWritten`, `FilesAlwaysReadBack` and `PipelineImplementsSequential`,
all in `BulkDataResultProofs`.

`IInv`. None of the properties is inductive alone. That a queue holds no
chunk twice needs that a chunk enters a queue in the state of that stage and
leaves that state as it leaves the hands of the thread (`StageInv`). For the
write queue that is not enough, since both the thread that makes a chunk writable
and the thread that finishes its predecessor may queue it; there
`WriteoutInOrder` says that only chunk `finished + 1` can be in the queue or
being written, and so `try_writeout` and `mark_finished` exclude each other. For
the assign queue the same role is played by the list of pieces: a piece enters it
only when its predecessor has been assigned (`PieceInv`), either in its own
deduplication or in the assignment of the predecessor, never in both. That
`nextPiece` and `prevPiece` are inverse, that the closing piece is the last one,
and that chunks to come are untouched (`UnusedInv`) make the links safe to
follow. `FragmentInv` makes the fragment block of an assigned piece exist.
`LockInv` is mutual exclusion. The steps are grouped: `QuietStepInv` for those
that only move a thread, `MoveStep` for those that move a chunk from one place to
another, `FinishStep` for those that finish one, `EnqueueStep` for submissions;
lemmas on queues (`PushFrontFacts`, `PopFacts`, ...) come first.

`PackInv` is `ListInv`, `AssignOrder`, `LayoutInv` and `FlushInv`: pieces are
linked and assigned in the order of submission, a block holds neighbours of that
list one behind the other, and `flush_previous_block` marks exactly the pieces that
end a block. Only an assignment disturbs it; every other step is a frame argument.

`ImageInv` is `CachedInv`, `ContentInv`, `PlaceInv` and `EndInv`. The buffer of a
piece is freed by the chunk that flushes its block, and by no other, which needs
`FlushInv`: two chunks that flush the same block are the same. `ContentInv`
compares what a chunk carries with `Compressed`, computed anew from its sources:
this is where it matters that sources do not change while the lock is released.
`PlaceInv` speaks of the reservation by a writer and of the one left behind by a
failed write, after which nothing can be written. `EndInv` says who may leave the
pipeline.

Results. `NoChunkIsLost` takes the least unfinished chunk and asks which thread or
queue has it. `FilesAlwaysReadBack` is about sums: a reader adds up the sizes of
the blocks of an inode, the writer placed them by `size`, and `SumsArePlaces`
equates the two along `AdjacentInv`. The refinement maps the writing and the
finishing of a chunk to the step `Write` of `OrderedImage`, submissions to
`Submit`, everything else to stuttering, under the invariants above; the mapping
cuts the open fragment block to the pieces that are finished, and the proof shows
that pieces assigned ahead of time do not show through it.

### The image

In `Image` the threads of the pipeline run beside the calls of the application, and
the tail of finalize takes space from the same counter.

- `PipelineInImage`: the invariants of the pipeline hold within an image, whatever
  fails (`DataInImage`, all but the one on places, which `image_race` refutes); and
  `ReportInv`, from which `FailuresReported` follows.
- `FatalIsFinal`: the action property `FatalStaysFatal`, from `LifeInv`.
- `SpaceInvariant` (`SpaceInv`), with `SpaceNotSharedTwice`, `ImageFilled` and
  `FinalizedIsComplete`.

`ReportInv` says where a call of finalize stands when no message is set. `LifeInv`
ties the state of the image to where the application thread is: *finalized* only
after the last step of the tail, *fatal_error* only outside the pipeline or where the
tail has failed. `SpaceInv` has two cases. Until the data are complete
(`DataComplete`) finalize has written nothing and the places of the pipeline are its
own (`BeforeTail`, with `PlaceInv` of the layer before). From then on no thread
writes blocks any more, and the tail extends the image by one part at a time
(`TailInv`: the tables lie behind the data without a gap, `TablesInv`: which parts
have been written and what the superblock says of them). The change from the one case
to the other is the step in which the last thread leaves the pipeline; that all
chunks are finished then is `EndInv` of the pipeline, and the reason why the theorem
needs workers that do not fail.

Hypotheses. These are the only theorems that have any, and each excludes what section
5 shows to break the property: `WorkersHealthy` (no opening, reading, allocation or
writing fails in the pipeline; `image_fatal` and `image_race` have such a failure) for all but
`PipelineInImage` and `FailuresReported`; `"serialize" \notin Faults` for
`FinalizedIsComplete`; `"truncate" \notin Faults` for `FailuresReported`. Failing
seals and table writes, aborts by the application, repeated calls of finalize and
spurious wakeups remain.

### Metadata tables

`TableInvariant` (`MetaInv`), with `TableTypes`, `RecordsAlwaysReadBack`,
`OffsetsAlwaysAddUp`, `TableAlwaysOnDisk` and `IndexAlwaysLocates`.
`RecordsReadBack` speaks of bytes, and a reader goes from block to block: the
invariant `StreamInv` says of each byte in the table whose it is, and that the last
byte of the last record is the last one of the table, so that an append in several
rounds continues where it left off (`AppendInv`). `WriteoutInv` is the same for a
running write: blocks already written, the position it keeps. `IndexedInv` holds
what makes an index by division right: all blocks but the last are full.

### Files and data sources

`FileInvariant` (`FileInv`), with `ChunksAlwaysTile`, `ReaderAlwaysAgrees`,
`AcceptedAlwaysComplete` and `NeverOverruns`, for any block size, any length, any
compound and any change of a file while it is read. `ChunksInv` gives each chunk
by its number, so that tiling is arithmetic on `/` and `%`; `ReadInv` describes the
buffer after any number of pieces of a compound.

### The tree

`TreeInvariant` (`TreeInv`), with `LinksAlwaysCounted`, `TreeAlwaysReadBack`,
`ListingsFollowRules` and `IndexAlwaysUsable`: for any tree with any hard links, any
names, and any sizes of blocks, headers, runs and fields.

The inductive invariant is `TreeInv`, `LinkCounts`, and that links can be counted
(`LinksFinite`). Counts are cardinalities of sets of pairs (directory, position), and
an insertion moves the positions behind it: `InsertionFacts` gives the bijection
once, for the entries of an inode and for the subdirectories of a directory
(`OneMore`). `ParentInv` says that a directory is entered in its parent only, and that
no set of directories is closed under going to the parent; it is what `add_entry`
keeps because the application does not put a directory below itself.

Serialization is where the order matters. `StackInv` describes the running calls of
`libsqfs_directory_serialize`: each is at the entry the next one was called for, and
everything before that has been encoded. With `ParentInv`, no directory is on the
stack twice (`RunsOnce`), so none is encoded while a call for it is still running.
When a call ends, all entries have a type and, unless an append has failed, a record
(`RecordInv`). Then the listing written from them stays right: types and places are
set once, and the table only grows (`SeenKept`, `StillListed`, `StillRight`).
`ListingInv` says that each listing is one piece of the directory table, encoded from
what its directory sees; a listing cut off by a failed append is in the table, but
no inode leads to it (`EncodeFailKeeps`).

From `ListingInv` the three properties about readers follow without further
induction over steps. A reader selects by position, so that `InsideFacts` has to show
that exactly the items of the listing lie in the range its inode names; the loop
invariant of `Scan` (`Run`: the entries since the last header, with what
`need_new_dir_header` has allowed) gives headers, counts, differences and block
limits; that of the pruning (`KeptBy`) the distance of entries of the index.

### Owners and extended attributes

`IdTableInvariant` (`IdInv`) and `OwnersAreKept`: the owners of every inode are
found under its indices as long as the table is within the range and no allocation
fails. `OwnersKeptInRange` speaks of tables within the range only, and is not
inductive: `IdInv` says of tables of any length that the field of an inode is
congruent, modulo the range, to the index of an entry with its owner. The
invariant survives appends because entries are never changed (`MapResult`,
`MappedRefers`), and in a table within the range congruent indices are equal.
`OwnersAreKeptExtended` is the same for inodes that have extended attributes.

`XattrInvariant` (`XattrInv`), with `AttributesAreReadBack` and
`IndexStaysWithinBlocks`: for any attributes of any sizes, any number of sets of up to two of
them (`Collections`), any order of creating sets and inodes, failed creations, failed writes and repeated calls of finalize. The case
distinctions (`trusted`, `lost`, `OutOfRange`) are in the properties themselves,
where section 2 explains them.

- `TablesOK`: ends of blocks increase, no block is longer than `MetaSize`, and the
  open one is shorter (`TableOK`). `Continues` relates a table to a later one:
  finished blocks and bytes stay what they were, which is all that an append or a
  flush does to what is stored (`Appended`).
- `DescInv`: descriptors below the trusted number lie in full blocks, so that the
  number of a set divided by the descriptors per block is the number of the block a
  reader opens. A flush of a partly filled block ends this for later sets, and
  `trusted` records where.
- `SetsInv`: a trusted set has its descriptor at the place its number gives
  (`DescPlaced`) and its attributes, one behind the other, at the place the descriptor
  names (`DataPlaced`).
- `WrittenInv`: what is on disk speaks of inodes that exist.

Reading is by place: a reader looks for the block at an address and reads on in the
next when it ends. `BlocksFound` shows that no two blocks of an image share an
address, `ReadRange` that n bytes from position q of a table are what such a reader
gets, by the least number of bytes for which it fails, and `SetRead` puts index,
descriptor and data together. `IndexStaysWithinBlocks` compares the number of
entries of the index, computed from `nids` before the tables are flushed, with the
number of blocks there are (`EntriesWithin`).

### Handles of mksqfs

`HandlesInvariant` (`HandlesInv`) and `HandlesAlwaysBalanced`: whichever call of
mksqfs to the system fails, nothing is used after it was freed, and at any time what is
alive is what the handles of `main` lead to. `Holds(h, S)` says that exactly
the objects `S` of a heap are alive and that nothing bad has happened; every function of `Handles`
has one lemma that says what it makes of `S`, on success and for each of its failures,
and what it leaves alone (`Keeps`). `HandlesInv` gives the options, the image and the
destination of `main` disjoint parts of the heap that together are all of it
(`Parts`), and says which of them there are at which stage (`StageInv`); the one
exception is the crash in `parse_options`, where its compressor is all there is
(`CrashedInParse`). That the
image has a copy of the options, with a compressor of its own, is what keeps the
parts apart. The walk over the source does not touch the heap.

### The image is the source

`ProgramBuildsTree` (`MkSpec => Spec`): every step of mksqfs is a step of `InodeTree`
or leaves the tree alone, so the invariant of `InodeTree` holds in the program. It does
not say that `libsqfs_directory_add_entry` never refuses: `MayAdd` is a guard of the
action in both modules, and that the walk never waits for it is TLC's check for
deadlocks in the run `mksqfs`. `SourceIsMirrored` and `FilesNumberedInOrder` say what a
reader of the image finds, for every source, every order of `readdir` and every size of
the cache; behind an entry that could not be allocated (`oom`) they say nothing.

The inductive invariant is `MkInv`: that of the tree, `WalkInv` and `ItemsCounted`. The
state has no record of which inode was made for which file, so `WalkInv` says that there
are such `f` and `E`, the files entered, with `Mirrors(f, E)`:

- `NodesMade`: an inode has the kind and target of its file, and two files share one
  exactly if both are paths of the same regular file. For a file that is found in the
  cache, `f` of the new path is what `inode_cache_lookup` returned.
- `CacheMade`: the cache has exactly the regular files with an inode, in their buckets.
  Without it a second path could get a second inode, or the inode of another file.
- `EntriesMade`: the entries of the directories are those of `E`, with names that differ.
- `CallsMade`, and `WalkOK` for the stack: every running call of `add_directory` is for
  the directory its caller has at hand, has sorted what it has read, and has entered the
  regular files it has passed, or in the last pass all of them and the others it has
  passed. A file with an inode that is not entered is the one a call has at hand.
- `Returned`: a directory with an inode and no running call is complete. This is how the
  end of the walk comes to say that nothing was left out.
- `Numbered`: whatever precedes a file with an inode in its directory has been entered,
  and has the smaller number unless the file has another path.

When there is a root, the stack is empty, and by the least file that is missing every
file has its inode and its entry (`AllEntered`); by the least one without a record, all
are on disk (`AllOnDisk`). A reader finds a name in a directory (`NameRead`, from what
`InodeTreeProofs` says of listings), and so every path, again by the least
counterexample (`AllFound`): the recursion of `Found` goes to a smaller number in every
step. There is nothing else, since the items of the directory table are as many as the
entries of the encoded directories (`ItemsCounted`), and those are in bijection with the
files (`Positions`); the same bijection, restricted to the paths of a file, counts its
links.

### Assumptions and technique

`BulkData`: the application thread is not a worker, bounds are naturals, the block
size is positive, a submission has between one and block-size units, the compression
settings are Booleans. `MetaTable`: positive block size and record lengths, natural
bounds, compressed sizes within a block. `FileData`: positive block size, a natural
bound, well-formed sources. `IdTable`: positive range, natural bound.
`InodeTree`: positive sizes of blocks, headers, entries, records and runs, names that
are not empty. `Image`: natural sizes of superblock, options and parts, data behind
the options, a positive unit of padding. `XattrTable`: positive sizes, blocks that
hold a whole number of descriptors, attributes that are not empty. `MkSqfs`: a positive
size of the cache, a natural longest target, inodes of every kind with and without
attributes, and sources that are trees: files are numbered behind the directory they are
in, and names of a directory differ. Apart from those of `Image`, no theorem has
hypotheses of its own.

Facts about recursive functions (`Sums`, `SizeOfFirst`) and about least elements
are proved by taking a least counterexample, which exists because `<` on the
naturals is well-founded (`LeastNumber`, `LeastOfNumbers`, `SizeSums`, `ReadRange`):
the induction theorems that take a predicate are outside the prover. The same holds
for folds over sequences; where `XattrTable` joins the attributes of a set, there are
at most two of them (`Collections`), and the join is written out.

### Only model-checked

- Liveness (`EveryThreadEnds`, `CloseReturns`): fairness and ENABLED are outside the
  prover.
- That no thread and no program is stuck (deadlock in `mksqfs`), for the same reason.

## 5. Disagreements between the code and its documentation

Each is a run whose single property states the documented behaviour, and which
TLC refutes.

- `image_fatal`: an error in a worker while the application waits in `finalize`
  ends in state *finalized*, because `libsqfs_bulkdata_finish` always returns
  true; `libsqfs.h` says such an image "cannot be finalized anymore".
- `image_race`: in the same situation workers may still be writing when the tail
  of finalize reserves space without the lock, and areas overlap.
- `idtable_full`: the owner after the last index is mapped to the first one; the
  test for -1 compares a `uint16_t`.

Five more are in the model without a run of their own. `libsqfs.h` (lines 750 to 752)
says that it is legal to reuse data for multiple files, and that libsqfs "will make sure
the data is written to the image only once". Every regular inode submits its chunks anew
(`regular.c:186`), and the deduplication stage of pieces is a FIXME (`bulkdata.c:315`)
and that of blocks empty, so that the data are in the image once per file. `OrderedImage`
writes every submission, too: it states the contract of `bulkdata.h`, which is the order
on disk. `bulkdata.h` says that
after an abort threads "finish their current operation and then exit"; they carry
their chunk through further stages, since `process` looks at the queues before it
looks at `aborted` (`image_race` depends on it). `add_entry` that runs out of
memory leaves a directory with a parent in whose listing it is not, and the parent
with a link too many (`AddEntryFail`). The result of serializing
the root is dropped (`Serialize`), so that with the fault `serialize` an image is
finalized without its tree; and a failing truncate (`Finish`, fault `truncate`)
makes finalize return *building* without an error message, where `libsqfs.h`
promises *fatal_error* or *finalized*. The run `image` therefore leaves these two
faults out, and the failures of workers as well (`image_fatal` and `image_race`
show what those do): its faults are the sealing of the pipeline and the writes of
the tables. The theorems about `Image` say for each property which of the faults it
excludes. `image_live` has all the faults.

Further places where the model follows the code and a reader should know:

- Extended attributes: the three cases named under `XattrTable` above. A set
  whose serialization fails keeps its number (`xattrs.c:143`), so that the sets
  behind it are read from the wrong descriptor.
- The null compressor has no `compress_meta` (`compressor.c:90`), and
  `libsqfs_metatable_flush` calls it: `mksqfs -c null` ends in `FinalizeCrash`,
  although the compressor is offered "for debugging purposes".
- mksqfs ignores every result. It exits with 0 when the image failed, and follows
  NULL after an attribute of a domain the format does not have, such as
  `system.posix_acl_access` (`NullFollowed`).
- mksqfs keeps hard links of regular files only (`SourceMirrored` says so), and cuts
  the target of a symlink at 1023 bytes (`TargetOf`).
- The LZMA compressor returns 0, not -1, for errors other than a full buffer
  (`compressor_liblzma.c:65`), and `libsqfs_image_block_compress` would store that
  as a compressed block without bytes. `ImageBlocks` has the outcomes the interface
  describes, a size or -1, and not this one.

## 6. What is not modelled

- Compression itself, `pwrite`, `ftruncate`, `stat` and `pread` are external: their
  outcomes are constants and faults.
- Destinations other than a file, the setters of single options, `create_level` of
  the compressors, compressor options that differ from the default (no function of
  the library sets any), the getters of error strings and `describe`.
- The freeing of inodes, attributes, data and tables in `libsqfs_image_close`, which
  is one step of `Handles`.
- Times, modes and device numbers, which are copied into inodes; the field encoding
  of the superblock; the declarations of the on-disk format (`squashfs_fs.h`) and of
  the interface (`libsqfs.h`).
- A second serialization after a failed append: `encoded_type` is set by then, and
  the inode is taken for done. It takes a failed append, a failed truncate and an
  application that finalizes again.
- What follows undefined behaviour: the unchecked allocation in
  `libsqfs_image_block_compress`, and `listxattr` of mksqfs if attributes appear
  between its two calls.
- Tables of 4 GiB, whose offsets are 32 bits wide.

## 7. Plan

All modules of section 2 and all theorems of section 4 are done. Every safety
property of a passing run is stated by a theorem; liveness stays with TLC for the reason
given in section 4. What the code has and no module covers is in section 6.

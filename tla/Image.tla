-------------------------------- MODULE Image --------------------------------
(***************************************************************************)
(* The life of an image (image.c): the application sets the root, submits  *)
(* data, spawns threads, finalizes and closes.  libsqfs_image_finalize     *)
(* waits for the bulk data (module BulkData) and then lays out the tables, *)
(* the compressor options and the superblock.                              *)
(*                                                                         *)
(* The tail of finalize runs with no lock held, while pc[Main] is          *)
(* "finished".  The tables are a sequence of parts; each part reserves     *)
(* space in the image and writes to it.  libsqfs_image_reserve reads       *)
(* image->size and stores it back: two actions, since a worker may be      *)
(* running it at the same time under bulkdata->lock.                       *)
(***************************************************************************)
EXTENDS BulkDataInvariants

CONSTANTS
    SuperblockSize,     \* sizeof(struct squashfs_super_block)
    OptionSize,         \* stored size of the compressor options, 0 for none
    PartSize,           \* part of the tables -> its size
    Exportable,         \* options->exportable
    Xattrs,             \* xattr_table.nids != 0
    PadUnit,            \* 4096, or 1 for options->padding == false
    MaxFinalize         \* bound: calls of libsqfs_image_finalize

ASSUME HeaderFits == DataStart = SuperblockSize + OptionSize
ASSUME SizesAreNat == SuperblockSize \in Nat /\ OptionSize \in Nat /\ PadUnit \in Nat \ {0}

VARIABLES
    root,       \* image->root is set
    calls,      \* calls of finalize so far
    step,       \* what the tail of finalize does next
    loc,        \* the offset handed out for the part being written
    placed,     \* part -> its offset once it has been written, or -1
    areas,      \* what finalize has written: records [part, at, len]
    serialized, \* the inode tree is in the inode and directory tables
    super,      \* the superblock that has been written
    closing,    \* how far libsqfs_image_close is
    result      \* what the last call of finalize returned

tailVars == <<step, loc, placed, areas, serialized, super>>
callVars == <<root, calls, closing>>
allVars == <<vars, tailVars, callVars, result>>

\* The parts in the order in which finalize writes them: a table, or the index,
\* the descriptors or the header that follow it.
AllParts == <<"inode", "dir", "frag", "frag_index", "export", "export_index",
              "id", "id_index", "xattr", "xattr_desc", "xattr_header", "xattr_index">>

\* An image without fragments, export table or xattrs has no such parts.
Present(p) ==
    CASE p \in {"frag", "frag_index"}                    -> fragments # <<>>
      [] p \in {"export", "export_index"}                -> Exportable
      [] p \in {"xattr", "xattr_desc", "xattr_header", "xattr_index"} -> Xattrs
      [] OTHER                                           -> TRUE

Parts == {AllParts[i] : i \in DOMAIN AllParts}
ASSUME PartSizesAreNat == \A p \in Parts : PartSize[p] \in Nat
NoSuperblock == [used |-> -1, tables |-> [p \in Parts |-> -1], fragments |-> 0]

\* Values of step: 0 serialize, 1 .. Len(AllParts) the parts, then these; Failed
\* stands for success == false.
StepOptions == Len(AllParts) + 1
StepSuperblock == Len(AllParts) + 2
StepPad == Len(AllParts) + 3
Failed == -1

ImageInit ==
    /\ Init
    /\ root = FALSE /\ calls = 0 /\ closing = "no" /\ result = "none"
    /\ step = 0 /\ loc = -1
    /\ placed = [p \in Parts |-> -1]
    /\ areas = {}
    /\ serialized = FALSE
    /\ super = NoSuperblock

-----------------------------------------------------------------------------
(* Calls of the application.                                               *)

\* libsqfs_image_set_root.
SetRoot ==
    /\ pc[Main] = "app"
    /\ ~root /\ imgState = "building"
    /\ root' = TRUE
    /\ UNCHANGED <<vars, tailVars, calls, closing, result>>

\* mutant: the state of the image is not looked at
MayFinalize_Always == TRUE
MayFinalize == imgState = "building"

\* libsqfs_image_finalize up to the bulk data, called by the application or, with
\* close, by libsqfs_image_close.
FinalizeImage(close) ==
    /\ pc[Main] \in {"app", "returned"} /\ closing = "no"
    /\ calls < MaxFinalize
    /\ calls' = calls + 1
    /\ closing' = IF close THEN "finalizing" ELSE "no"
    /\ \/ /\ ~MayFinalize
          /\ pc' = [pc EXCEPT ![Main] = "returned"]
          /\ result' = imgState
          /\ UNCHANGED <<imageVars, step>>
       \/ /\ MayFinalize /\ ~root
          /\ FlagError(Main, "No root directory set", "abort_root")
          /\ step' = Failed
          /\ UNCHANGED result
       \/ /\ MayFinalize /\ root
          /\ pc' = [pc EXCEPT ![Main] = "seal"]
          /\ step' = 0
          /\ UNCHANGED <<imageVars, result>>
    /\ UNCHANGED <<bulkVars, cur, spurious, root, loc, placed, areas, serialized, super>>

\* The rest of libsqfs_image_close: the error message is dropped, the workers are
\* joined, and the image is freed.
ErrorClear ==
    /\ pc[Main] = "returned" /\ closing = "finalizing"
    /\ errorMsg' = ""
    /\ closing' = "joining"
    /\ UNCHANGED <<bulkVars, imgState, pc, cur, spurious, tailVars, root, calls, result>>

JoinAndFree ==
    /\ closing = "joining"
    /\ \A w \in Workers : pc[w] \in {"done", "unspawned"}
    /\ closing' = "freed"
    /\ UNCHANGED <<vars, tailVars, root, calls, result>>

-----------------------------------------------------------------------------
(* The tail of libsqfs_image_finalize.                                     *)

InTail(s) == pc[Main] = "finished" /\ step = s

\* libsqfs_inode_serialize of the root; its result is not looked at.
Serialize ==
    /\ InTail(0)
    /\ serialized' \in IF "serialize" \in Faults /\ ~serialized THEN BOOLEAN ELSE {TRUE}
    /\ step' = 1
    /\ UNCHANGED <<vars, loc, placed, areas, super, callVars, result>>

\* A part the image does not have; without fragments the fragment table still gets
\* the current end of the image as its location.
SkipPart(k) ==
    /\ InTail(k)
    /\ ~Present(AllParts[k])
    /\ placed' = IF AllParts[k] = "frag_index"
                 THEN [placed EXCEPT !["frag_index"] = size] ELSE placed
    /\ step' = k + 1
    /\ UNCHANGED <<vars, loc, areas, serialized, super, callVars, result>>

\* libsqfs_image_reserve without the lock: image->size is read, and stored.
ReadSize(k) ==
    /\ InTail(k)
    /\ Present(AllParts[k])
    /\ loc = -1
    /\ loc' = size
    /\ UNCHANGED <<vars, step, placed, areas, serialized, super, callVars, result>>

\* mutants: the space is not accounted for; one unit too many
StoreSize_Lost(k) == size' = size
StoreSize_Gap(k) == size' = loc + PartSize[AllParts[k]] + 1
StoreSize(k) == size' = loc + PartSize[AllParts[k]]

\* The space is handed out; the pwrites that follow succeed, or one of them fails.
WritePart(k) ==
    /\ InTail(k)
    /\ loc # -1
    /\ StoreSize(k)
    /\ loc' = -1
    /\ \/ /\ placed' = [placed EXCEPT ![AllParts[k]] = loc]
          /\ areas' = areas \cup {[part |-> AllParts[k], at |-> loc,
                                  len |-> PartSize[AllParts[k]]]}
          /\ step' = k + 1
       \/ /\ "table" \in Faults
          /\ step' = Failed
          /\ UNCHANGED <<placed, areas>>
    /\ UNCHANGED <<listVars, fragVars, imageVars, finished, state, workq, cached, fragments,
                   dst, disk, mayAdd, aborted, pc, cur, spurious, serialized, super,
                   callVars, result>>

\* libsqfs_image_write_compressor_options: the place was reserved by image_create.
WriteOptions ==
    /\ InTail(StepOptions)
    /\ \/ /\ areas' = IF OptionSize = 0 THEN areas
                      ELSE areas \cup {[part |-> "options", at |-> SuperblockSize, len |-> OptionSize]}
          /\ step' = StepSuperblock
       \/ /\ "table" \in Faults /\ OptionSize # 0
          /\ step' = Failed
          /\ UNCHANGED areas
    /\ UNCHANGED <<vars, loc, placed, serialized, super, callVars, result>>

\* libsqfs_write_superblock.
Superblock_Stale ==   \* mutant: the offsets are those of an earlier state
    [used |-> size, tables |-> NoSuperblock.tables, fragments |-> Len(fragments)]
Superblock == [used |-> size, tables |-> placed, fragments |-> Len(fragments)]

WriteSuperblock ==
    /\ InTail(StepSuperblock)
    /\ \/ /\ super' = Superblock
          /\ areas' = areas \cup {[part |-> "superblock", at |-> 0, len |-> SuperblockSize]}
          /\ step' = StepPad
       \/ /\ "table" \in Faults
          /\ step' = Failed
          /\ UNCHANGED <<super, areas>>
    /\ UNCHANGED <<vars, loc, placed, serialized, callVars, result>>

\* The image is padded if need be, and is final.  If padding fails, finalize
\* returns false, which is libsqfs_image_building, and flags nothing.
Finish ==
    /\ InTail(StepPad)
    /\ \/ /\ imgState' = "finalized"
          /\ result' = "finalized"
       \/ /\ size % PadUnit # 0 /\ "truncate" \in Faults
          /\ result' = "building"
          /\ UNCHANGED imgState
    /\ pc' = [pc EXCEPT ![Main] = "returned"]
    /\ UNCHANGED <<bulkVars, errorMsg, cur, spurious, tailVars, callVars>>

\* success == false at the end of finalize.
FinalizeFailed_Silent ==    \* mutant: nothing is flagged
    /\ InTail(Failed)
    /\ pc' = [pc EXCEPT ![Main] = "returned"]
    /\ result' = imgState
    /\ UNCHANGED <<bulkVars, imageVars, cur, spurious, tailVars, callVars>>
FinalizeFailed ==
    /\ InTail(Failed)
    /\ FlagError(Main, "Cannot finalize image", "abort_finalize")
    /\ UNCHANGED <<bulkVars, cur, spurious, tailVars, callVars, result>>

TailStep ==
    \/ Serialize
    \/ \E k \in DOMAIN AllParts : SkipPart(k) \/ ReadSize(k) \/ WritePart(k)
    \/ WriteOptions \/ WriteSuperblock \/ Finish \/ FinalizeFailed

-----------------------------------------------------------------------------
\* A step of the pipeline; finalize returns when the abort that ends it is over.
Pipeline ==
    /\ PipelineStep
    /\ result' = IF pc[Main] # "returned" /\ pc'[Main] = "returned" THEN imgState ELSE result
    /\ UNCHANGED <<tailVars, callVars>>

ImageNext ==
    \/ Pipeline
    \/ SetRoot \/ (\E close \in BOOLEAN : FinalizeImage(close))
    \/ TailStep
    \/ ErrorClear \/ JoinAndFree

ImageSpec == ImageInit /\ [][ImageNext]_allVars

\* As in BulkData; the application thread also runs through finalize and close.
ImageFairness ==
    /\ WF_allVars(SealStep /\ Pipeline)
    /\ \A t \in Threads : WF_allVars(ThreadStep(t) /\ Pipeline)
    /\ WF_allVars(TailStep \/ ErrorClear \/ JoinAndFree)
FairImageSpec == ImageSpec /\ ImageFairness

-----------------------------------------------------------------------------
(* Properties.                                                             *)

\* A finalized image is complete: all bulk data, the inode tree, every table and the
\* superblock have been written, and the superblock describes what was written
\* (libsqfs.h: "Image was finalized, i.e. fully written to destination").
FinalizedMeansComplete ==
    imgState = "finalized" =>
        /\ finished = count /\ ~mayAdd
        /\ serialized
        /\ \A p \in Parts : Present(p) => placed[p] # -1 /\ super.tables[p] = placed[p]
        /\ super.used = size /\ super.fragments = Len(fragments)

\* No part of the image is written over another one: the areas handed out by
\* libsqfs_image_reserve ("reserve space in image") to finalize and to the pipeline
\* do not overlap, and none reaches beyond image->size.
BlockAreas == {[at |-> disk[i].offset, len |-> disk[i].size] : i \in DOMAIN disk}
Overlap(a, b) == a.at < b.at + b.len /\ b.at < a.at + a.len
AreasDisjoint ==
    /\ \A a, b \in areas : a # b => ~Overlap(a, b)
    /\ \A a \in areas, b \in BlockAreas : ~Overlap(a, b)
    /\ \A a \in areas \cup BlockAreas : a.at + a.len <= size

\* The image has no holes: every byte of a finalized image has been written.
NoHoles ==
    imgState = "finalized" =>
        \A x \in 0 .. size - 1 :
            \E a \in areas \cup BlockAreas : a.at <= x /\ x < a.at + a.len

\* A fatal error is final (libsqfs.h: "image cannot be finalized anymore").
FatalStaysFatal ==
    [][imgState = "fatal_error" => imgState' = "fatal_error"]_allVars

\* An image that could not be finalized says why: until the application closes it,
\* a failed call of finalize leaves an error message.
FailureIsReported ==
    pc[Main] = "returned" /\ closing \in {"no", "finalizing"} /\ result # "finalized"
        => imgState = "fatal_error" /\ errorMsg # ""

\* libsqfs_image_close returns, whatever fails in whatever thread.
CloseReturns == closing = "finalizing" ~> closing = "freed"
-----------------------------------------------------------------------------
(* The inductive invariants behind the safety properties.                  *)

\* Whatever fails: an image with a fatal error has its message until close drops it,
\* an abort follows the error, what reserve reads is a size, and, unless padding failed,
\* finalize returns either success or with the error flagged.
ReportInv ==
    /\ imgState = "fatal_error" /\ closing \in {"no", "finalizing"} => errorMsg # ""
    /\ pc[Main] \in DOMAIN AfterAbort => imgState = "fatal_error"
    /\ loc \in Nat \cup {-1}
    /\ pc[Main] = "returned" /\ result # "finalized" /\ "truncate" \notin Faults
          => imgState = "fatal_error"

\* The failures of a thread at work.  The tail of finalize does not notice them and
\* races with the threads that are still running: what follows is about an image
\* without them.
WorkerFaults == {"open", "read", "write", "alloc"}
WorkersHealthy == Faults \cap WorkerFaults = {}

\* All chunks are finished, and there will be no others.
DataComplete ==
    /\ finished = count /\ ~mayAdd
    /\ pc[Main] \notin {"app", "abort_app", "seal_enqueue"}

\* Only the application thread flags errors, and never from within the pipeline: the
\* tail of finalize is entered in an image that is being built, and with a fatal error
\* only where it has failed already.
LifeInv ==
    /\ step \in {Failed} \cup 0 .. StepPad
    /\ \A t \in Threads : pc[t] \notin {"abort_op", "abort_exit", "failed"}
    /\ imgState = "fatal_error" =>
          \/ pc[Main] \in {"app", "abort_app", "abort_root", "abort_finalize", "returned"}
          \/ pc[Main] = "finished" /\ step = Failed
    /\ imgState = "finalized" => pc[Main] = "returned" /\ step = StepPad
    /\ pc[Main] = "abort_root" => step = Failed
    /\ step = Failed /\ imgState = "building" => pc[Main] = "finished"

\* What finalize writes besides the tables.
OptionArea == [part |-> "options", at |-> SuperblockSize, len |-> OptionSize]
SuperblockArea == [part |-> "superblock", at |-> 0, len |-> SuperblockSize]
TableArea == [part : Parts, at : Nat, len : Nat]

\* Before the data are complete finalize has written nothing, and the pipeline has the
\* image for itself.
BeforeTail == areas = {} /\ loc = -1 /\ step \in {Failed, 0} /\ PlaceInv

\* Afterwards the tables follow the data, one behind the other, and fill the image as
\* long as no write fails.
TailInv ==
    /\ areas \subseteq TableArea \cup {OptionArea, SuperblockArea}
    /\ \A a \in areas \cap TableArea : DiskEnd <= a.at /\ a.at + a.len <= size
    /\ \A a, b \in areas \cap TableArea : a # b => ~Overlap(a, b)
    /\ loc # -1 => /\ loc = size /\ pc[Main] = "finished"
                   /\ step \in DOMAIN AllParts /\ Present(AllParts[step])
    /\ step # Failed =>
          \A x \in DiskEnd .. size - 1 : \E a \in areas : a.at <= x /\ x < a.at + a.len
    /\ step > StepOptions /\ OptionSize # 0 => OptionArea \in areas
    /\ step > StepSuperblock => SuperblockArea \in areas

\* The tables written so far have their places, and the superblock has them all.
TablesInv ==
    /\ \A i \in DOMAIN AllParts : i < step /\ Present(AllParts[i]) => placed[AllParts[i]] # -1
    /\ step > 0 /\ "serialize" \notin Faults => serialized
    /\ step = StepPad => super = Superblock

SpaceInv ==
    /\ DiskShape /\ DiskEnd <= size /\ DOMAIN placed = Parts
    /\ IF DataComplete THEN TailInv /\ TablesInv ELSE BeforeTail
=============================================================================

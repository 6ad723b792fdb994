------------------------------ MODULE BulkData ------------------------------
(***************************************************************************)
(* The bulk-data pipeline of libsqfs (bulkdata.c), run by the worker       *)
(* threads of the pool and by the application thread inside                *)
(* libsqfs_image_finalize.                                                 *)
(*                                                                         *)
(* File contents are cut into chunks.  A chunk is a full block, a fragment *)
(* piece, or the closing piece that libsqfs_bulkdata_seal appends.  Chunks *)
(* travel through five work queues (read, dedup, assign, compress, write)  *)
(* in any order, but are written out in the order of submission.           *)
(*                                                                         *)
(* Threads.  One action is one maximal section of code between two points  *)
(* where bulkdata->lock is taken or released, except that each iteration   *)
(* of the loop of libsqfs_bulkdata_process is an action of its own.  A     *)
(* thread holds the lock exactly while its pc is "loop"; an action that    *)
(* takes the lock is guarded by Unlocked.  Reading a chunk, compressing it *)
(* and writing it happen with the lock released: the action that pops the  *)
(* chunk ends with pc "read", "compress" or "write", and the action that   *)
(* completes the work takes the lock again.                                *)
(*                                                                         *)
(* Chunk i is the i-th chunk submitted, so that prev and next of the chunk *)
(* list are i - 1 and i + 1.  Number 0 stands for a NULL pointer.          *)
(***************************************************************************)
EXTENDS Integers, Sequences, ImageBlocks

CONSTANTS
    Workers,            \* threads the application may spawn
    Main,               \* the application thread
    MaxChunks,          \* bound: chunks submitted, the closing piece included
    Submissions,        \* the chunks the application may submit: records
                        \* [kind |-> "block" or "piece", size, data]
    BlockSize,          \* image->options->block_size
    DataStart,          \* image->size once image_create has reserved the headers
    CompressBlocks,     \* bd->compress_blocks
    CompressFragments,  \* bd->compress_fragments
    Faults,             \* which of "open", "read", "write", "alloc", "seal" may fail
    MaxSpurious         \* bound: spurious wakeups of pthread_cond_wait

Threads == Workers \cup {Main}
Ids == 1 .. MaxChunks
Ids0 == 0 .. MaxChunks

ASSUME MainNotWorker == Main \notin Workers
ASSUME BoundsAreNat == MaxChunks \in Nat /\ MaxSpurious \in Nat /\ DataStart \in Nat
ASSUME BlockSizePositive == BlockSize \in Nat \ {0}
ASSUME SubmissionsFit ==
    \A s \in Submissions :
        /\ s.kind \in {"block", "piece"}
        /\ s.size \in 1 .. BlockSize
ASSUME CompressionFlags == CompressBlocks \in BOOLEAN /\ CompressFragments \in BOOLEAN

\* libsqfs_chunk_state_t
ChunkNone == 0
ChunkRead == 1
ChunkDeduplicated == 2
ChunkAssigned == 3
ChunkWritable == 4
ChunkFinished == 5
ChunkStates == ChunkNone .. ChunkFinished

Stages == {"read", "dedup", "assign", "compress", "write"}

ClosingDesc == [kind |-> "closing", size |-> 0, data |-> ""]
UnusedDesc == [kind |-> "unused", size |-> 0, data |-> ""]

VARIABLES
    desc,       \* chunk -> what was submitted
    count,      \* chunks.count
    finished,   \* chunks.finished
    state,      \* chunk -> processing state
    workq,      \* the five work queues
    cached,     \* chunk -> whether cached_data holds its bytes
    prevPiece, nextPiece,   \* links of the list of fragment pieces
    lastPiece,  \* fragment_pieces.last
    flush,      \* chunk -> flush_previous_block
    fragOf,     \* chunk -> index of its fragment_block
    offsetOf,   \* chunk -> its offset within that block
    fragments,  \* fragment_blocks, in order of creation
    dst,        \* full block -> its libsqfs_image_block
    size,       \* image->size
    disk,       \* the successful pwrites of bulk data, in order
    mayAdd,     \* may_add_chunks
    aborted,    \* aborted
    imgState,   \* image->state
    errorMsg,   \* image->error_msg
    pc, cur,    \* where each thread is, and the chunk it holds
    spurious    \* spurious wakeups so far

listVars == <<desc, count, prevPiece, nextPiece, lastPiece>>
fragVars == <<flush, fragOf, offsetOf>>
imageVars == <<imgState, errorMsg>>
bulkVars == <<desc, count, finished, state, workq, cached, prevPiece, nextPiece,
              lastPiece, flush, fragOf, offsetOf, fragments, dst, size, disk,
              mayAdd, aborted>>
vars == <<bulkVars, imageVars, pc, cur, spurious>>

-----------------------------------------------------------------------------
(* The lock and the condition variable.                                    *)

\* bulkdata->lock is free.
Unlocked == \A t \in Threads : pc[t] # "loop"

\* pthread_cond_broadcast, and pthread_cond_signal with no or one waiter woken;
\* a woken thread must take the lock again before it looks at the queues.
Broadcast(p) == [t \in Threads |-> IF p[t] = "wait" THEN "enter" ELSE p[t]]
Signalled(p) ==
    IF \E t \in Threads : p[t] = "wait"
    THEN {[p EXCEPT ![t] = "enter"] : t \in {u \in Threads : p[u] = "wait"}}
    ELSE {p}

-----------------------------------------------------------------------------
(* Work queues.                                                            *)

PushBack(q, s, c) == [q EXCEPT ![s] = Append(@, c)]
PushFront(q, s, c) == [q EXCEPT ![s] = <<c>> \o @]
Pop(q, s) == [q EXCEPT ![s] = Tail(@)]
EmptyQueues == [s \in Stages |-> <<>>]

\* The chunks in a queue, and whether it holds none twice.
Elems(q) == {q[i] : i \in DOMAIN q}
Distinct(q) == \A i, j \in DOMAIN q : q[i] = q[j] => i = j

\* The order in which process_single_locked looks at the queues.
Serves(s) ==
    /\ workq[s] # <<>>
    /\ CASE s = "write"    -> TRUE
         [] s = "compress" -> workq["write"] = <<>>
         [] s = "assign"   -> workq["write"] = <<>> /\ workq["compress"] = <<>>
         [] s = "dedup"    -> \A r \in {"write", "compress", "assign"} : workq[r] = <<>>
         [] s = "read"     -> \A r \in Stages \ {"read"} : workq[r] = <<>>

\* mutant: the predecessor is not looked at
TryWriteout_Unordered(q, c) == PushFront(q, "write", c)

\* libsqfs_chunk_try_writeout, for a chunk that has just become writable.
TryWriteout(q, c) ==
    IF c = 1 \/ state[c - 1] = ChunkFinished THEN PushFront(q, "write", c) ELSE q

\* mutant: the next chunk is queued whatever its state
MarkFinished_AnyNext(q, c, t) ==
    /\ state' = [state EXCEPT ![c] = ChunkFinished]
    /\ workq' = IF c < count THEN PushFront(q, "write", c + 1) ELSE q
    /\ finished' = finished + 1
    /\ pc' = LET p == [pc EXCEPT ![t] = "loop"]
             IN IF finished + 1 = count THEN Broadcast(p) ELSE p

\* libsqfs_chunk_mark_finished: thread t finishes chunk c.
MarkFinished(q, c, t) ==
    /\ state' = [state EXCEPT ![c] = ChunkFinished]
    /\ workq' = IF c < count /\ state[c + 1] = ChunkWritable
                THEN PushFront(q, "write", c + 1) ELSE q
    /\ finished' = finished + 1
    /\ pc' = LET p == [pc EXCEPT ![t] = "loop"]
             IN IF finished + 1 = count THEN Broadcast(p) ELSE p

-----------------------------------------------------------------------------
(* Blocks of the image.                                                    *)

IsBlock(c) == desc[c].kind = "block"
IsClosing(c) == desc[c].kind = "closing"

\* The fragment block that piece c flushes.
FlushedBlock(c) == fragOf[prevPiece[c]]

\* The chunks whose bytes go into the image block that chunk c writes.
SourcesOf(c) == IF IsBlock(c) THEN <<c>> ELSE fragments[FlushedBlock(c)].pieces
BytesOf(cs) == [i \in DOMAIN cs |-> desc[cs[i]].data]

\* Does writing chunk c write anything?
WritesBlock(c) == IsBlock(c) \/ flush[c]
ImageBlockOf(c) == IF IsBlock(c) THEN dst[c] ELSE fragments[FlushedBlock(c)].dst

SetImageBlock(c, b) ==
    IF IsBlock(c)
    THEN dst' = [dst EXCEPT ![c] = b] /\ UNCHANGED fragments
    ELSE fragments' = [fragments EXCEPT ![FlushedBlock(c)].dst = b] /\ UNCHANGED dst

-----------------------------------------------------------------------------
Init ==
    /\ desc = [c \in Ids |-> UnusedDesc]
    /\ count = 0 /\ finished = 0
    /\ state = [c \in Ids |-> ChunkNone]
    /\ workq = EmptyQueues
    /\ cached = [c \in Ids |-> FALSE]
    /\ prevPiece = [c \in Ids |-> 0]
    /\ nextPiece = [c \in Ids |-> 0]
    /\ lastPiece = 0
    /\ flush = [c \in Ids |-> FALSE]
    /\ fragOf = [c \in Ids |-> 0]
    /\ offsetOf = [c \in Ids |-> -1]
    /\ fragments = <<>>
    /\ dst = [c \in Ids |-> NoImageBlock]
    /\ size = DataStart
    /\ disk = <<>>
    /\ mayAdd = TRUE
    /\ aborted = FALSE
    /\ imgState = "building"
    /\ errorMsg = ""
    /\ pc = [t \in Threads |-> IF t = Main THEN "app" ELSE "unspawned"]
    /\ cur = [t \in Threads |-> 0]
    /\ spurious = 0

-----------------------------------------------------------------------------
(* Errors: flag_error and out_of_memory set the state under state_mutex,   *)
(* then call libsqfs_bulkdata_abort, which takes bulkdata->lock.           *)

\* t records a fatal error and goes on to the abort that ends at pc next.
FlagError(t, msg, next) ==
    /\ imgState' = "fatal_error"
    /\ errorMsg' = IF errorMsg = "" THEN msg ELSE errorMsg
    /\ pc' = [pc EXCEPT ![t] = next]

\* What follows the abort: the failed operation returns into the loop of process,
\* the worker without a compressor ends, libsqfs_image_abort returns to the
\* application, libsqfs_image_finalize goes on without a root, or returns.
AfterAbort == [abort_op |-> "failed", abort_exit |-> "done", abort_app |-> "app",
               abort_root |-> "finished", abort_finalize |-> "returned"]

\* process returns: a worker ends, the application thread is back in finalize.
Leave(t) == IF t = Main THEN "finished" ELSE "done"

\* libsqfs_bulkdata_abort.
Abort(t) ==
    /\ pc[t] \in DOMAIN AfterAbort
    /\ Unlocked
    /\ mayAdd' = FALSE
    /\ aborted' = TRUE
    /\ workq' = EmptyQueues
    /\ pc' = Broadcast([pc EXCEPT ![t] = AfterAbort[pc[t]]])
    /\ UNCHANGED <<listVars, fragVars, imageVars, finished, state, cached, fragments,
                   dst, size, disk, cur, spurious>>

\* A failed operation takes the lock and returns false to process, which finds
\* the pipeline aborted and leaves its loop.
ReturnFailed(t) ==
    /\ pc[t] = "failed"
    /\ Unlocked
    /\ pc' = [pc EXCEPT ![t] = Leave(t)]
    /\ cur' = [cur EXCEPT ![t] = 0]
    /\ UNCHANGED <<bulkVars, imageVars, spurious>>

-----------------------------------------------------------------------------
(* The application: submissions, threads, abort, finalize.                 *)

\* libsqfs_bulkdata_enqueue_chunk_locked (and enqueue_piece_locked for pieces).
EnqueueChunk(d) ==
    LET c == count + 1 IN
    /\ desc' = [desc EXCEPT ![c] = d]
    /\ count' = c
    /\ workq' = PushBack(workq, "read", c)
    /\ IF d.kind = "block"
       THEN UNCHANGED <<prevPiece, nextPiece, lastPiece>>
       ELSE /\ prevPiece' = [prevPiece EXCEPT ![c] = lastPiece]
            /\ nextPiece' = IF lastPiece = 0 THEN nextPiece
                            ELSE [nextPiece EXCEPT ![lastPiece] = c]
            /\ lastPiece' = c

\* libsqfs_bulkdata_sumbit and libsqfs_bulkdata_submit_fragment; the last chunk
\* number is kept for the closing piece.
Submit(d) ==
    /\ pc[Main] = "app"
    /\ Unlocked
    /\ count + 1 < MaxChunks
    /\ EnqueueChunk(d)
    /\ pc' \in Signalled(pc)
    /\ UNCHANGED <<fragVars, imageVars, finished, state, cached, fragments, dst, size,
                   disk, mayAdd, aborted, cur, spurious>>

\* libsqfs_threadpool_spawn_worker.
Spawn(w) ==
    /\ pc[Main] = "app"
    /\ pc[w] = "unspawned"
    /\ pc' = [pc EXCEPT ![w] = "start"]
    /\ UNCHANGED <<bulkVars, imageVars, cur, spurious>>

\* libsqfs_image_abort, called at most once by the application.
UserAbort ==
    /\ pc[Main] = "app"
    /\ ~aborted
    /\ FlagError(Main, "User abort", "abort_app")
    /\ UNCHANGED <<bulkVars, cur, spurious>>

\* libsqfs_image_finalize, up to the bulk data.
Finalize ==
    /\ pc[Main] = "app"
    /\ pc' = [pc EXCEPT ![Main] = IF imgState = "building" THEN "seal" ELSE "returned"]
    /\ UNCHANGED <<bulkVars, imageVars, cur, spurious>>

\* libsqfs_bulkdata_seal, first critical section.  (The second call of seal, made
\* by libsqfs_bulkdata_finish, finds may_add_chunks false and changes nothing.)
SealCheck ==
    /\ pc[Main] = "seal"
    /\ Unlocked
    /\ pc' = [pc EXCEPT ![Main] = IF mayAdd THEN "seal_enqueue" ELSE "enter"]
    /\ UNCHANGED <<bulkVars, imageVars, cur, spurious>>

\* Second critical section: may_add_chunks is not looked at again, and the
\* condition is signalled twice.
SealEnqueue ==
    /\ pc[Main] = "seal_enqueue"
    /\ Unlocked
    /\ count < MaxChunks
    /\ EnqueueChunk(ClosingDesc)
    /\ mayAdd' = FALSE
    /\ \E p \in Signalled([pc EXCEPT ![Main] = "enter"]) : pc' \in Signalled(p)
    /\ UNCHANGED <<fragVars, imageVars, finished, state, cached, fragments, dst, size,
                   disk, aborted, cur, spurious>>

\* The closing piece cannot be allocated: seal and then finalize fail.
SealFail ==
    /\ pc[Main] = "seal_enqueue"
    /\ "seal" \in Faults
    /\ FlagError(Main, "Cannot finalize image", "abort_finalize")
    /\ UNCHANGED <<bulkVars, cur, spurious>>

-----------------------------------------------------------------------------
(* A thread entering the pipeline, and its loop.                           *)

\* libsqfs_image_thread_function opens a compressor.
OpenCompressor(t) ==
    /\ pc[t] = "start"
    /\ pc' = [pc EXCEPT ![t] = "enter"]
    /\ UNCHANGED <<bulkVars, imageVars, cur, spurious>>

OpenFail(t) ==
    /\ pc[t] = "start"
    /\ "open" \in Faults
    /\ FlagError(t, "Memory allocation failed", "abort_exit")
    /\ UNCHANGED <<bulkVars, cur, spurious>>

\* Take the lock: on entry of process, or back from pthread_cond_wait.
Enter(t) ==
    /\ pc[t] = "enter"
    /\ Unlocked
    /\ pc' = [pc EXCEPT ![t] = "loop"]
    /\ UNCHANGED <<bulkVars, imageVars, cur, spurious>>

SpuriousWake(t) ==
    /\ pc[t] = "wait"
    /\ spurious < MaxSpurious
    /\ spurious' = spurious + 1
    /\ pc' = [pc EXCEPT ![t] = "enter"]
    /\ UNCHANGED <<bulkVars, imageVars, cur>>

\* When process stops looking for work.
MayExit_Unfinished == ~mayAdd \/ aborted   \* mutant: chunks in flight are ignored
MayExit == (finished = count /\ ~mayAdd) \/ aborted

Exit(t) ==
    /\ pc[t] = "loop"
    /\ \A s \in Stages : workq[s] = <<>>
    /\ MayExit
    /\ pc' = [pc EXCEPT ![t] = Leave(t)]
    /\ UNCHANGED <<bulkVars, imageVars, cur, spurious>>

Wait(t) ==
    /\ pc[t] = "loop"
    /\ \A s \in Stages : workq[s] = <<>>
    /\ ~MayExit
    /\ pc' = [pc EXCEPT ![t] = "wait"]
    /\ UNCHANGED <<bulkVars, imageVars, cur, spurious>>

-----------------------------------------------------------------------------
(* Reading: libsqfs_chunk_do_read, libsqfs_closing_piece_read.             *)

StartRead(t) ==
    /\ pc[t] = "loop"
    /\ Serves("read")
    /\ LET c == Head(workq["read"]) IN
       IF IsClosing(c)
       THEN /\ state' = [state EXCEPT ![c] = ChunkRead]
            /\ workq' = PushFront(Pop(workq, "read"), "dedup", c)
            /\ UNCHANGED <<pc, cur>>
       ELSE /\ workq' = Pop(workq, "read")
            /\ pc' = [pc EXCEPT ![t] = "read"]
            /\ cur' = [cur EXCEPT ![t] = c]
            /\ UNCHANGED state
    /\ UNCHANGED <<listVars, fragVars, imageVars, finished, cached, fragments, dst, size,
                   disk, mayAdd, aborted, spurious>>

ReadDone(t) ==
    /\ pc[t] = "read"
    /\ Unlocked
    /\ cached' = [cached EXCEPT ![cur[t]] = TRUE]
    /\ state' = [state EXCEPT ![cur[t]] = ChunkRead]
    /\ workq' = PushFront(workq, "dedup", cur[t])
    /\ pc' = [pc EXCEPT ![t] = "loop"]
    /\ cur' = [cur EXCEPT ![t] = 0]
    /\ UNCHANGED <<listVars, fragVars, imageVars, finished, fragments, dst, size, disk,
                   mayAdd, aborted, spurious>>

\* malloc or pread fails; the chunk stays in state none, in no queue.
ReadFail(t) ==
    /\ pc[t] = "read"
    /\ "read" \in Faults
    /\ FlagError(t, "Read failed", "abort_op")
    /\ UNCHANGED <<bulkVars, cur, spurious>>

-----------------------------------------------------------------------------
(* Deduplication: the three deduplicate methods.                           *)

\* A piece may be assigned once its predecessor has been.
PredecessorAssigned(c) == prevPiece[c] = 0 \/ state[prevPiece[c]] >= ChunkAssigned

Deduplicate(t) ==
    /\ pc[t] = "loop"
    /\ Serves("dedup")
    /\ LET c == Head(workq["dedup"]) IN
       /\ state' = [state EXCEPT ![c] = ChunkDeduplicated]
       /\ workq' = IF IsBlock(c) \/ PredecessorAssigned(c)
                   THEN PushFront(Pop(workq, "dedup"), "assign", c)
                   ELSE Pop(workq, "dedup")
    /\ UNCHANGED <<listVars, fragVars, imageVars, finished, cached, fragments, dst, size,
                   disk, mayAdd, aborted, pc, cur, spurious>>

-----------------------------------------------------------------------------
(* Assignment: libsqfs_chunk_do_assign, libsqfs_fragment_piece_assign and  *)
(* libsqfs_closing_piece_assign.                                           *)

\* mutants: the piece itself is not counted; a block filled exactly overflows
Overflows_Late(c) ==
    prevPiece[c] # 0 /\ fragments[fragOf[prevPiece[c]]].size > BlockSize
Overflows_Exact(c) ==
    prevPiece[c] # 0 /\ fragments[fragOf[prevPiece[c]]].size + desc[c].size >= BlockSize

\* Does piece c overflow the block of its predecessor?
Overflows(c) ==
    /\ prevPiece[c] # 0
    /\ fragments[fragOf[prevPiece[c]]].size + desc[c].size > BlockSize

\* mutant: after an overflow the piece still joins the block it flushes
NeedsFragmentBlock_FirstOnly(c) == desc[c].kind = "piece" /\ prevPiece[c] = 0

\* Does assigning c create a fragment block?
NeedsFragmentBlock(c) == desc[c].kind = "piece" /\ (prevPiece[c] = 0 \/ Overflows(c))

\* mutant: every piece flushes the block of its predecessor
MustFlush_Always(c) == prevPiece[c] # 0

\* flush_previous_block.
MustFlush(c) == IF IsClosing(c) THEN prevPiece[c] # 0 ELSE Overflows(c)

\* libsqfs_fragment_block_create.
FragmentBlockCreate(fs) == Append(fs, [size |-> 0, pieces |-> <<>>, dst |-> NoImageBlock])

\* libsqfs_fragment_block_add_piece: c becomes the last piece of block b.
AddPiece(fs, b, c) ==
    [fs EXCEPT ![b].size = @ + desc[c].size, ![b].pieces = Append(@, c)]

\* A piece gets its place; a closing piece gets none.
PlacePiece(c) ==
    IF IsClosing(c)
    THEN UNCHANGED <<fragments, fragOf, offsetOf>>
    ELSE LET fs == IF NeedsFragmentBlock(c) THEN FragmentBlockCreate(fragments) ELSE fragments
             b == IF NeedsFragmentBlock(c) THEN Len(fs) ELSE fragOf[prevPiece[c]]
         IN /\ fragments' = AddPiece(fs, b, c)
            /\ fragOf' = [fragOf EXCEPT ![c] = b]
            /\ offsetOf' = [offsetOf EXCEPT ![c] = fs[b].size]

\* mutants: no look at the state; the next piece is forgotten
AssignSuccessor_AnyState(q, c) ==
    IF nextPiece[c] # 0 THEN PushFront(q, "assign", nextPiece[c]) ELSE q
AssignSuccessor_Forgotten(q, c) == q

\* The queue after an assignment: c goes on to be compressed or written, and the
\* next piece follows it if it has been waiting for this.
AssignSuccessor(q, c) ==
    IF nextPiece[c] # 0 /\ state[nextPiece[c]] = ChunkDeduplicated
    THEN PushFront(q, "assign", nextPiece[c]) ELSE q

AssignBlock(t) ==
    /\ pc[t] = "loop"
    /\ Serves("assign")
    /\ LET c == Head(workq["assign"]) IN
       /\ IsBlock(c)
       /\ state' = [state EXCEPT ![c] = ChunkAssigned]
       /\ workq' = PushFront(Pop(workq, "assign"), "compress", c)
    /\ UNCHANGED <<listVars, fragVars, imageVars, finished, cached, fragments, dst, size,
                   disk, mayAdd, aborted, pc, cur, spurious>>

AssignPiece(t) ==
    /\ pc[t] = "loop"
    /\ Serves("assign")
    /\ LET c == Head(workq["assign"])
           q == Pop(workq, "assign")
       IN /\ ~IsBlock(c)
          /\ PlacePiece(c)
          /\ flush' = [flush EXCEPT ![c] = MustFlush(c)]
          /\ state' = [state EXCEPT ![c] = IF MustFlush(c) THEN ChunkAssigned ELSE ChunkWritable]
          /\ workq' = AssignSuccessor(IF MustFlush(c) THEN PushFront(q, "compress", c)
                                      ELSE TryWriteout(q, c), c)
    /\ UNCHANGED <<listVars, imageVars, finished, cached, dst, size, disk, mayAdd, aborted,
                   pc, cur, spurious>>

\* The fragment block cannot be allocated; flush_previous_block stays set.
AssignFail(t) ==
    /\ pc[t] = "loop"
    /\ Serves("assign")
    /\ "alloc" \in Faults
    /\ LET c == Head(workq["assign"]) IN
       /\ NeedsFragmentBlock(c)
       /\ flush' = [flush EXCEPT ![c] = Overflows(c)]
       /\ workq' = Pop(workq, "assign")
    /\ FlagError(t, "Memory allocation failed", "abort_op")
    /\ UNCHANGED <<listVars, fragOf, offsetOf, finished, state, cached, fragments, dst,
                   size, disk, mayAdd, aborted, cur, spurious>>

-----------------------------------------------------------------------------
(* Compression: libsqfs_full_block_compress, libsqfs_fragment_piece_compress. *)

StartCompress(t) ==
    /\ pc[t] = "loop"
    /\ Serves("compress")
    /\ workq' = Pop(workq, "compress")
    /\ pc' = [pc EXCEPT ![t] = "compress"]
    /\ cur' = [cur EXCEPT ![t] = Head(workq["compress"])]
    /\ UNCHANGED <<listVars, fragVars, imageVars, finished, state, cached, fragments, dst,
                   size, disk, mayAdd, aborted, spurious>>

\* The source bytes are freed as they are consumed.  (The test after the allocation of
\* the output is of its size, which is not 0, so that the error path is never taken.)
CompressDone(t) ==
    /\ pc[t] = "compress"
    /\ Unlocked
    /\ LET c == cur[t]
           cs == SourcesOf(c)
           n == IF IsBlock(c) THEN desc[c].size ELSE fragments[FlushedBlock(c)].size
       IN /\ SetImageBlock(c, ImageBlock(BytesOf(cs), n,
                              IF IsBlock(c) THEN CompressBlocks ELSE CompressFragments))
          /\ cached' = [i \in Ids |-> cached[i] /\ \A k \in DOMAIN cs : cs[k] # i]
          /\ state' = [state EXCEPT ![c] = ChunkWritable]
          /\ workq' = TryWriteout(workq, c)
    /\ pc' = [pc EXCEPT ![t] = "loop"]
    /\ cur' = [cur EXCEPT ![t] = 0]
    /\ UNCHANGED <<listVars, fragVars, imageVars, finished, size, disk, mayAdd, aborted,
                   spurious>>

-----------------------------------------------------------------------------
(* Write-out: libsqfs_full_block_write, libsqfs_fragment_piece_write and   *)
(* libsqfs_image_block_write.                                              *)

\* A piece that flushes nothing is finished at once.
FinishPiece(t) ==
    /\ pc[t] = "loop"
    /\ Serves("write")
    /\ ~WritesBlock(Head(workq["write"]))
    /\ MarkFinished(Pop(workq, "write"), Head(workq["write"]), t)
    /\ UNCHANGED <<listVars, fragVars, imageVars, cached, fragments, dst, size, disk,
                   mayAdd, aborted, cur, spurious>>

\* mutant: the space is handed out and not accounted for
Reserve_Lost(n) == size' = size

\* libsqfs_image_reserve: the space handed out starts at size.
Reserve(n) == size' = size + n

\* The space is reserved while the lock is still held.
StartWrite(t) ==
    /\ pc[t] = "loop"
    /\ Serves("write")
    /\ LET c == Head(workq["write"]) IN
       /\ WritesBlock(c)
       /\ SetImageBlock(c, [ImageBlockOf(c) EXCEPT !.offset = size])
       /\ Reserve(ImageBlockOf(c).size)
       /\ cur' = [cur EXCEPT ![t] = c]
    /\ workq' = Pop(workq, "write")
    /\ pc' = [pc EXCEPT ![t] = "write"]
    /\ UNCHANGED <<listVars, fragVars, imageVars, finished, state, cached, disk, mayAdd,
                   aborted, spurious>>

\* The pwrite succeeds; the buffer is freed.
WriteDone(t) ==
    /\ pc[t] = "write"
    /\ Unlocked
    /\ disk' = Append(disk, ImageBlockOf(cur[t]))
    /\ SetImageBlock(cur[t], [ImageBlockOf(cur[t]) EXCEPT !.content = <<>>])
    /\ MarkFinished(workq, cur[t], t)
    /\ cur' = [cur EXCEPT ![t] = 0]
    /\ UNCHANGED <<listVars, fragVars, imageVars, cached, size, mayAdd, aborted, spurious>>

WriteFail(t) ==
    /\ pc[t] = "write"
    /\ "write" \in Faults
    /\ FlagError(t, "Write to image file failed", "abort_op")
    /\ UNCHANGED <<bulkVars, cur, spurious>>

-----------------------------------------------------------------------------
(* What finalize takes from the pipeline for a file of nblocks full blocks *)
(* from chunk first on, and the tail piece behind them (0: none).          *)

\* libsqfs_regular_inode_serialize.
RegularInode(first, nblocks, tail) ==
    [start_block |-> IF nblocks = 0 THEN 0 ELSE dst[first].offset,
     fragment |-> IF tail = 0 THEN -1 ELSE fragOf[tail] - 1,
     offset |-> IF tail = 0 THEN 0 ELSE offsetOf[tail],
     block_info |-> [k \in 1 .. nblocks |-> [size |-> dst[first + k - 1].size,
                                             compressed |-> dst[first + k - 1].compressed]]]

\* libsqfs_bulkdata_write_fragment_table; indexes count from 0.
FragmentTable ==
    [b \in 0 .. Len(fragments) - 1 |->
        [start_block |-> fragments[b + 1].dst.offset, size |-> fragments[b + 1].dst.size,
         compressed |-> fragments[b + 1].dst.compressed]]

-----------------------------------------------------------------------------
\* One iteration of the loop of libsqfs_bulkdata_process.
LoopStep(t) ==
    \/ FinishPiece(t) \/ StartWrite(t) \/ StartCompress(t)
    \/ AssignBlock(t) \/ AssignPiece(t) \/ AssignFail(t)
    \/ Deduplicate(t) \/ StartRead(t)
    \/ Exit(t) \/ Wait(t)

\* What a thread in the pipeline does without being asked.
ThreadStep(t) ==
    \/ OpenCompressor(t) \/ OpenFail(t) \/ Enter(t) \/ LoopStep(t)
    \/ ReadDone(t) \/ ReadFail(t) \/ CompressDone(t) \/ WriteDone(t) \/ WriteFail(t)
    \/ Abort(t) \/ ReturnFailed(t)

SealStep == SealCheck \/ SealEnqueue \/ SealFail

\* Everything but the application's call of libsqfs_image_finalize.
PipelineStep ==
    \/ \E d \in Submissions : Submit(d)
    \/ \E w \in Workers : Spawn(w)
    \/ UserAbort \/ SealStep
    \/ \E t \in Threads : ThreadStep(t) \/ SpuriousWake(t)

Next == PipelineStep \/ Finalize

Spec == Init /\ [][Next]_vars

\* Threads that can run do run; the application need not do anything.
Fairness == WF_vars(SealStep) /\ \A t \in Threads : WF_vars(ThreadStep(t))
FairSpec == Spec /\ Fairness

-----------------------------------------------------------------------------
(* Properties.                                                             *)

DataItems == {d.data : d \in Submissions \cup {ClosingDesc}}
ImageBlockType ==
    [offset : Int, size : Nat, compressed : BOOLEAN, content : Seq(DataItems)]
FragmentType == [size : Nat, pieces : Seq(Ids), dst : ImageBlockType]

PcValues ==
    {"unspawned", "start", "enter", "loop", "wait", "read", "compress", "write",
     "abort_op", "abort_exit", "abort_app", "abort_root", "abort_finalize", "failed",
     "done", "app", "seal", "seal_enqueue", "finished", "returned"}

\* The threads at work on a chunk with the lock released.
Holding == {"read", "compress", "write"}

\* Types of the variables of the pipeline.
TypeOK ==
    /\ desc \in [Ids -> Submissions \cup {ClosingDesc, UnusedDesc}]
    /\ count \in Ids0 /\ finished \in Ids0
    /\ state \in [Ids -> ChunkStates]
    /\ workq \in [Stages -> Seq(Ids)]
    /\ cached \in [Ids -> BOOLEAN]
    /\ prevPiece \in [Ids -> Ids0] /\ nextPiece \in [Ids -> Ids0] /\ lastPiece \in Ids0
    /\ flush \in [Ids -> BOOLEAN]
    /\ fragOf \in [Ids -> Nat] /\ offsetOf \in [Ids -> Int]
    /\ fragments \in Seq(FragmentType)
    /\ dst \in [Ids -> ImageBlockType]
    /\ size \in Nat /\ disk \in Seq(ImageBlockType)
    /\ mayAdd \in BOOLEAN /\ aborted \in BOOLEAN
    /\ imgState \in {"building", "fatal_error", "finalized"}
    /\ pc \in [Threads -> PcValues]
    /\ cur \in [Threads -> Ids0]
    /\ spurious \in 0 .. MaxSpurious

\* A chunk is handed out once: it is at one place of one work queue, or held by
\* one thread, never both (the queues are intrusive lists: a chunk linked twice
\* would corrupt them, and two threads at one chunk would race on its buffers).
HandedOutOnce ==
    /\ \A s \in Stages : Distinct(workq[s])
    /\ \A s, r \in Stages : s # r => Elems(workq[s]) \cap Elems(workq[r]) = {}
    /\ \A t \in Threads : pc[t] \in Holding =>
          /\ \A s \in Stages : cur[t] \notin Elems(workq[s])
          /\ \A u \in Threads \ {t} : pc[u] \in Holding => cur[u] # cur[t]

\* The state in which a stage expects its chunks.
ExpectedState == [read |-> ChunkNone, dedup |-> ChunkRead, assign |-> ChunkDeduplicated,
                  compress |-> ChunkAssigned, write |-> ChunkWritable]

\* The assertions at the head of every method of a chunk hold whenever the chunk
\* is taken from its queue, and until the method returns.
AssertionsHold ==
    /\ \A s \in Stages : \A c \in Elems(workq[s]) : state[c] = ExpectedState[s]
    /\ \A t \in Threads : pc[t] \in Holding => state[cur[t]] = ExpectedState[pc[t]]
    /\ \A c \in Elems(workq["compress"]) : WritesBlock(c)

\* Chunks are finished in the order of submission, one writer at a time: the
\* finished chunks are the first ones, and only the next one is being written or
\* waits in the write queue.
WriteoutInOrder ==
    /\ \A c \in Ids : state[c] = ChunkFinished <=> c <= finished
    /\ \A c \in Elems(workq["write"]) : c = finished + 1
    /\ \A t \in Threads : pc[t] = "write" => cur[t] = finished + 1

\* The image holds the blocks without gap or overlap, and what is reserved beyond
\* them is the block being written, or the one whose write failed.
DiskContiguous ==
    LET end == IF disk = <<>> THEN DataStart
               ELSE disk[Len(disk)].offset + disk[Len(disk)].size
    IN /\ \A i \in 1 .. Len(disk) - 1 : disk[i + 1].offset = disk[i].offset + disk[i].size
       /\ (\A t \in Threads : pc[t] # "write") /\ ~aborted /\ imgState = "building"
             => size = end
       /\ \A t \in Threads : pc[t] = "write" =>
             ImageBlockOf(cur[t]).offset = end /\ size = end + ImageBlockOf(cur[t]).size

\* A fragment block is filled by its pieces in their order, without gap, and is
\* never larger than a block.
FragmentsPacked ==
    \A b \in DOMAIN fragments :
        LET ps == fragments[b].pieces IN
        /\ fragments[b].size <= BlockSize
        /\ ps # <<>>
        /\ offsetOf[ps[1]] = 0
        /\ \A i \in 1 .. Len(ps) - 1 :
              /\ nextPiece[ps[i]] = ps[i + 1]
              /\ offsetOf[ps[i + 1]] = offsetOf[ps[i]] + desc[ps[i]].size
        /\ fragments[b].size = offsetOf[ps[Len(ps)]] + desc[ps[Len(ps)]].size
        /\ \A i \in DOMAIN ps : fragOf[ps[i]] = b

\* Bytes are in memory when they are compressed and when they are written: they
\* have been read, are not freed yet, and no block is flushed twice.
BytesPresent ==
    /\ \A t \in Threads : pc[t] = "compress" =>
          \A i \in DOMAIN SourcesOf(cur[t]) : cached[SourcesOf(cur[t])[i]]
    /\ \A t \in Threads : pc[t] = "write" => ImageBlockOf(cur[t]).content # <<>>
    /\ \A c, d \in Ids : c # d /\ flush[c] /\ flush[d] => FlushedBlock(c) # FlushedBlock(d)

\* What legitimately keeps a chunk out of the queues: its predecessor.
WaitsForPredecessor(c) ==
    \/ state[c] = ChunkDeduplicated /\ ~IsBlock(c) /\ ~PredecessorAssigned(c)
    \/ state[c] = ChunkWritable /\ c > 1 /\ state[c - 1] # ChunkFinished

\* No chunk is lost: until something fails, an unfinished chunk is in a queue, or
\* held by a thread, or waits for a predecessor that will put it into a queue.
NoChunkLost ==
    imgState = "building" =>
        \A c \in 1 .. count :
            \/ state[c] = ChunkFinished
            \/ \E s \in Stages : c \in Elems(workq[s])
            \/ \E t \in Threads : pc[t] \in Holding /\ cur[t] = c
            \/ WaitsForPredecessor(c)

\* When libsqfs_bulkdata_finish returns to an image without error, every chunk is
\* on disk and no thread will touch the image any more (the tables that follow
\* are placed without taking the lock).
FinishedMeansWritten ==
    pc[Main] = "finished" /\ imgState = "building" =>
        /\ finished = count /\ ~mayAdd
        /\ \A s \in Stages : workq[s] = <<>>
        /\ \A t \in Threads : pc[t] \notin Holding
        /\ \A c \in 1 .. count : IsBlock(c) => dst[c].offset >= DataStart
        /\ \A b \in DOMAIN fragments : fragments[b].dst.offset >= DataStart

\* What libsqfs_regular_inode_create submits: full blocks, and the tail behind them.
IsFile(first, nblocks, tail) ==
    /\ \A c \in first .. first + nblocks - 1 : c <= count /\ IsBlock(c)
    /\ tail # 0 => tail <= count /\ desc[tail].kind = "piece" /\ tail = first + nblocks
    /\ nblocks > 0 \/ tail # 0

\* The sum of the first k numbers of a sequence, as a function of k.
Sums(f) == LET sum[k \in 0 .. Len(f)] == IF k = 0 THEN 0 ELSE sum[k - 1] + f[k] IN sum

\* The content of the block on disk at a place; the reader knows its size and whether
\* it is compressed.
Hits(at, info) ==
    {i \in DOMAIN disk : /\ disk[i].offset = at /\ disk[i].size = info.size
                         /\ disk[i].compressed = info.compressed}
Content(at, info) ==
    IF Hits(at, info) = {} THEN <<>> ELSE disk[CHOOSE i \in Hits(at, info) : TRUE].content

\* Block k of an inode lies behind the blocks before it, from start_block on by the
\* sizes in the inode.
BlockSizes(r) == [j \in DOMAIN r.block_info |-> r.block_info[j].size]
PlaceOfBlock(r, k) == r.start_block + Sums(BlockSizes(r))[k - 1]
BlockReadBack(r, k, c) ==
    /\ PlaceOfBlock(r, k) = dst[c].offset
    /\ Content(PlaceOfBlock(r, k), r.block_info[k]) = <<desc[c].data>>

\* The tail lies at its offset in the block the fragment table has for its index.
TailContent(r) == Content(FragmentTable[r.fragment].start_block, FragmentTable[r.fragment])
PieceSizes(ps) == [j \in DOMAIN ps |-> desc[ps[j]].size]
TailReadBack(r, tail) ==
    \E i \in DOMAIN TailContent(r) :
        /\ fragments[r.fragment + 1].pieces[i] = tail
        /\ TailContent(r)[i] = desc[tail].data
        /\ r.offset = Sums(PieceSizes(fragments[r.fragment + 1].pieces))[i - 1]

\* Whoever reads a file finds its bytes: each block behind the blocks before it,
\* although every block was placed by whichever thread wrote it; and the tail in its
\* fragment block.  That the block at the place is the file's own tells blocks of
\* equal content apart.
FilesReadBack ==
    pc[Main] = "finished" /\ imgState = "building" =>
        \A first \in 1 .. count, n \in 0 .. count : \A tail \in {0, first + n} :
            IsFile(first, n, tail) =>
                /\ \A k \in 1 .. n :
                      BlockReadBack(RegularInode(first, n, tail), k, first + k - 1)
                /\ tail # 0 => TailReadBack(RegularInode(first, n, tail), tail)

\* While a thread compresses a fragment block with the lock released, no other
\* thread changes the pieces of that block or frees or overwrites their bytes.
NoRaceOnSources ==
    [][\A t \in Threads : pc[t] = "compress" /\ pc'[t] = "compress" =>
          /\ SourcesOf(cur[t])' = SourcesOf(cur[t])
          /\ \A i \in DOMAIN SourcesOf(cur[t]) :
                cached'[SourcesOf(cur[t])[i]] = cached[SourcesOf(cur[t])[i]]
          /\ ImageBlockOf(cur[t])' = ImageBlockOf(cur[t])]_vars

\* Once the application finalizes or closes the image, every thread ends: no
\* worker sleeps through the last wakeup, and none waits for a chunk that
\* nobody will finish.
EveryThreadEnds ==
    (pc[Main] # "app") /\ (pc[Main] # "abort_app")
        ~> \A t \in Threads : pc[t] \in {"done", "unspawned", "finished", "returned"}

-----------------------------------------------------------------------------
(* The inductive invariant behind TypeOK, HandedOutOnce, AssertionsHold    *)
(* and WriteoutInOrder.                                                    *)

\* One thread holds the lock.
LockInv == \A t, u \in Threads : pc[t] = "loop" /\ pc[u] = "loop" => t = u

\* Chunks not yet submitted are untouched, and nobody knows them.
UnusedInv ==
    /\ finished <= count
    /\ \A c \in Ids : c <= count => desc[c].kind # "unused"
    /\ \A c \in Ids : c > count => /\ desc[c] = UnusedDesc
                                  /\ state[c] = ChunkNone
                                  /\ prevPiece[c] = 0
                                  /\ \A s \in Stages : c \notin Elems(workq[s])
    /\ \A t \in Threads : pc[t] \in Holding => cur[t] \in 1 .. count

\* A chunk in a queue or in the hands of a thread has the state of that stage; a
\* queue does not hold a chunk twice, and what a thread holds is not in the queue
\* it came from and not held by a second thread at the same stage.
StageInv ==
    /\ AssertionsHold
    /\ \A t \in Threads : pc[t] = "compress" => WritesBlock(cur[t])
    /\ \A t \in Threads : pc[t] = "write" => WritesBlock(cur[t])
    /\ \A s \in Stages : Distinct(workq[s])
    /\ \A t \in Threads : pc[t] \in Holding => cur[t] \notin Elems(workq[pc[t]])
    /\ \A t, u \in Threads : pc[t] \in Holding /\ pc[u] = pc[t] /\ cur[u] = cur[t] => t = u

\* The list of fragment pieces: links agree, only the closing piece has no
\* successor to come, and a piece reaches assignment after its predecessor.
PieceInv ==
    /\ lastPiece # 0 => desc[lastPiece].kind \in {"piece", "closing"}
    /\ mayAdd \/ pc[Main] \in {"app", "abort_app", "seal_enqueue"} =>
          \A c \in Ids : ~IsClosing(c)
    /\ \A c \in Ids : prevPiece[c] # 0 => desc[prevPiece[c]].kind = "piece"
    /\ \A c \in Ids : desc[c].kind = "block" => prevPiece[c] = 0
    /\ \A c \in Ids : nextPiece[c] # 0 => prevPiece[nextPiece[c]] = c
    /\ \A c \in Elems(workq["assign"]) : PredecessorAssigned(c)

\* An assigned piece has a fragment block; a chunk that flushes one has an
\* assigned predecessor in it.
FragmentInv ==
    /\ \A c \in Ids : desc[c].kind = "piece" /\ state[c] >= ChunkAssigned =>
          fragOf[c] \in DOMAIN fragments
    /\ \A c \in Ids : flush[c] => prevPiece[c] # 0 /\ PredecessorAssigned(c)

IInv ==
    /\ TypeOK /\ LockInv /\ UnusedInv /\ StageInv /\ WriteoutInOrder
    /\ PieceInv /\ FragmentInv
=============================================================================

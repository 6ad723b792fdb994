----------------------------- MODULE ImageProofs -----------------------------
(***************************************************************************)
(* Proofs about Image.  The steps of the pipeline are those of BulkData,   *)
(* whose invariants are shown to survive in the image, whatever fails;     *)
(* then that a failed call of finalize says why; and, for an image whose   *)
(* threads do not fail at work, how its space is used and what a finalized *)
(* image holds.                                                            *)
(***************************************************************************)
EXTENDS Image, BulkDataResultProofs

-----------------------------------------------------------------------------
(* The pipeline within the image.                                          *)

\* The application thread moves within finalize or close.
MainMove(v) ==
    /\ v \in {"returned", "abort_root", "seal", "abort_finalize"}
    /\ pc[Main] \in {"app", "returned", "finished"}
    /\ pc' = [pc EXCEPT ![Main] = v]
    /\ UNCHANGED <<bulkVars, cur, spurious>>
    /\ imgState' \in {"building", "fatal_error", "finalized"}
    /\ imgState' = "building" => imgState = "building"
    /\ v \in Failing => imgState' # "building"

\* Finalize accounts for the space of a part.
SizeMove ==
    /\ UNCHANGED <<listVars, fragVars, imageVars, finished, state, workq, cached, fragments,
                   dst, disk, mayAdd, aborted, pc, cur, spurious>>
    /\ size' \in Nat

LEMMA MainMoves ==
    ASSUME IInv, ErrorClear \/ Finish \/ FinalizeFailed \/ \E close \in BOOLEAN : FinalizeImage(close)
    PROVE  \E v : MainMove(v)
<1> USE FailingValues DEF imageVars
<1>1. /\ imgState \in {"building", "fatal_error", "finalized"}
      /\ pc \in [Threads -> PcValues] /\ Main \in Threads
  BY DEF IInv, TypeOK, Threads
<1>2. CASE ErrorClear
  <2>1. pc = [pc EXCEPT ![Main] = "returned"]
    BY <1>1, <1>2 DEF ErrorClear
  <2>2. MainMove("returned")
    BY <1>1, <1>2, <2>1 DEF ErrorClear, MainMove
  <2> QED BY <2>2
<1>3. CASE Finish
  <2>1. MainMove("returned")
    BY <1>1, <1>3 DEF Finish, MainMove, InTail
  <2> QED BY <2>1
<1>4. CASE FinalizeFailed
  <2>1. MainMove("abort_finalize")
    BY <1>1, <1>4 DEF FinalizeFailed, FlagError, MainMove, InTail
  <2> QED BY <2>1
<1>5. ASSUME NEW close \in BOOLEAN, FinalizeImage(close) PROVE \E v : MainMove(v)
  <2>1. \/ pc' = [pc EXCEPT ![Main] = "returned"] /\ UNCHANGED imageVars
        \/ FlagError(Main, "No root directory set", "abort_root")
        \/ pc' = [pc EXCEPT ![Main] = "seal"] /\ UNCHANGED imageVars
    BY <1>5, Zenon DEF FinalizeImage
  <2>2. UNCHANGED <<bulkVars, cur, spurious>> /\ pc[Main] \in {"app", "returned"}
    BY <1>5 DEF FinalizeImage
  <2>3. MainMove("returned") \/ MainMove("abort_root") \/ MainMove("seal")
    BY <1>1, <2>1, <2>2 DEF FlagError, MainMove
  <2> QED BY <2>3
<1> QED BY <1>2, <1>3, <1>4, <1>5

\* The names of the parts.
LEMMA PartFacts ==
    /\ Len(AllParts) = 12 /\ DOMAIN AllParts = 1 .. 12
    /\ \A k \in 1 .. 12 : AllParts[k] \in Parts
    /\ "frag_index" \in Parts /\ "options" \notin Parts /\ "superblock" \notin Parts
<1>1. Len(AllParts) = 12 /\ DOMAIN AllParts = 1 .. 12
  BY DEF AllParts
<1>2. \A k \in 1 .. 12 : AllParts[k] \in Parts
  BY <1>1 DEF Parts
<1>3. AllParts[4] = "frag_index"
  BY DEF AllParts
<1>4. \A k \in 1 .. 12 : AllParts[k] # "options" /\ AllParts[k] # "superblock"
  BY DEF AllParts
<1> QED BY <1>1, <1>2, <1>3, <1>4 DEF Parts

\* Every step of an image is one of the pipeline, or leaves its variables alone, or is
\* one of these.
LEMMA StepKinds ==
    ASSUME IInv, loc \in Nat \cup {-1}, [ImageNext]_allVars
    PROVE  [Next]_vars \/ SizeMove \/ \E v : MainMove(v)
<1>1. CASE Pipeline
  BY <1>1 DEF Pipeline, Next
<1>2. CASE SetRoot \/ JoinAndFree \/ Serialize \/ WriteOptions \/ WriteSuperblock \/ UNCHANGED allVars
  BY <1>2 DEF SetRoot, JoinAndFree, Serialize, WriteOptions, WriteSuperblock, allVars
<1>3. ASSUME NEW k \in DOMAIN AllParts, SkipPart(k) \/ ReadSize(k) \/ WritePart(k)
      PROVE  [Next]_vars \/ SizeMove
  <2>1. CASE SkipPart(k) \/ ReadSize(k)
    BY <2>1 DEF SkipPart, ReadSize
  <2>2. CASE WritePart(k)
    <3>1. loc \in Nat /\ PartSize[AllParts[k]] \in Nat
      BY <2>2, PartFacts, PartSizesAreNat DEF WritePart
    <3> QED BY <2>2, <3>1 DEF WritePart, SizeMove, StoreSize
  <2> QED BY <1>3, <2>1, <2>2
<1> QED BY <1>1, <1>2, <1>3, MainMoves DEF ImageNext, TailStep

\* What these steps leave alone is all that the blocks and the layout depend on.
LEMMA PipelineFrame ==
    ASSUME IInv, PackInv, CachedInv, ContentInv,
           UNCHANGED <<listVars, fragVars, state, workq, cached, fragments, dst, disk>>
    PROVE  PackInv' /\ CachedInv' /\ ContentInv' /\ KeepsBlocks(0)
<1>1. LayoutQuiet
  BY StillQuiet
<1>2. PackInv' /\ CachedInv'
  BY <1>1, QuietLayout, QuietCached
<1>3. KeepsBlocks(0)
  BY <1>1, QuietKeeps
<1>4. DiskGrows
  BY DEF DiskGrows
<1>5. \A d \in Ids : d \in Ids \ {0}
  BY BoundsAreNat DEF Ids
<1>6. ContentInv'
  BY <1>3, <1>4, <1>5, ContentKept DEF ContentInv
<1> QED BY <1>2, <1>3, <1>6

LEMMA MainMoveInv ==
    ASSUME IInv, EndInv, NEW v, MainMove(v)
    PROVE  IInv' /\ EndInv'
<1>1. Main \in Threads /\ spurious \in 0 .. MaxSpurious
  BY DEF IInv, TypeOK, Threads
<1>2. QuietMove(Main, v)
  BY <1>1 DEF MainMove, QuietMove, PcValues, Holding, BeforeClosing
<1>3. IInv'
  BY <1>1, <1>2, PcStep
<1>4. v # "finished" /\ UNCHANGED bulkVars /\ pc' = [pc EXCEPT ![Main] = v]
  BY DEF MainMove
<1>5. EndInv'
  BY <1>1, <1>4, EndMove DEF MainMove
<1> QED BY <1>3, <1>5

LEMMA SizeMoveInv ==
    ASSUME IInv, EndInv, SizeMove
    PROVE  IInv' /\ EndInv'
<1> USE DEF SizeMove, listVars, fragVars, imageVars
<1>1. TypeOK' /\ LockInv'
  BY DEF IInv, TypeOK, LockInv
<1>2. AssertionsHold'
  BY DEF IInv, StageInv, AssertionsHold, WritesBlock, IsBlock
<1>3. UnusedInv' /\ WriteoutInOrder'
  BY DEF IInv, UnusedInv, WriteoutInOrder
<1>4. StageInv'
  BY <1>2 DEF IInv, StageInv, WritesBlock, IsBlock
<1>5. PieceInv' /\ FragmentInv'
  BY DEF IInv, PieceInv, FragmentInv, PredecessorAssigned, IsClosing
<1>6. EndInv'
  BY EndFrame
<1> QED BY <1>1, <1>3, <1>4, <1>5, <1>6 DEF IInv

\* The invariants of the pipeline that do not depend on who reserves space.
DataInImage == IInv /\ PackInv /\ CachedInv /\ ContentInv /\ EndInv

LEMMA NextDataInImage ==
    ASSUME DataInImage, loc \in Nat \cup {-1}, [ImageNext]_allVars
    PROVE  DataInImage'
<1>1. IInv /\ PackInv /\ CachedInv /\ ContentInv /\ EndInv
  BY DEF DataInImage
<1>2. CASE [Next]_vars
  BY <1>1, <1>2, NextInv, NextPack, NextCached, NextContent, NextEnd DEF DataInImage
<1>3. CASE SizeMove
  <2>1. UNCHANGED <<listVars, fragVars, state, workq, cached, fragments, dst, disk>>
    BY <1>3 DEF SizeMove
  <2> QED BY <1>1, <1>3, <2>1, PipelineFrame, SizeMoveInv DEF DataInImage
<1>4. ASSUME NEW v, MainMove(v) PROVE DataInImage'
  <2>1. UNCHANGED <<listVars, fragVars, state, workq, cached, fragments, dst, disk>>
    BY <1>4 DEF MainMove, bulkVars, listVars, fragVars
  <2> QED BY <1>1, <1>4, <2>1, PipelineFrame, MainMoveInv DEF DataInImage
<1> QED BY <1>1, <1>2, <1>3, <1>4, StepKinds

-----------------------------------------------------------------------------
(* What a step of the pipeline does to the life of the image.              *)

\* Where the application thread is while it is outside of the pipeline.
Outside == {"app", "abort_app", "abort_root", "abort_finalize", "finished", "returned"}
AbortValues == {"abort_op", "abort_exit", "abort_app", "abort_root", "abort_finalize"}

LEMMA AbortFacts ==
    /\ DOMAIN AfterAbort = AbortValues
    /\ AfterAbort["abort_op"] = "failed" /\ AfterAbort["abort_exit"] = "done"
    /\ AfterAbort["abort_app"] = "app" /\ AfterAbort["abort_root"] = "finished"
    /\ AfterAbort["abort_finalize"] = "returned"
BY DEF AfterAbort, AbortValues

\* Thread t flags an error, which has a message, and goes on to an abort.
Flags(t) ==
    /\ imgState' = "fatal_error" /\ errorMsg' # ""
    /\ \/ t = Main /\ pc[t] = "app" /\ pc' = [pc EXCEPT ![t] = "abort_app"]
       \/ t = Main /\ pc[t] = "seal_enqueue" /\ pc' = [pc EXCEPT ![t] = "abort_finalize"]
       \/ /\ Faults \cap WorkerFaults # {} /\ pc[t] \notin Outside
          /\ \E v \in {"abort_op", "abort_exit"} : pc' = [pc EXCEPT ![t] = v]

\* Thread t moves to v, and may wake others.
Moves(t, v) ==
    /\ UNCHANGED imageVars
    /\ pc'[t] = v
    /\ \A u \in Threads \ {t} : pc'[u] = pc[u] \/ (pc[u] = "wait" /\ pc'[u] = "enter")

\* What a thread may do to its place: it flags an error, ends an abort, or moves within
\* the pipeline and out of it at its end.
Within == {"start", "enter", "loop", "wait", "read", "compress", "write", "seal_enqueue",
           "finished", "done"}
ThreadGoes(t) ==
    \/ Flags(t)
    \/ pc[t] \in AbortValues /\ Moves(t, AfterAbort[pc[t]])
    \/ pc[t] \notin Outside /\ pc[t] \notin AbortValues /\ \E v \in Within : Moves(t, v)
    \/ pc[t] = "app" /\ Moves(t, "app")

LEMMA QuietGoes ==
    ASSUME IInv, NEW t \in Threads, QuietStep(t)
    PROVE  ThreadGoes(t)
<1> USE DEF Outside, AbortValues, Within, ThreadGoes
<1>1. pc \in [Threads -> PcValues]
  BY StateFacts
<1>2. CASE OpenCompressor(t) \/ Enter(t) \/ SpuriousWake(t) \/ Wait(t)
  <2>1. UNCHANGED imageVars /\ \E v \in {"enter", "loop", "wait"} : pc' = [pc EXCEPT ![t] = v]
    BY <1>2 DEF OpenCompressor, Enter, SpuriousWake, Wait
  <2>2. pc[t] \in {"start", "enter", "wait", "loop"}
    BY <1>2 DEF OpenCompressor, Enter, SpuriousWake, Wait
  <2> QED BY <1>1, <2>1, <2>2 DEF Moves
<1>3. CASE Exit(t) \/ ReturnFailed(t)
  <2>1. UNCHANGED imageVars /\ \E v \in {"finished", "done"} : pc' = [pc EXCEPT ![t] = v]
    BY <1>3 DEF Exit, ReturnFailed, Leave
  <2>2. pc[t] \in {"loop", "failed"}
    BY <1>3 DEF Exit, ReturnFailed
  <2> QED BY <1>1, <2>1, <2>2 DEF Moves
<1>4. CASE OpenFail(t) \/ ReadFail(t) \/ WriteFail(t)
  <2>1. imgState' = "fatal_error" /\ errorMsg' # ""
        /\ \E v \in {"abort_op", "abort_exit"} : pc' = [pc EXCEPT ![t] = v]
    BY <1>4 DEF OpenFail, ReadFail, WriteFail, FlagError
  <2>2. pc[t] \in {"start", "read", "write"} /\ Faults \cap WorkerFaults # {}
    BY <1>4 DEF OpenFail, ReadFail, WriteFail, WorkerFaults
  <2> QED BY <2>1, <2>2 DEF Flags
<1> QED BY <1>2, <1>3, <1>4 DEF QuietStep

LEMMA WorkGoes ==
    ASSUME IInv, NEW t \in Threads,
           \/ FinishPiece(t) \/ StartWrite(t) \/ StartCompress(t) \/ AssignBlock(t)
           \/ AssignPiece(t) \/ AssignFail(t) \/ Deduplicate(t) \/ StartRead(t)
           \/ ReadDone(t) \/ CompressDone(t) \/ WriteDone(t) \/ Abort(t)
    PROVE  ThreadGoes(t)
<1> USE DEF Outside, AbortValues, Within, ThreadGoes
<1>1. pc \in [Threads -> PcValues]
  BY StateFacts
<1>2. CASE AssignFail(t)
  <2>1. imgState' = "fatal_error" /\ errorMsg' # "" /\ pc' = [pc EXCEPT ![t] = "abort_op"]
    BY <1>2 DEF AssignFail, FlagError
  <2>2. pc[t] = "loop" /\ Faults \cap WorkerFaults # {}
    BY <1>2 DEF AssignFail, WorkerFaults
  <2> QED BY <2>1, <2>2 DEF Flags
<1>3. CASE Abort(t)
  <2>1. /\ pc[t] \in AbortValues /\ UNCHANGED imageVars
        /\ pc' = Broadcast([pc EXCEPT ![t] = AfterAbort[pc[t]]])
    BY <1>3, AbortFacts DEF Abort
  <2>2. PICK v : v = AfterAbort[pc[t]]
    OBVIOUS
  <2>3. v \in {"failed", "done", "app", "finished", "returned"}
    BY <2>1, <2>2, AbortFacts
  <2>4. pc'[t] = v /\ \A u \in Threads \ {t} : pc'[u] = pc[u] \/ (pc[u] = "wait" /\ pc'[u] = "enter")
    BY <1>1, <2>1, <2>2, <2>3 DEF Broadcast
  <2> QED BY <2>1, <2>2, <2>4 DEF Moves
<1>4. CASE FinishPiece(t) \/ WriteDone(t)
  <2>1. UNCHANGED imageVars /\ pc[t] \in {"loop", "write"}
    BY <1>4 DEF FinishPiece, WriteDone
  <2>2. \E q, c : MarkFinished(q, c, t)
    BY <1>4 DEF FinishPiece, WriteDone
  <2> DEFINE p == [pc EXCEPT ![t] = "loop"]
  <2>3. p[t] = "loop" /\ \A u \in Threads \ {t} : p[u] = pc[u]
    BY <1>1
  <2>4. pc' = p \/ pc' = Broadcast(p)
    BY <2>2, Zenon DEF MarkFinished
  <2> HIDE DEF p
  <2>5. Moves(t, "loop")
    BY <2>1, <2>3, <2>4 DEF Broadcast, Moves
  <2> QED BY <2>1, <2>5
<1>5. CASE StartRead(t)
  <2>1. UNCHANGED imageVars /\ pc[t] = "loop" /\ (pc' = pc \/ pc' = [pc EXCEPT ![t] = "read"])
    BY <1>5 DEF StartRead
  <2> QED BY <1>1, <2>1 DEF Moves
<1>6. CASE \/ StartWrite(t) \/ StartCompress(t) \/ AssignBlock(t) \/ AssignPiece(t) \/ Deduplicate(t)
           \/ ReadDone(t) \/ CompressDone(t)
  <2>1. UNCHANGED imageVars /\ pc[t] \in {"loop", "read", "compress"}
    BY <1>6 DEF StartWrite, StartCompress, AssignBlock, AssignPiece, Deduplicate, ReadDone, CompressDone
  <2>2. pc' = pc \/ \E v \in {"loop", "write", "compress"} : pc' = [pc EXCEPT ![t] = v]
    BY <1>6 DEF StartWrite, StartCompress, AssignBlock, AssignPiece, Deduplicate, ReadDone, CompressDone
  <2> QED BY <1>1, <2>1, <2>2 DEF Moves
<1> QED BY <1>2, <1>3, <1>4, <1>5, <1>6

LEMMA PipelineGoes ==
    ASSUME IInv, PipelineStep
    PROVE  \E t \in Threads : ThreadGoes(t)
<1> USE DEF Outside, AbortValues, Within
<1>1. pc \in [Threads -> PcValues] /\ Main \in Threads /\ Workers \subseteq Threads
  BY StateFacts DEF Threads
<1>2. ASSUME NEW d \in Submissions, Submit(d) PROVE ThreadGoes(Main)
  <2>1. UNCHANGED imageVars /\ pc[Main] = "app"
    BY <1>2 DEF Submit
  <2>2. \A u \in Threads : pc'[u] = pc[u] \/ (pc[u] = "wait" /\ pc'[u] = "enter")
    BY <1>1, <1>2, SignalFacts DEF Submit
  <2> QED BY <1>1, <2>1, <2>2 DEF ThreadGoes, Moves
<1>3. ASSUME NEW w \in Workers, Spawn(w) PROVE ThreadGoes(w)
  BY <1>1, <1>3 DEF Spawn, ThreadGoes, Moves
<1>4. CASE UserAbort \/ SealFail
  BY <1>1, <1>4 DEF UserAbort, SealFail, FlagError, ThreadGoes, Flags
<1>5. CASE SealCheck
  <2>1. UNCHANGED imageVars /\ pc[Main] = "seal"
        /\ \E v \in {"seal_enqueue", "enter"} : pc' = [pc EXCEPT ![Main] = v]
    BY <1>5 DEF SealCheck
  <2> QED BY <1>1, <2>1 DEF ThreadGoes, Moves
<1>6. CASE SealEnqueue
  <2>1. UNCHANGED imageVars /\ pc[Main] = "seal_enqueue"
    BY <1>6 DEF SealEnqueue
  <2>2. PICK r \in Signalled([pc EXCEPT ![Main] = "enter"]) : pc' \in Signalled(r)
    BY <1>6 DEF SealEnqueue
  <2> DEFINE p == [pc EXCEPT ![Main] = "enter"]
  <2>3. p \in [Threads -> PcValues] /\ p[Main] = "enter" /\ \A u \in Threads \ {Main} : p[u] = pc[u]
    BY <1>1 DEF PcValues
  <2>4. r \in Signalled(p) /\ pc' \in Signalled(r)
    BY <2>2
  <2> HIDE DEF p
  <2>5. /\ r \in [Threads -> PcValues]
        /\ \A u \in Threads : r[u] = p[u] \/ (p[u] = "wait" /\ r[u] = "enter")
    BY <2>3, <2>4, SignalFacts
  <2>6. \A u \in Threads : pc'[u] = r[u] \/ (r[u] = "wait" /\ pc'[u] = "enter")
    BY <2>4, <2>5, SignalFacts
  <2>7. Moves(Main, "enter")
    BY <1>1, <2>1, <2>3, <2>5, <2>6 DEF Moves
  <2> QED BY <1>1, <2>1, <2>7 DEF ThreadGoes
<1>7. ASSUME NEW t \in Threads, ThreadStep(t) \/ SpuriousWake(t) PROVE ThreadGoes(t)
  BY <1>7, QuietGoes, WorkGoes DEF ThreadStep, LoopStep, QuietStep
<1> QED BY <1>1, <1>2, <1>3, <1>4, <1>5, <1>6, <1>7 DEF PipelineStep, SealStep

-----------------------------------------------------------------------------
(* Failures are reported, whatever fails.                                  *)

\* What a step of the pipeline does to the state of the image and to the application
\* thread, as far as errors and the return of finalize go.
LEMMA PipelineReports ==
    ASSUME IInv, PipelineStep
    PROVE  /\ \/ imgState' = imgState /\ errorMsg' = errorMsg
              \/ imgState' = "fatal_error" /\ errorMsg' # ""
           /\ pc'[Main] \in AbortValues => pc[Main] \in AbortValues \/ imgState' = "fatal_error"
           /\ pc'[Main] = "returned" => pc[Main] \in {"returned", "abort_finalize"}
           /\ pc[Main] = "returned" => pc'[Main] = "returned"
<1> USE DEF Outside, AbortValues, Within
<1>1. PICK t \in Threads : ThreadGoes(t)
  BY PipelineGoes
<1>2. pc \in [Threads -> PcValues] /\ Main \in Threads
  BY StateFacts DEF Threads
<1>3. \/ imgState' = imgState /\ errorMsg' = errorMsg
      \/ imgState' = "fatal_error" /\ errorMsg' # ""
  BY <1>1 DEF ThreadGoes, Moves, Flags, imageVars
<1>4. CASE Flags(t)
  BY <1>2, <1>3, <1>4 DEF Flags
<1>5. ASSUME NEW v, Moves(t, v), t # Main
      PROVE  pc'[Main] = pc[Main] \/ (pc[Main] = "wait" /\ pc'[Main] = "enter")
  BY <1>2, <1>5 DEF Moves
<1>6. CASE ~Flags(t) /\ t # Main
  BY <1>1, <1>3, <1>5, <1>6 DEF ThreadGoes
<1>7. CASE ~Flags(t) /\ t = Main
  <2>1. \/ pc[Main] \in AbortValues /\ pc'[Main] = AfterAbort[pc[Main]]
        \/ pc[Main] \notin Outside /\ pc'[Main] \in Within
        \/ pc[Main] = "app" /\ pc'[Main] = "app"
    BY <1>1, <1>7 DEF ThreadGoes, Moves
  <2>2. pc[Main] \in AbortValues /\ pc'[Main] = AfterAbort[pc[Main]] =>
            /\ pc'[Main] \notin AbortValues /\ pc[Main] # "returned"
            /\ pc'[Main] = "returned" => pc[Main] = "abort_finalize"
    BY AbortFacts
  <2> QED BY <1>3, <2>1, <2>2
<1> QED BY <1>4, <1>6, <1>7

LEMMA InitReport == ImageInit => ReportInv
<1> SUFFICES ASSUME ImageInit PROVE ReportInv
  OBVIOUS
<1>1. imgState = "building" /\ pc = [t \in Threads |-> IF t = Main THEN "app" ELSE "unspawned"]
  BY DEF ImageInit, Init
<1>2. pc[Main] = "app" /\ loc = -1
  BY <1>1 DEF Threads, ImageInit
<1> QED BY <1>1, <1>2, AbortFacts DEF ReportInv, AbortValues

LEMMA NextReport ==
    ASSUME IInv, ReportInv, [ImageNext]_allVars
    PROVE  ReportInv'
<1> USE AbortFacts DEF ReportInv, AbortValues
<1>1. /\ imgState \in {"building", "fatal_error", "finalized"}
      /\ pc \in [Threads -> PcValues] /\ Main \in Threads /\ size \in Nat
  BY DEF IInv, TypeOK, Threads
<1>2. CASE Pipeline
  <2>1. closing' = closing /\ loc' = loc
        /\ result' = IF pc[Main] # "returned" /\ pc'[Main] = "returned" THEN imgState ELSE result
    BY <1>2 DEF Pipeline, tailVars, callVars
  <2>2. /\ \/ imgState' = imgState /\ errorMsg' = errorMsg
           \/ imgState' = "fatal_error" /\ errorMsg' # ""
        /\ pc'[Main] \in AbortValues => pc[Main] \in AbortValues \/ imgState' = "fatal_error"
        /\ pc'[Main] = "returned" => pc[Main] \in {"returned", "abort_finalize"}
        /\ pc[Main] = "returned" => pc'[Main] = "returned"
    BY <1>2, PipelineReports DEF Pipeline
  <2> QED BY <2>1, <2>2
<1>3. CASE \/ SetRoot \/ JoinAndFree \/ Serialize \/ WriteOptions \/ WriteSuperblock
           \/ UNCHANGED allVars
  <2>1. /\ UNCHANGED <<imgState, errorMsg, pc, loc, result>>
        /\ closing' = closing \/ closing' = "freed"
    BY <1>3 DEF SetRoot, JoinAndFree, Serialize, WriteOptions, WriteSuperblock, allVars, vars,
                imageVars, callVars, tailVars
  <2> QED BY <2>1
<1>4. ASSUME NEW k \in DOMAIN AllParts, SkipPart(k) \/ ReadSize(k) \/ WritePart(k)
      PROVE  ReportInv'
  <2>1. UNCHANGED <<imgState, errorMsg, pc, result, closing>> /\ (loc' = loc \/ loc' \in {size, -1})
    BY <1>4 DEF SkipPart, ReadSize, WritePart, vars, imageVars, callVars
  <2> QED BY <1>1, <2>1
<1>5. CASE ErrorClear
  BY <1>5 DEF ErrorClear, tailVars
<1>6. CASE Finish
  <2>1. /\ UNCHANGED <<errorMsg, closing, loc>> /\ pc'[Main] = "returned"
        /\ \/ imgState' = "finalized" /\ result' = "finalized"
           \/ "truncate" \in Faults /\ imgState' = imgState
    BY <1>1, <1>6 DEF Finish, tailVars, callVars
  <2> QED BY <2>1
<1>7. CASE FinalizeFailed
  <2>1. /\ imgState' = "fatal_error" /\ errorMsg' # "" /\ loc' = loc /\ pc'[Main] = "abort_finalize"
    BY <1>1, <1>7 DEF FinalizeFailed, FlagError, tailVars
  <2> QED BY <2>1
<1>8. ASSUME NEW close \in BOOLEAN, FinalizeImage(close) PROVE ReportInv'
  <2>1. loc' = loc /\ closing = "no"
    BY <1>8 DEF FinalizeImage
  <2>2. \/ /\ imgState # "building" /\ pc' = [pc EXCEPT ![Main] = "returned"]
           /\ result' = imgState /\ UNCHANGED imageVars
        \/ FlagError(Main, "No root directory set", "abort_root")
        \/ pc' = [pc EXCEPT ![Main] = "seal"] /\ UNCHANGED imageVars
    BY <1>8, Zenon DEF FinalizeImage, MayFinalize
  <2>3. \/ /\ imgState # "building" /\ pc'[Main] = "returned"
           /\ result' = imgState /\ UNCHANGED <<imgState, errorMsg>>
        \/ imgState' = "fatal_error" /\ errorMsg' # "" /\ pc'[Main] = "abort_root"
        \/ pc'[Main] = "seal" /\ UNCHANGED <<imgState, errorMsg>>
    BY <1>1, <2>2 DEF FlagError, imageVars
  <2> QED BY <1>1, <2>1, <2>3
<1> QED BY <1>2, <1>3, <1>4, <1>5, <1>6, <1>7, <1>8 DEF ImageNext, TailStep

\* The invariants of the pipeline hold in every image, whatever fails, and however often
\* finalize is called.
THEOREM PipelineInImage == ImageSpec => [](DataInImage /\ ReportInv)
<1>1. ImageInit => DataInImage /\ ReportInv
  <2>1. ImageInit => Init
    BY DEF ImageInit
  <2> QED BY <2>1, InitInv, InitPack, InitImage, InitReport DEF DataInImage, ImageInv
<1>2. DataInImage /\ ReportInv /\ [ImageNext]_allVars => (DataInImage /\ ReportInv)'
  <2> SUFFICES ASSUME DataInImage, ReportInv, [ImageNext]_allVars PROVE (DataInImage /\ ReportInv)'
    OBVIOUS
  <2>1. IInv /\ loc \in Nat \cup {-1}
    BY DEF DataInImage, ReportInv
  <2> QED BY <2>1, NextDataInImage, NextReport
<1> QED BY <1>1, <1>2, PTL DEF ImageSpec

\* An image that could not be finalized says why, whichever thread fails at whatever:
\* unless the padding of the image can fail, for which finalize flags nothing.
THEOREM FailuresReported ==
    ASSUME "truncate" \notin Faults
    PROVE  ImageSpec => []FailureIsReported
<1>1. ReportInv => FailureIsReported
  BY DEF ReportInv, FailureIsReported
<1> QED BY <1>1, PipelineInImage, PTL

-----------------------------------------------------------------------------
(* The life of an image whose threads do not fail at work.                 *)

\* The places of a thread that fails at work.
AtFault == {"abort_op", "abort_exit", "failed"}

\* Without such failures only the application thread flags errors, from outside of the
\* pipeline or when the closing piece cannot be allocated.
LEMMA HealthyPipeline ==
    ASSUME IInv, WorkersHealthy, \A t \in Threads : pc[t] \notin AtFault, PipelineStep
    PROVE  /\ \A t \in Threads : pc'[t] \notin AtFault
           /\ \/ imgState' = imgState
              \/ /\ imgState' = "fatal_error" /\ pc[Main] \in {"app", "seal_enqueue"}
                 /\ pc'[Main] \in {"abort_app", "abort_finalize"}
           /\ pc[Main] \in Outside =>
                 \/ pc'[Main] = pc[Main]
                 \/ pc[Main] = "app" /\ pc'[Main] = "abort_app"
                 \/ pc[Main] = "abort_app" /\ pc'[Main] = "app"
                 \/ pc[Main] = "abort_root" /\ pc'[Main] = "finished"
                 \/ pc[Main] = "abort_finalize" /\ pc'[Main] = "returned"
           /\ pc'[Main] = "abort_root" => pc[Main] = "abort_root"
<1> USE DEF Outside, AbortValues, Within, AtFault
<1>1. PICK t \in Threads : ThreadGoes(t)
  BY PipelineGoes
<1>2. pc \in [Threads -> PcValues] /\ Main \in Threads
  BY StateFacts DEF Threads
<1>3. CASE Flags(t)
  <2>1. Faults \cap WorkerFaults = {}
    BY DEF WorkersHealthy
  <2>2. /\ imgState' = "fatal_error" /\ t = Main /\ pc[t] \in {"app", "seal_enqueue"}
        /\ \E v \in {"abort_app", "abort_finalize"} :
              /\ pc' = [pc EXCEPT ![t] = v]
              /\ pc[t] = "app" => v = "abort_app"
    BY <1>3, <2>1 DEF Flags
  <2>3. \A u \in Threads \ {Main} : pc'[u] = pc[u]
    BY <1>2, <2>2
  <2>4. pc'[Main] \in {"abort_app", "abort_finalize"} /\ (pc[Main] = "app" => pc'[Main] = "abort_app")
    BY <1>2, <2>2
  <2>5. \A u \in Threads : pc'[u] \notin AtFault
    BY <2>3, <2>4
  <2> QED BY <2>2, <2>4, <2>5
<1>4. CASE ~Flags(t)
  <2>1. \E v : /\ Moves(t, v)
               /\ \/ pc[t] \in AbortValues /\ v = AfterAbort[pc[t]]
                  \/ pc[t] \notin Outside /\ v \in Within
                  \/ pc[t] = "app" /\ v = "app"
    BY <1>1, <1>4 DEF ThreadGoes
  <2>2. PICK v : /\ Moves(t, v)
                 /\ \/ pc[t] \in AbortValues /\ v = AfterAbort[pc[t]]
                    \/ pc[t] \notin Outside /\ v \in Within
                    \/ pc[t] = "app" /\ v = "app"
    BY <2>1
  <2>3. /\ pc'[t] = v /\ imgState' = imgState
        /\ \A u \in Threads \ {t} : pc'[u] = pc[u] \/ (pc[u] = "wait" /\ pc'[u] = "enter")
    BY <2>2 DEF Moves, imageVars
  <2>4. \/ pc[t] = "abort_app" /\ v = "app"
        \/ pc[t] = "abort_root" /\ v = "finished"
        \/ pc[t] = "abort_finalize" /\ v = "returned"
        \/ pc[t] \notin Outside /\ v \in Within
        \/ pc[t] = "app" /\ v = "app"
    BY <2>2, AbortFacts
  <2>5. \A u \in Threads : pc'[u] \notin AtFault
    BY <2>3, <2>4
  <2>6. CASE t = Main
    BY <2>3, <2>4, <2>5, <2>6
  <2>7. CASE t # Main
    BY <1>2, <2>3, <2>5, <2>7
  <2> QED BY <2>6, <2>7
<1> QED BY <1>3, <1>4

LEMMA InitLife == ImageInit => LifeInv
<1> SUFFICES ASSUME ImageInit PROVE LifeInv
  OBVIOUS
<1>1. imgState = "building" /\ pc = [t \in Threads |-> IF t = Main THEN "app" ELSE "unspawned"]
  BY DEF ImageInit, Init
<1>2. pc[Main] = "app" /\ step = 0
  BY <1>1 DEF Threads, ImageInit
<1> QED BY <1>1, <1>2, PartFacts DEF LifeInv, StepPad, Failed

\* The values of step.
LEMMA StepFacts ==
    /\ StepOptions = 13 /\ StepSuperblock = 14 /\ StepPad = 15 /\ Failed = -1
    /\ DOMAIN AllParts = 1 .. 12
BY PartFacts DEF StepOptions, StepSuperblock, StepPad, Failed

\* One step of the tail of finalize that leaves the threads alone: it goes on, fails,
\* or only reads the size.
LEMMA TailGoes ==
    ASSUME \/ Serialize \/ WriteOptions \/ WriteSuperblock
           \/ \E k \in DOMAIN AllParts : SkipPart(k) \/ ReadSize(k) \/ WritePart(k)
    PROVE  /\ pc[Main] = "finished" /\ step \in 0 .. 14
           /\ step' \in {step, step + 1, Failed} /\ UNCHANGED <<pc, imgState>>
           /\ UNCHANGED <<disk, fragments, finished, count, mayAdd>>
<1> USE StepFacts DEF InTail, vars, bulkVars, imageVars, listVars
<1>1. CASE Serialize
  BY <1>1 DEF Serialize
<1>2. CASE WriteOptions
  BY <1>2 DEF WriteOptions
<1>3. CASE WriteSuperblock
  BY <1>3 DEF WriteSuperblock
<1>4. ASSUME NEW k \in DOMAIN AllParts, SkipPart(k) \/ ReadSize(k) \/ WritePart(k)
      PROVE  /\ pc[Main] = "finished" /\ step \in 0 .. 14
             /\ step' \in {step, step + 1, Failed} /\ UNCHANGED <<pc, imgState>>
             /\ UNCHANGED <<disk, fragments, finished, count, mayAdd>>
  BY <1>4 DEF SkipPart, ReadSize, WritePart
<1> QED BY <1>1, <1>2, <1>3, <1>4

LEMMA NextLife ==
    ASSUME IInv, WorkersHealthy, LifeInv, [ImageNext]_allVars
    PROVE  LifeInv'
<1> USE StepFacts DEF Outside
<1>1. /\ imgState \in {"building", "fatal_error", "finalized"}
      /\ pc \in [Threads -> PcValues] /\ Main \in Threads
      /\ \A t \in Threads : pc[t] \notin AtFault
      /\ step \in -1 .. 15
  BY DEF IInv, TypeOK, Threads, LifeInv, AtFault
<1>2. CASE Pipeline
  <2>1. step' = step
    BY <1>2 DEF Pipeline, tailVars
  <2>2. /\ \A t \in Threads : pc'[t] \notin AtFault
        /\ \/ imgState' = imgState
           \/ /\ imgState' = "fatal_error" /\ pc[Main] \in {"app", "seal_enqueue"}
              /\ pc'[Main] \in {"abort_app", "abort_finalize"}
        /\ pc[Main] \in Outside =>
              \/ pc'[Main] = pc[Main]
              \/ pc[Main] = "app" /\ pc'[Main] = "abort_app"
              \/ pc[Main] = "abort_app" /\ pc'[Main] = "app"
              \/ pc[Main] = "abort_root" /\ pc'[Main] = "finished"
              \/ pc[Main] = "abort_finalize" /\ pc'[Main] = "returned"
        /\ pc'[Main] = "abort_root" => pc[Main] = "abort_root"
    BY <1>1, <1>2, HealthyPipeline DEF Pipeline
  <2>3. \A t \in Threads : pc'[t] \notin {"abort_op", "abort_exit", "failed"}
    BY <2>2 DEF AtFault
  <2> QED BY <1>1, <2>1, <2>2, <2>3 DEF LifeInv
<1>3. CASE SetRoot \/ JoinAndFree \/ ErrorClear \/ UNCHANGED allVars
  <2>1. UNCHANGED <<imgState, pc, step>>
    BY <1>3 DEF SetRoot, JoinAndFree, ErrorClear, allVars, vars, imageVars, tailVars
  <2> QED BY <2>1 DEF LifeInv
<1>4. CASE \/ Serialize \/ WriteOptions \/ WriteSuperblock
           \/ \E k \in DOMAIN AllParts : SkipPart(k) \/ ReadSize(k) \/ WritePart(k)
  <2>1. /\ pc[Main] = "finished" /\ step \in 0 .. 14
        /\ step' \in {step, step + 1, -1} /\ UNCHANGED <<pc, imgState>>
    BY <1>4, TailGoes
  <2> QED BY <2>1 DEF LifeInv
<1>5. CASE Finish
  <2>1. /\ pc' = [pc EXCEPT ![Main] = "returned"] /\ step' = step /\ step = 15
        /\ pc[Main] = "finished" /\ (imgState' = imgState \/ imgState' = "finalized")
    BY <1>5 DEF Finish, InTail, tailVars
  <2> QED BY <1>1, <2>1 DEF LifeInv
<1>6. CASE FinalizeFailed
  <2>1. /\ pc' = [pc EXCEPT ![Main] = "abort_finalize"] /\ step' = step /\ step = -1
        /\ pc[Main] = "finished" /\ imgState' = "fatal_error"
    BY <1>6 DEF FinalizeFailed, FlagError, InTail, tailVars
  <2> QED BY <1>1, <2>1 DEF LifeInv
<1>7. ASSUME NEW close \in BOOLEAN, FinalizeImage(close) PROVE LifeInv'
  <2>1. pc[Main] \in {"app", "returned"}
    BY <1>7 DEF FinalizeImage
  <2>2. \/ /\ imgState # "building" /\ pc' = [pc EXCEPT ![Main] = "returned"]
           /\ step' = step /\ imgState' = imgState
        \/ /\ imgState' = "fatal_error" /\ pc' = [pc EXCEPT ![Main] = "abort_root"] /\ step' = -1
        \/ /\ imgState = "building" /\ pc' = [pc EXCEPT ![Main] = "seal"] /\ imgState' = imgState
           /\ step' = 0
    BY <1>7 DEF FinalizeImage, MayFinalize, FlagError, imageVars
  <2>3. CASE imgState # "building" /\ pc' = [pc EXCEPT ![Main] = "returned"]
             /\ step' = step /\ imgState' = imgState
    BY <1>1, <2>1, <2>3 DEF LifeInv
  <2>4. CASE imgState' = "fatal_error" /\ pc' = [pc EXCEPT ![Main] = "abort_root"] /\ step' = -1
    BY <1>1, <2>1, <2>4 DEF LifeInv
  <2>5. CASE /\ imgState = "building" /\ pc' = [pc EXCEPT ![Main] = "seal"] /\ imgState' = imgState
             /\ step' = 0
    BY <1>1, <2>1, <2>5 DEF LifeInv
  <2> QED BY <2>2, <2>3, <2>4, <2>5
<1> QED BY <1>2, <1>3, <1>4, <1>5, <1>6, <1>7 DEF ImageNext, TailStep

\* A fatal error is final as long as no thread fails at work: the tail of finalize is
\* never in an image with an error unless it has failed itself.  (A thread that fails
\* meanwhile is the exception: finalize then overwrites the error.)
THEOREM FatalIsFinal ==
    ASSUME WorkersHealthy
    PROVE  ImageSpec => FatalStaysFatal
<1>1. ImageInit => LifeInv
  BY InitLife
<1>2. IInv /\ LifeInv /\ [ImageNext]_allVars => LifeInv'
  BY NextLife
<1>3. IInv /\ LifeInv /\ [ImageNext]_allVars
        => [imgState = "fatal_error" => imgState' = "fatal_error"]_allVars
  <2> SUFFICES ASSUME IInv, LifeInv, [ImageNext]_allVars, imgState = "fatal_error"
               PROVE  imgState' = "fatal_error"
    OBVIOUS
  <2>1. CASE Pipeline
    BY <2>1, PipelineReports DEF Pipeline
  <2>2. CASE SetRoot \/ JoinAndFree \/ ErrorClear \/ UNCHANGED allVars
    BY <2>2 DEF SetRoot, JoinAndFree, ErrorClear, allVars, vars, imageVars
  <2>3. CASE \/ Serialize \/ WriteOptions \/ WriteSuperblock
             \/ \E k \in DOMAIN AllParts : SkipPart(k) \/ ReadSize(k) \/ WritePart(k)
    BY <2>3, TailGoes
  <2>4. CASE Finish
    BY <2>4, StepFacts DEF Finish, InTail, LifeInv
  <2>5. CASE FinalizeFailed \/ \E close \in BOOLEAN : FinalizeImage(close)
    BY <2>5 DEF FinalizeFailed, FinalizeImage, FlagError, imageVars
  <2> QED BY <2>1, <2>2, <2>3, <2>4, <2>5 DEF ImageNext, TailStep
<1>4. DataInImage => IInv
  BY DEF DataInImage
<1> QED BY <1>1, <1>2, <1>3, <1>4, PipelineInImage, PTL DEF ImageSpec, FatalStaysFatal

-----------------------------------------------------------------------------
(* The space of the image.                                                 *)

\* When all chunks are finished, nothing is queued or in the hands of a thread.
LEMMA CompleteFacts ==
    ASSUME IInv, DataComplete
    PROVE  /\ \A s \in Stages : Elems(workq[s]) = {}
           /\ \A s \in Stages : ~Serves(s)
           /\ \A t \in Threads : pc[t] \notin Holding
<1> USE DEF ChunkNone, ChunkRead, ChunkDeduplicated, ChunkAssigned, ChunkWritable, ChunkFinished
<1>1. \A c \in Ids : c <= count => state[c] = ChunkFinished
  BY DEF IInv, WriteoutInOrder, DataComplete
<1>2. ASSUME NEW s \in Stages, NEW c \in Elems(workq[s]) PROVE FALSE
  <2>1. c \in Ids /\ c <= count /\ state[c] = ExpectedState[s]
    BY <1>2, QueueFacts
  <2>2. ExpectedState[s] # ChunkFinished
    BY <1>2 DEF ExpectedState, Stages
  <2> QED BY <1>1, <2>1, <2>2
<1>3. ASSUME NEW t \in Threads, pc[t] \in Holding PROVE FALSE
  <2>1. cur[t] \in Ids /\ cur[t] <= count /\ state[cur[t]] = ExpectedState[pc[t]]
    BY <1>3, QueueFacts
  <2>2. ExpectedState[pc[t]] # ChunkFinished
    BY <1>3 DEF ExpectedState, Holding
  <2> QED BY <1>1, <2>1, <2>2
<1>4. ASSUME NEW s \in Stages, Serves(s) PROVE FALSE
  <2>1. workq[s] # <<>> /\ workq[s] \in Seq(Ids)
    BY <1>4, QueueFacts DEF Serves, QueuesOK
  <2>2. 1 \in DOMAIN workq[s]
    BY <2>1
  <2>3. workq[s][1] \in Elems(workq[s])
    BY <2>2 DEF Elems
  <2> QED BY <1>2, <2>3
<1> QED BY <1>2, <1>3, <1>4

\* The pipeline leaves the image alone from then on.
LEMMA CompleteStays ==
    ASSUME IInv, DataComplete, PipelineStep
    PROVE  UNCHANGED <<size, disk, fragments, finished, count>> /\ DataComplete'
<1>1. /\ \A s \in Stages : ~Serves(s)
      /\ \A t \in Threads : pc[t] \notin Holding
      /\ finished = count /\ ~mayAdd /\ pc[Main] \notin {"app", "abort_app", "seal_enqueue"}
  BY CompleteFacts DEF DataComplete
<1>2. pc \in [Threads -> PcValues] /\ Main \in Threads
  BY StateFacts DEF Threads
<1>3. \A s \in {"read", "dedup", "assign", "compress", "write"} : ~Serves(s)
  BY <1>1 DEF Stages
<1>4. CASE \/ \E d \in Submissions : Submit(d) 
           \/ \E w \in Workers : Spawn(w)
           \/ UserAbort \/ SealEnqueue \/ SealFail
  BY <1>1, <1>4 DEF Submit, Spawn, UserAbort, SealEnqueue, SealFail
<1>5. CASE SealCheck
  <2>1. UNCHANGED bulkVars /\ pc' = [pc EXCEPT ![Main] = "enter"]
    BY <1>1, <1>5 DEF SealCheck
  <2>2. pc'[Main] = "enter"
    BY <1>2, <2>1
  <2> QED BY <1>1, <2>1, <2>2 DEF bulkVars, DataComplete
<1>6. ASSUME NEW t \in Threads, ThreadStep(t) \/ SpuriousWake(t)
      PROVE  UNCHANGED <<size, disk, fragments, finished, count>> /\ DataComplete'
  <2>1. CASE QuietStep(t)
    <3>1. \/ OpenCompressor(t) \/ OpenFail(t) \/ Enter(t) \/ SpuriousWake(t)
          \/ Exit(t) \/ Wait(t) \/ ReadFail(t) \/ WriteFail(t) \/ ReturnFailed(t)
      BY <2>1 DEF QuietStep
    <3>2. UNCHANGED bulkVars
      BY <3>1 DEF OpenCompressor, OpenFail, Enter, SpuriousWake, Exit, Wait, ReadFail, WriteFail,
                  ReturnFailed
    <3>3. \E v \in {"enter", "loop", "wait", "finished", "done", "abort_op", "abort_exit"} :
             pc' = [pc EXCEPT ![t] = v]
      BY <3>1 DEF OpenCompressor, OpenFail, Enter, SpuriousWake, Exit, Wait, ReadFail, WriteFail,
                  ReturnFailed, FlagError, Leave
    <3>4. pc'[Main] \notin {"app", "abort_app", "seal_enqueue"}
      BY <1>1, <1>2, <3>3
    <3> QED BY <1>1, <3>2, <3>4 DEF bulkVars, DataComplete
  <2>2. CASE Abort(t)
    <3>1. UNCHANGED <<size, disk, fragments, finished, count>> /\ mayAdd' = FALSE
      BY <2>2 DEF Abort, listVars
    <3>2. pc[t] \in AbortValues /\ pc' = Broadcast([pc EXCEPT ![t] = AfterAbort[pc[t]]])
      BY <2>2, AbortFacts DEF Abort
    <3>3. PICK v : v = AfterAbort[pc[t]]
      OBVIOUS
    <3>4. v = "app" => pc[t] = "abort_app"
      BY <3>2, <3>3, AbortFacts DEF AbortValues
    <3>5. v \in {"failed", "done", "app", "finished", "returned"}
      BY <3>2, <3>3, AbortFacts DEF AbortValues
    <3>6. pc' = Broadcast([pc EXCEPT ![t] = v])
      BY <3>2, <3>3
    <3>7. pc'[Main] \notin {"app", "abort_app", "seal_enqueue"}
      BY <1>1, <1>2, <3>4, <3>5, <3>6 DEF Broadcast
    <3> QED BY <1>1, <3>1, <3>7 DEF DataComplete
  <2>3. CASE \/ FinishPiece(t) \/ StartWrite(t) \/ StartCompress(t) \/ AssignBlock(t)
             \/ AssignPiece(t) \/ AssignFail(t) \/ Deduplicate(t) \/ StartRead(t)
    BY <1>3, <2>3 DEF FinishPiece, StartWrite, StartCompress, AssignBlock, AssignPiece, AssignFail,
                      Deduplicate, StartRead
  <2>4. CASE ReadDone(t) \/ CompressDone(t) \/ WriteDone(t)
    BY <1>1, <2>4 DEF ReadDone, CompressDone, WriteDone, Holding
  <2> QED BY <1>6, <2>1, <2>2, <2>3, <2>4 DEF ThreadStep, LoopStep, QuietStep
<1> QED BY <1>4, <1>5, <1>6 DEF PipelineStep, SealStep

\* As long as nobody else reserves space, no block is written beyond what is reserved.
LEMMA SpaceGrows ==
    ASSUME IInv, PackInv, ContentInv, PlaceInv, DiskEnd <= size, PipelineStep
    PROVE  DiskEnd' <= size'
<1>1. DiskEnd \in Int /\ size \in Nat
  BY DiskEndFacts DEF PlaceInv
<1>2. ASSUME UNCHANGED <<disk, size>> PROVE DiskEnd' <= size'
  BY <1>2 DEF DiskEnd
<1>3. CASE \/ \E d \in Submissions : Submit(d)
           \/ \E w \in Workers : Spawn(w)
           \/ UserAbort \/ SealCheck \/ SealEnqueue \/ SealFail
  BY <1>2, <1>3 DEF Submit, Spawn, UserAbort, SealCheck, SealEnqueue, SealFail, bulkVars
<1>4. ASSUME NEW t \in Threads, ThreadStep(t) \/ SpuriousWake(t) PROVE DiskEnd' <= size'
  <2>1. CASE WriteDone(t)
    <3>1. size' = DiskEnd' /\ size' = size
      BY <2>1, WriteDonePlace DEF WriteDone
    <3> QED BY <1>1, <3>1
  <2>2. CASE StartWrite(t)
    <3>1. PICK c : c = Head(workq["write"])
      OBVIOUS
    <3>2. c \in Ids /\ WritesBlock(c) /\ size' = size + ImageBlockOf(c).size
      BY <2>2, <3>1, StartWriteFacts
    <3>3. ImageBlockOf(c).size \in Nat
      BY <3>2, ImageBlockFacts DEF ImageBlockType
    <3>4. DiskEnd' = DiskEnd
      BY <2>2 DEF StartWrite, DiskEnd
    <3> QED BY <1>1, <3>2, <3>3, <3>4
  <2>3. CASE QuietStep(t)
    BY <1>2, <2>3 DEF QuietStep, OpenCompressor, OpenFail, Enter, SpuriousWake, Exit, Wait, ReadFail,
                      WriteFail, ReturnFailed, bulkVars
  <2>4. CASE \/ FinishPiece(t) \/ StartCompress(t) \/ AssignBlock(t)
             \/ AssignPiece(t) \/ AssignFail(t) \/ Deduplicate(t) \/ StartRead(t)
             \/ ReadDone(t) \/ CompressDone(t) \/ Abort(t)
    BY <1>2, <2>4 DEF FinishPiece, StartCompress, AssignBlock, AssignPiece, AssignFail, Deduplicate,
                      StartRead, ReadDone, CompressDone, Abort
  <2> QED BY <1>4, <2>1, <2>2, <2>3, <2>4 DEF ThreadStep, LoopStep, QuietStep
<1> QED BY <1>3, <1>4 DEF PipelineStep, SealStep

\* Blocks on disk end before the end of the disk, and fill it from DataStart on.
LEMMA BlocksWithin ==
    ASSUME IInv, DiskShape, NEW i \in DOMAIN disk
    PROVE  /\ disk[i].offset \in Int /\ disk[i].size \in Nat
           /\ DataStart <= disk[i].offset /\ disk[i].offset + disk[i].size <= DiskEnd
<1>1. disk \in Seq(ImageBlockType)
  BY DEF IInv, TypeOK
<1>2. PICK N : N = Len(disk)
  OBVIOUS
<1>3. N \in Nat /\ DOMAIN disk = 1 .. N /\ N # 0 /\ disk # <<>>
  BY <1>1, <1>2
<1>4. \A k \in 1 .. N : disk[k].offset \in Int /\ disk[k].size \in Nat
  <2>1. \A k \in 1 .. N : disk[k] \in ImageBlockType
    BY <1>1, <1>3
  <2> QED BY <2>1 DEF ImageBlockType
<1>5. DiskEnd = disk[N].offset + disk[N].size
  BY <1>2, <1>3 DEF DiskEnd, LastOf
<1>6. disk[i].offset + disk[i].size <= DiskEnd
  <2>1. CASE i = N
    BY <1>3, <1>4, <1>5, <2>1
  <2>2. CASE i # N
    <3>1. i + 1 \in 1 .. N /\ i \in 1 .. N /\ N \in DOMAIN disk
      BY <1>3, <2>2
    <3>2. disk[i + 1].offset = disk[i].offset + disk[i].size
      BY <1>3, <3>1 DEF DiskShape
    <3>3. disk[i + 1].offset <= disk[N].offset
      <4>1. CASE i + 1 = N
        BY <1>4, <3>1, <4>1
      <4>2. CASE i + 1 # N
        <5>1. i + 1 < N /\ i + 1 \in DOMAIN disk
          BY <1>3, <3>1, <4>2
        <5>2. disk[i + 1].offset < disk[N].offset
          BY <3>1, <5>1, DiskInOrder
        <5> QED BY <1>3, <1>4, <3>1, <5>2
      <4> QED BY <4>1, <4>2
    <3> QED BY <1>3, <1>4, <1>5, <3>1, <3>2, <3>3
  <2> QED BY <2>1, <2>2
<1> QED BY <1>3, <1>4, <1>6 DEF DiskShape

LEMMA BlocksCover ==
    ASSUME IInv, DiskShape, NEW x \in Nat, DataStart <= x, x < DiskEnd
    PROVE  \E i \in DOMAIN disk : disk[i].offset <= x /\ x < disk[i].offset + disk[i].size
<1>1. disk \in Seq(ImageBlockType) /\ DataStart \in Nat
  BY BoundsAreNat DEF IInv, TypeOK
<1>2. disk # <<>>
  BY <1>1 DEF DiskEnd
<1>3. PICK N : N = Len(disk)
  OBVIOUS
<1>4. N \in Nat /\ DOMAIN disk = 1 .. N /\ N # 0
  BY <1>1, <1>2, <1>3
<1>5. \A k \in 1 .. N : disk[k].offset \in Int /\ disk[k].size \in Nat
  BY <1>4, BlocksWithin
<1>6. DiskEnd = disk[N].offset + disk[N].size
  BY <1>2, <1>3 DEF DiskEnd, LastOf
<1> DEFINE T == {k \in 1 .. N : x < disk[k].offset + disk[k].size}
<1>7. T \in SUBSET Nat /\ N \in T
  BY <1>4, <1>6
<1>8. PICK i \in T : \A k \in T : i <= k
  BY <1>7, LeastOfNumbers
<1>9. i \in 1 .. N /\ x < disk[i].offset + disk[i].size
  OBVIOUS
<1>10. disk[i].offset <= x
  <2>1. CASE i = 1
    <3>1. disk[i].offset = DataStart
      BY <1>4, <1>9, <2>1 DEF DiskShape
    <3> QED BY <3>1
  <2>2. CASE i # 1
    <3>1. i - 1 \in 1 .. N /\ i - 1 \notin T
      BY <1>4, <1>8, <1>9, <2>2
    <3>2. disk[i].offset = disk[i - 1].offset + disk[i - 1].size
      BY <1>4, <1>9, <2>2 DEF DiskShape
    <3> QED BY <1>5, <3>1, <3>2
  <2> QED BY <2>1, <2>2
<1> QED BY <1>4, <1>9, <1>10

\* When the data become complete, the tables have not begun, and the data are all there
\* is in the image.
LEMMA TailBegins == IInv /\ BeforeTail /\ DataComplete => TailInv /\ TablesInv
<1> SUFFICES ASSUME IInv, BeforeTail, DataComplete PROVE TailInv /\ TablesInv
  OBVIOUS
<1>1. \A t \in Threads : pc[t] # "write"
  BY CompleteFacts DEF Holding
<1>2. size = DiskEnd
  <2>1. finished \in Int /\ count \in Int /\ finished = count
    BY QueueFacts DEF DataComplete
  <2> QED BY <1>1, <2>1 DEF BeforeTail, PlaceInv
<1>3. size \in Nat
  BY DEF IInv, TypeOK
<1>4. areas = {} /\ loc = -1 /\ step \in {-1, 0}
  BY StepFacts DEF BeforeTail
<1>5. TailInv
  BY <1>2, <1>3, <1>4, StepFacts DEF TailInv
<1>6. TablesInv
  BY <1>4, StepFacts DEF TablesInv
<1> QED BY <1>5, <1>6

LEMMA TailBeginsNext == (IInv /\ BeforeTail /\ DataComplete => TailInv /\ TablesInv)'
BY TailBegins, PTL

\* Finalize begins only when the data are complete.
LEMMA TailNeedsData ==
    ASSUME IInv, EndInv, LifeInv, pc[Main] = "finished", step # Failed
    PROVE  DataComplete
<1>1. imgState = "building"
  BY DEF LifeInv, IInv, TypeOK
<1> QED BY <1>1 DEF EndInv, DataComplete

\* Before that the space of the image is that of the pipeline.
LEMMA NextBeforeTail ==
    ASSUME DataInImage, ReportInv, LifeInv, BeforeTail, DiskEnd <= size, ~DataComplete,
           [ImageNext]_allVars
    PROVE  BeforeTail' /\ DiskEnd' <= size' /\ placed' = placed
<1> USE StepFacts
<1>1. /\ IInv /\ PackInv /\ ContentInv /\ CachedInv /\ EndInv /\ PlaceInv
      /\ areas = {} /\ loc = -1 /\ step \in {-1, 0}
  BY DEF DataInImage, BeforeTail
<1>2. CASE Pipeline
  <2>1. UNCHANGED <<areas, loc, step, placed>>
    BY <1>2 DEF Pipeline, tailVars
  <2>2. DiskEnd' <= size'
    BY <1>1, <1>2, SpaceGrows DEF Pipeline
  <2>3. PlaceInv'
    BY <1>1, <1>2, NextPlace DEF Pipeline, Next
  <2> QED BY <1>1, <2>1, <2>2, <2>3 DEF BeforeTail
<1>3. CASE SetRoot \/ JoinAndFree \/ UNCHANGED allVars
  <2>1. UNCHANGED vars /\ UNCHANGED <<areas, loc, step, placed>>
    BY <1>3 DEF SetRoot, JoinAndFree, allVars, tailVars
  <2>2. UNCHANGED <<disk, size>>
    BY <2>1 DEF vars, bulkVars
  <2>3. DiskEnd' <= size'
    BY <2>2 DEF DiskEnd
  <2>4. PlaceInv'
    BY <1>1, <2>1, NextPlace
  <2> QED BY <1>1, <2>1, <2>3, <2>4 DEF BeforeTail
<1>4. CASE \/ Serialize \/ WriteOptions \/ WriteSuperblock \/ Finish
           \/ \E k \in DOMAIN AllParts : SkipPart(k) \/ ReadSize(k) \/ WritePart(k)
  <2>1. pc[Main] = "finished" /\ step # Failed
    <3>1. CASE Finish
      BY <3>1 DEF Finish, InTail
    <3>2. CASE ~Finish
      BY <1>4, <3>2, TailGoes
    <3> QED BY <3>1, <3>2
  <2> QED BY <1>1, <2>1, TailNeedsData
<1>5. CASE ErrorClear \/ FinalizeFailed \/ \E close \in BOOLEAN : FinalizeImage(close)
  <2>1. UNCHANGED <<areas, loc, placed>> /\ step' \in {step, -1, 0}
    BY <1>5 DEF ErrorClear, FinalizeFailed, FinalizeImage, tailVars
  <2>2. PICK v : MainMove(v)
    BY <1>1, <1>5, MainMoves
  <2>3. UNCHANGED <<disk, size, finished, count, state, workq, cur>> /\ UNCHANGED bulkVars
    BY <2>2 DEF MainMove, bulkVars
  <2>4. DiskEnd' <= size'
    BY <2>3 DEF DiskEnd
  <2>5. \A u \in Threads : (pc'[u] = "write" <=> pc[u] = "write")
    <3>1. pc \in [Threads -> PcValues] /\ Main \in Threads
      BY <1>1, StateFacts DEF Threads
    <3> QED BY <2>2, <3>1 DEF MainMove
  <2>6. \A u \in Threads : pc[u] = "write" => cur[u] # 0
    BY <1>1, WriterFacts, BoundsAreNat DEF Ids
  <2>7. imgState # "building" => imgState' # "building"
    BY <2>2 DEF MainMove
  <2>8. NoWriteStep(0)
    BY <1>1, <2>3, <2>5, <2>6, <2>7, StutterKeeps DEF NoWriteStep
  <2>9. PlaceInv'
    BY <1>1, <2>8, PlaceFrame
  <2> QED BY <1>1, <2>1, <2>4, <2>9 DEF BeforeTail
<1> QED BY <1>2, <1>3, <1>4, <1>5 DEF ImageNext, TailStep

\* The tail of finalize leaves alone what was written before.
DataStill == UNCHANGED <<disk, fragments, finished, count, mayAdd>>

LEMMA StillFacts ==
    ASSUME DataStill
    PROVE  DiskEnd' = DiskEnd /\ \A p : Present(p)' <=> Present(p)
BY DEF DataStill, DiskEnd, Present

\* Steps that write nothing into the tail: finalize returns, is called again, or another
\* thread moves.
LEMMA TailFrame ==
    ASSUME TailInv, TablesInv, LifeInv, UNCHANGED <<disk, fragments, size, areas, loc, placed, serialized, super>>,
           step' \in {step, Failed, 0}, step' = 0 => step # Failed,
           loc # -1 => step' = step /\ pc'[Main] = "finished"
    PROVE  TailInv' /\ TablesInv'
<1> USE StepFacts
<1>1. DiskEnd' = DiskEnd /\ \A p : Present(p)' <=> Present(p)
  BY DEF DiskEnd, Present
<1>2. step \in -1 .. 15
  BY DEF LifeInv
<1>3. TailInv'
  <2>1. /\ areas' \subseteq TableArea \cup {OptionArea, SuperblockArea}
        /\ \A a \in areas' \cap TableArea : DiskEnd' <= a.at /\ a.at + a.len <= size'
        /\ \A a, b \in areas' \cap TableArea : a # b => ~Overlap(a, b)
    BY <1>1 DEF TailInv
  <2>2. loc' # -1 => /\ loc' = size' /\ pc'[Main] = "finished"
                     /\ step' \in DOMAIN AllParts /\ Present(AllParts[step])'
    BY <1>1 DEF TailInv
  <2>3. step' # Failed =>
          \A x \in DiskEnd' .. size' - 1 : \E a \in areas' : a.at <= x /\ x < a.at + a.len
    BY <1>1 DEF TailInv
  <2>4. /\ step' > StepOptions /\ OptionSize # 0 => OptionArea \in areas'
        /\ step' > StepSuperblock => SuperblockArea \in areas'
    BY DEF TailInv
  <2> QED BY <2>1, <2>2, <2>3, <2>4 DEF TailInv
<1>4. TablesInv'
  BY <1>1, <1>2 DEF TablesInv, Superblock
<1> QED BY <1>3, <1>4

\* One part is written behind the others, or fails to be.
LEMMA WritePartSpace ==
    ASSUME IInv, TailInv, TablesInv, LifeInv, DiskShape, DiskEnd <= size, DOMAIN placed = Parts,
           NEW k \in DOMAIN AllParts, WritePart(k)
    PROVE  TailInv' /\ TablesInv' /\ DiskEnd' <= size' /\ DOMAIN placed' = Parts
<1> USE StepFacts
<1>1. /\ k \in 1 .. 12 /\ AllParts[k] \in Parts /\ PartSize[AllParts[k]] \in Nat
      /\ OptionSize \in Nat /\ SuperblockSize \in Nat
  BY PartFacts, PartSizesAreNat, SizesAreNat
<1>2. PICK n \in Nat : n = PartSize[AllParts[k]]
  BY <1>1
<1>3. PICK new : new = [part |-> AllParts[k], at |-> loc, len |-> n]
  OBVIOUS
<1>4. /\ step = k /\ loc # -1 /\ size' = loc + n /\ loc' = -1 /\ UNCHANGED <<disk, fragments, serialized, super, pc>>
      /\ \/ /\ placed' = [placed EXCEPT ![AllParts[k]] = loc]
            /\ areas' = areas \cup {new} /\ step' = k + 1
         \/ step' = -1 /\ UNCHANGED <<placed, areas>>
  BY <1>2, <1>3 DEF WritePart, InTail, StoreSize
<1>5. loc = size /\ size \in Nat /\ size' = size + n
  BY <1>4 DEF TailInv, IInv, TypeOK
<1>6. DiskEnd' = DiskEnd /\ (\A p : Present(p)' <=> Present(p)) /\ DiskEnd \in Int
  BY <1>4, DiskEndFacts DEF DiskEnd, Present
<1>7. DiskEnd' <= size'
  BY <1>5, <1>6
<1>8. new \in TableArea /\ new.at = size /\ new.len = n
  BY <1>1, <1>3, <1>5 DEF TableArea
<1>9. \A a \in areas \cap TableArea : a.at \in Nat /\ a.len \in Nat
  BY DEF TableArea
<1>10. DOMAIN placed' = Parts
  BY <1>4
<1>11. CASE step' = -1 /\ UNCHANGED <<placed, areas>>
  <2>1. \A a \in areas' \cap TableArea : DiskEnd' <= a.at /\ a.at + a.len <= size'
    BY <1>5, <1>6, <1>9, <1>11 DEF TailInv
  <2>2. TailInv'
    BY <1>4, <1>11, <2>1 DEF TailInv
  <2>3. TablesInv'
    BY <1>1, <1>11 DEF TablesInv
  <2> QED BY <1>7, <1>10, <2>2, <2>3
<1>12. CASE /\ placed' = [placed EXCEPT ![AllParts[k]] = loc]
            /\ areas' = areas \cup {new} /\ step' = k + 1
  <2>1. areas' \subseteq TableArea \cup {OptionArea, SuperblockArea}
    BY <1>8, <1>12 DEF TailInv
  <2>2. \A a \in areas' \cap TableArea : DiskEnd' <= a.at /\ a.at + a.len <= size'
    <3>1. \A a \in areas \cap TableArea : DiskEnd <= a.at /\ a.at + a.len <= size
      BY DEF TailInv
    <3> QED BY <1>5, <1>6, <1>8, <1>9, <1>12, <3>1
  <2>3. ASSUME NEW a \in areas' \cap TableArea, NEW b \in areas' \cap TableArea, a # b
        PROVE  ~Overlap(a, b)
    <3>1. \A c \in areas \cap TableArea : c.at + c.len <= size /\ c.at \in Nat /\ c.len \in Nat
      BY <1>9 DEF TailInv
    <3>2. CASE a \in areas /\ b \in areas
      BY <2>3, <3>2 DEF TailInv
    <3>3. CASE a = new /\ b \in areas
      BY <1>5, <1>8, <2>3, <3>1, <3>3 DEF Overlap
    <3>4. CASE b = new /\ a \in areas
      BY <1>5, <1>8, <2>3, <3>1, <3>4 DEF Overlap
    <3> QED BY <1>12, <2>3, <3>2, <3>3, <3>4
  <2>4. ASSUME NEW x \in DiskEnd' .. size' - 1
        PROVE  \E a \in areas' : a.at <= x /\ x < a.at + a.len
    <3>1. CASE x < size
      <4>1. x \in DiskEnd .. size - 1 /\ step # -1
        BY <1>4, <1>5, <1>6, <3>1
      <4>2. \E a \in areas : a.at <= x /\ x < a.at + a.len
        BY <4>1 DEF TailInv
      <4> QED BY <1>12, <4>2
    <3>2. CASE ~(x < size)
      <4>1. new \in areas' /\ new.at <= x /\ x < new.at + new.len
        BY <1>5, <1>6, <1>8, <1>12, <2>4, <3>2
      <4> QED BY <4>1
    <3> QED BY <3>1, <3>2
  <2>5. TailInv'
    BY <1>1, <1>4, <1>12, <2>1, <2>2, <2>3, <2>4 DEF TailInv
  <2>6. \A i \in DOMAIN AllParts : i < step' /\ Present(AllParts[i])' => placed'[AllParts[i]] # -1
    <3> SUFFICES ASSUME NEW i \in 1 .. 12, i < k + 1, Present(AllParts[i])
                 PROVE  placed'[AllParts[i]] # -1
      BY <1>6, <1>12
    <3>1. CASE AllParts[i] = AllParts[k]
      BY <1>1, <1>5, <1>12, <3>1
    <3>2. CASE AllParts[i] # AllParts[k]
      <4>1. i < step
        BY <1>1, <1>4, <3>2
      <4>2. placed[AllParts[i]] # -1
        BY <4>1 DEF TablesInv
      <4>3. placed'[AllParts[i]] = placed[AllParts[i]]
        BY <1>12, <3>2, PartFacts
      <4> QED BY <4>2, <4>3
    <3> QED BY <3>1, <3>2
  <2>7. (step' > 0 /\ "serialize" \notin Faults => serialized') /\ step' # StepPad
    BY <1>1, <1>4, <1>12 DEF TablesInv
  <2>8. TablesInv'
    BY <2>6, <2>7 DEF TablesInv
  <2> QED BY <1>7, <1>10, <2>5, <2>8
<1> QED BY <1>4, <1>11, <1>12

\* The other steps of the tail leave the size alone.
LEMMA OtherTailSpace ==
    ASSUME IInv, TailInv, TablesInv, LifeInv, DOMAIN placed = Parts,
           \/ Serialize \/ WriteOptions \/ WriteSuperblock
           \/ \E k \in DOMAIN AllParts : SkipPart(k) \/ ReadSize(k)
    PROVE  TailInv' /\ TablesInv' /\ UNCHANGED <<disk, size>> /\ DOMAIN placed' = Parts
<1> USE StepFacts
<1>1. size \in Nat /\ OptionSize \in Nat /\ SuperblockSize \in Nat /\ step \in -1 .. 15
  BY SizesAreNat DEF IInv, TypeOK, LifeInv
<1>2. OptionArea \notin TableArea /\ SuperblockArea \notin TableArea
  BY PartFacts DEF OptionArea, SuperblockArea, TableArea
<1>3. CASE Serialize
  <2>1. /\ UNCHANGED <<disk, fragments, size, pc, loc, placed, areas, super>> /\ step = 0 /\ step' = 1
        /\ serialized' \in IF "serialize" \in Faults /\ ~serialized THEN BOOLEAN ELSE {TRUE}
    BY <1>3 DEF Serialize, InTail, vars, bulkVars
  <2>2. DiskEnd' = DiskEnd /\ \A p : Present(p)' <=> Present(p)
    BY <2>1 DEF DiskEnd, Present
  <2>3. loc = -1
    BY <2>1 DEF TailInv
  <2>4. TailInv'
    BY <2>1, <2>2, <2>3 DEF TailInv
  <2>5. "serialize" \notin Faults => serialized'
    BY <2>1
  <2>6. TablesInv'
    BY <2>1, <2>5 DEF TablesInv
  <2> QED BY <2>1, <2>4, <2>6
<1>4. ASSUME NEW k \in DOMAIN AllParts, ReadSize(k)
      PROVE  TailInv' /\ TablesInv' /\ UNCHANGED <<disk, size>> /\ DOMAIN placed' = Parts
  <2>1. /\ UNCHANGED <<disk, fragments, size, pc, step, placed, areas, super, serialized>> /\ step = k
        /\ loc' = size /\ Present(AllParts[k]) /\ pc[Main] = "finished"
    BY <1>4 DEF ReadSize, InTail, vars, bulkVars
  <2>2. DiskEnd' = DiskEnd /\ \A p : Present(p)' <=> Present(p)
    BY <2>1 DEF DiskEnd, Present
  <2>3. TailInv'
    BY <2>1, <2>2 DEF TailInv
  <2>4. TablesInv'
    BY <2>1, <2>2 DEF TablesInv, Superblock
  <2> QED BY <2>1, <2>3, <2>4
<1>5. ASSUME NEW k \in DOMAIN AllParts, SkipPart(k)
      PROVE  TailInv' /\ TablesInv' /\ UNCHANGED <<disk, size>> /\ DOMAIN placed' = Parts
  <2>1. /\ UNCHANGED <<disk, fragments, size, pc, loc, areas, super, serialized>> /\ step = k
        /\ step' = k + 1 /\ ~Present(AllParts[k])
        /\ placed' = placed \/ placed' = [placed EXCEPT !["frag_index"] = size]
    BY <1>5 DEF SkipPart, InTail, vars, bulkVars
  <2>2. DiskEnd' = DiskEnd /\ \A p : Present(p)' <=> Present(p)
    BY <2>1 DEF DiskEnd, Present
  <2>3. loc = -1
    BY <2>1 DEF TailInv
  <2>4. TailInv'
    BY <2>1, <2>2, <2>3 DEF TailInv
  <2>5. DOMAIN placed' = Parts /\ \A p \in Parts : placed[p] # -1 => placed'[p] # -1
    BY <1>1, <2>1
  <2>6. \A i \in DOMAIN AllParts : i < step' /\ Present(AllParts[i])' => placed'[AllParts[i]] # -1
    <3> SUFFICES ASSUME NEW i \in 1 .. 12, i < k + 1, Present(AllParts[i])
                 PROVE  placed'[AllParts[i]] # -1
      BY <2>1, <2>2
    <3>1. i < step
      BY <2>1
    <3>2. placed[AllParts[i]] # -1
      BY <3>1 DEF TablesInv
    <3> QED BY <2>5, <3>2, PartFacts
  <2>7. (step' > 0 /\ "serialize" \notin Faults => serialized') /\ step' # StepPad
    BY <2>1 DEF TablesInv
  <2>8. TablesInv'
    BY <2>6, <2>7 DEF TablesInv
  <2> QED BY <2>1, <2>4, <2>5, <2>8
<1>6. CASE WriteOptions
  <2>1. /\ UNCHANGED <<disk, fragments, size, pc, loc, placed, super, serialized>> /\ step = 13
        /\ \/ areas' = areas \cup {OptionArea} /\ step' = 14 /\ OptionSize # 0
           \/ areas' = areas /\ step' = 14 /\ OptionSize = 0
           \/ areas' = areas /\ step' = -1
    BY <1>6 DEF WriteOptions, InTail, vars, bulkVars, OptionArea
  <2>2. DiskEnd' = DiskEnd /\ \A p : Present(p)' <=> Present(p)
    BY <2>1 DEF DiskEnd, Present
  <2>3. loc = -1
    BY <2>1 DEF TailInv
  <2>4. areas' \cap TableArea = areas \cap TableArea /\ areas \subseteq areas'
    BY <1>2, <2>1
  <2>5. TailInv'
    BY <2>1, <2>2, <2>3, <2>4 DEF TailInv
  <2>6. \A i \in DOMAIN AllParts : i < step' /\ Present(AllParts[i])' => placed'[AllParts[i]] # -1
    BY <2>1, <2>2 DEF TablesInv
  <2>7. TablesInv'
    BY <2>1, <2>6 DEF TablesInv
  <2> QED BY <2>1, <2>5, <2>7
<1>7. CASE WriteSuperblock
  <2>1. /\ UNCHANGED <<disk, fragments, size, pc, loc, placed, serialized>> /\ step = 14
        /\ \/ areas' = areas \cup {SuperblockArea} /\ step' = 15 /\ super' = Superblock
           \/ areas' = areas /\ step' = -1
    BY <1>7 DEF WriteSuperblock, InTail, vars, bulkVars, SuperblockArea
  <2>2. DiskEnd' = DiskEnd /\ (\A p : Present(p)' <=> Present(p)) /\ Superblock' = Superblock
    BY <2>1 DEF DiskEnd, Present, Superblock
  <2>3. loc = -1
    BY <2>1 DEF TailInv
  <2>4. areas' \cap TableArea = areas \cap TableArea /\ areas \subseteq areas'
    BY <1>2, <2>1
  <2>5. TailInv'
    BY <2>1, <2>2, <2>3, <2>4 DEF TailInv
  <2>6. \A i \in DOMAIN AllParts : i < step' /\ Present(AllParts[i])' => placed'[AllParts[i]] # -1
    BY <2>1, <2>2 DEF TablesInv
  <2>7. TablesInv'
    BY <2>1, <2>2, <2>6 DEF TablesInv
  <2> QED BY <2>1, <2>5, <2>7
<1> QED BY <1>3, <1>4, <1>5, <1>6, <1>7

LEMMA InitSpace == ImageInit => SpaceInv
<1> SUFFICES ASSUME ImageInit PROVE SpaceInv
  OBVIOUS
<1>1. Init /\ step = 0 /\ loc = -1 /\ placed = [p \in Parts |-> -1] /\ areas = {}
  BY DEF ImageInit
<1>2. PlaceInv /\ DiskShape
  BY <1>1, InitImage DEF ImageInv, PlaceInv
<1>3. disk = <<>> /\ size = DataStart /\ mayAdd = TRUE
  BY <1>1 DEF Init
<1>4. DiskEnd <= size /\ ~DataComplete
  BY <1>3, BoundsAreNat DEF DiskEnd, DataComplete
<1> QED BY <1>1, <1>2, <1>4 DEF SpaceInv, BeforeTail

LEMMA NextSpace ==
    ASSUME DataInImage, WorkersHealthy, ReportInv, LifeInv, SpaceInv, [ImageNext]_allVars
    PROVE  SpaceInv'
<1> USE StepFacts
<1>1. /\ IInv /\ PackInv /\ ContentInv /\ EndInv /\ DiskShape /\ DiskEnd <= size
      /\ DOMAIN placed = Parts /\ pc \in [Threads -> PcValues] /\ Main \in Threads
  BY StateFacts DEF DataInImage, SpaceInv, Threads
<1>2. IInv'
  BY NextDataInImage DEF DataInImage, ReportInv
<1>3. CASE ~DataComplete
  <2>1. BeforeTail' /\ DiskEnd' <= size' /\ placed' = placed
    BY <1>1, <1>3, NextBeforeTail DEF SpaceInv
  <2>2. DiskShape'
    BY <2>1 DEF BeforeTail, PlaceInv
  <2>3. DataComplete' => TailInv' /\ TablesInv'
    BY <1>2, <2>1, TailBeginsNext
  <2> QED BY <1>1, <2>1, <2>2, <2>3 DEF SpaceInv
<1>4. CASE DataComplete
  <2>1. TailInv /\ TablesInv /\ finished = count /\ ~mayAdd
        /\ pc[Main] \notin {"app", "abort_app", "seal_enqueue"}
    BY <1>4 DEF SpaceInv, DataComplete
  <2>2. ASSUME UNCHANGED <<disk, size>>
        PROVE  DiskShape' /\ DiskEnd' <= size'
    BY <1>1, <2>2 DEF DiskShape, DiskEnd
  <2>3. CASE Pipeline
    <3>1. UNCHANGED <<size, disk, fragments>> /\ DataComplete'
      BY <1>1, <1>4, <2>3, CompleteStays DEF Pipeline
    <3>2. UNCHANGED <<step, loc, placed, areas, serialized, super>>
      BY <2>3 DEF Pipeline, tailVars
    <3>3. pc[Main] = "finished" => pc'[Main] = "finished"
      <4>1. \A t \in Threads : pc[t] \notin AtFault
        BY DEF LifeInv, AtFault
      <4> QED BY <1>1, <2>3, <4>1, HealthyPipeline DEF Pipeline, Outside
    <3>4. loc # -1 => pc[Main] = "finished"
      BY <2>1 DEF TailInv
    <3>5. step' = 0 => step # Failed
      BY <3>2
    <3>6. TailInv' /\ TablesInv'
      BY <2>1, <3>1, <3>2, <3>3, <3>4, <3>5, TailFrame
    <3> QED BY <1>1, <2>2, <3>1, <3>2, <3>6 DEF SpaceInv
  <2>4. CASE SetRoot \/ JoinAndFree \/ ErrorClear \/ UNCHANGED allVars
    <3>1. UNCHANGED <<size, disk, fragments, finished, count, mayAdd, pc>>
          /\ UNCHANGED <<step, loc, placed, areas, serialized, super>>
      BY <2>4 DEF SetRoot, JoinAndFree, ErrorClear, allVars, vars, bulkVars, tailVars
    <3>2. DataComplete'
      BY <2>1, <3>1 DEF DataComplete
    <3>3. loc # -1 => pc[Main] = "finished"
      BY <2>1 DEF TailInv
    <3>4. TailInv' /\ TablesInv'
      BY <2>1, <3>1, <3>3, TailFrame
    <3> QED BY <1>1, <2>2, <3>1, <3>2, <3>4 DEF SpaceInv
  <2>5. CASE Finish \/ FinalizeFailed \/ \E close \in BOOLEAN : FinalizeImage(close)
    <3>1. PICK v : MainMove(v)
      BY <1>1, <2>5, MainMoves
    <3>2. UNCHANGED <<size, disk, fragments, finished, count, mayAdd>>
      BY <3>1 DEF MainMove, bulkVars
    <3>3. pc'[Main] \notin {"app", "abort_app", "seal_enqueue"}
      BY <1>1, <3>1 DEF MainMove
    <3>4. DataComplete'
      BY <2>1, <3>2, <3>3 DEF DataComplete
    <3>5. UNCHANGED <<loc, placed, areas, serialized, super>> /\ step' \in {step, Failed, 0}
      BY <2>5 DEF Finish, FinalizeFailed, FinalizeImage, tailVars
    <3>6. loc = -1
      <4>1. CASE Finish \/ FinalizeFailed
        <5>1. step \in {15, -1}
          BY <4>1 DEF Finish, FinalizeFailed, InTail
        <5> QED BY <2>1, <5>1 DEF TailInv
      <4>2. CASE \E close \in BOOLEAN : FinalizeImage(close)
        BY <2>1, <4>2 DEF FinalizeImage, TailInv
      <4> QED BY <2>5, <4>1, <4>2
    <3>7. ASSUME step' = 0, step = Failed PROVE FALSE
      <4>1. \E close \in BOOLEAN : FinalizeImage(close)
        BY <2>5, <3>7 DEF Finish, FinalizeFailed, tailVars
      <4>2. imgState = "building" /\ pc[Main] \in {"app", "returned"}
        BY <3>7, <4>1 DEF FinalizeImage, MayFinalize
      <4> QED BY <3>7, <4>2 DEF LifeInv
    <3>8. TailInv' /\ TablesInv'
      BY <2>1, <3>2, <3>5, <3>6, <3>7, TailFrame
    <3> QED BY <1>1, <2>2, <3>2, <3>4, <3>5, <3>8 DEF SpaceInv
  <2>6. CASE \/ Serialize \/ WriteOptions \/ WriteSuperblock
             \/ \E k \in DOMAIN AllParts : SkipPart(k) \/ ReadSize(k)
    <3>1. TailInv' /\ TablesInv' /\ UNCHANGED <<disk, size>> /\ DOMAIN placed' = Parts
      BY <1>1, <2>1, <2>6, OtherTailSpace
    <3>2. UNCHANGED <<pc, finished, count, mayAdd>>
      BY <2>6, TailGoes
    <3>3. DataComplete'
      BY <2>1, <3>2 DEF DataComplete
    <3> QED BY <2>2, <3>1, <3>3 DEF SpaceInv
  <2>7. ASSUME NEW k \in DOMAIN AllParts, WritePart(k) PROVE SpaceInv'
    <3>1. TailInv' /\ TablesInv' /\ DiskEnd' <= size' /\ DOMAIN placed' = Parts
      BY <1>1, <2>1, <2>7, WritePartSpace
    <3>2. UNCHANGED <<disk, pc, finished, count, mayAdd>>
      BY <2>7, TailGoes
    <3>3. DataComplete' /\ DiskShape'
      BY <1>1, <2>1, <3>2 DEF DataComplete, DiskShape
    <3> QED BY <3>1, <3>3 DEF SpaceInv
  <2> QED BY <2>3, <2>4, <2>5, <2>6, <2>7 DEF ImageNext, TailStep
<1> QED BY <1>3, <1>4

\* The life and the space of an image, if no thread fails at work.  Everything else may
\* fail: the closing piece, the tree, the tables and the padding.
THEOREM SpaceInvariant ==
    ASSUME WorkersHealthy
    PROVE  ImageSpec => [](DataInImage /\ LifeInv /\ SpaceInv)
<1>1. ImageInit => LifeInv /\ SpaceInv
  BY InitLife, InitSpace
<1>2. DataInImage /\ ReportInv /\ LifeInv /\ SpaceInv /\ [ImageNext]_allVars => (LifeInv /\ SpaceInv)'
  <2> SUFFICES ASSUME DataInImage, ReportInv, LifeInv, SpaceInv, [ImageNext]_allVars
               PROVE  (LifeInv /\ SpaceInv)'
    OBVIOUS
  <2>1. IInv
    BY DEF DataInImage
  <2> QED BY <2>1, NextLife, NextSpace
<1> QED BY <1>1, <1>2, PipelineInImage, PTL DEF ImageSpec

LEMMA SpaceDisjoint == IInv /\ SpaceInv => AreasDisjoint
<1> SUFFICES ASSUME IInv, SpaceInv PROVE AreasDisjoint
  OBVIOUS
<1> USE StepFacts
<1>1. /\ DiskShape /\ DiskEnd <= size /\ DiskEnd \in Int /\ DiskEnd >= DataStart /\ size \in Nat
      /\ DataStart = SuperblockSize + OptionSize /\ SuperblockSize \in Nat /\ OptionSize \in Nat
  BY DiskEndFacts, HeaderFits, SizesAreNat DEF SpaceInv
<1>2. ASSUME NEW b \in BlockAreas
      PROVE  /\ b.at \in Int /\ b.len \in Nat /\ DataStart <= b.at /\ b.at + b.len <= DiskEnd
  <2>1. PICK i \in DOMAIN disk : b = [at |-> disk[i].offset, len |-> disk[i].size]
    BY <1>2 DEF BlockAreas
  <2>2. b.at = disk[i].offset /\ b.len = disk[i].size
    BY <2>1
  <2> QED BY <1>1, <2>2, BlocksWithin
<1>3. CASE ~DataComplete
  <2>1. areas = {}
    BY <1>3 DEF SpaceInv, BeforeTail
  <2> QED BY <1>1, <1>2, <2>1 DEF AreasDisjoint
<1>4. CASE DataComplete
  <2>1. TailInv
    BY <1>4 DEF SpaceInv
  <2>2. /\ OptionArea.at = SuperblockSize /\ OptionArea.len = OptionSize
        /\ SuperblockArea.at = 0 /\ SuperblockArea.len = SuperblockSize
    BY DEF OptionArea, SuperblockArea
  <2>3. \A a \in areas : \/ a = OptionArea \/ a = SuperblockArea
                         \/ /\ a \in areas \cap TableArea /\ a.at \in Nat /\ a.len \in Nat
                            /\ DiskEnd <= a.at /\ a.at + a.len <= size
    BY <2>1 DEF TailInv, TableArea
  <2>4. ASSUME NEW a \in areas, NEW b \in areas, a # b PROVE ~Overlap(a, b)
    <3>1. CASE a \in TableArea /\ b \in TableArea
      BY <2>1, <2>4, <3>1 DEF TailInv
    <3>2. CASE ~(a \in TableArea /\ b \in TableArea)
      BY <1>1, <2>2, <2>3, <2>4, <3>2 DEF Overlap
    <3> QED BY <3>1, <3>2
  <2>5. ASSUME NEW a \in areas, NEW b \in BlockAreas PROVE ~Overlap(a, b)
    <3>1. b.at \in Int /\ b.len \in Nat /\ DataStart <= b.at /\ b.at + b.len <= DiskEnd
      BY <1>2, <2>5
    <3> QED BY <1>1, <2>2, <2>3, <2>5, <3>1 DEF Overlap
  <2>6. ASSUME NEW a \in areas \cup BlockAreas PROVE a.at + a.len <= size
    <3>1. CASE a \in areas
      BY <1>1, <2>2, <2>3, <3>1
    <3>2. CASE a \in BlockAreas
      BY <1>1, <1>2, <3>2
    <3> QED BY <2>6, <3>1, <3>2
  <2> QED BY <2>4, <2>5, <2>6 DEF AreasDisjoint
<1> QED BY <1>3, <1>4

\* What a finalized image is like inside.
LEMMA FinalizedFacts ==
    ASSUME LifeInv, SpaceInv, imgState = "finalized"
    PROVE  DataComplete /\ TailInv /\ TablesInv /\ step = StepPad
<1>1. step = StepPad
  BY DEF LifeInv
<1> QED BY <1>1, StepFacts DEF SpaceInv, BeforeTail

\* No part of the image is written over another one: the tables and the headers keep
\* clear of each other and of every block the pipeline writes.  (When a thread fails at
\* work, the tables may race with the threads that are still writing.)
THEOREM SpaceNotSharedTwice ==
    ASSUME WorkersHealthy
    PROVE  ImageSpec => []AreasDisjoint
<1>1. DataInImage => IInv
  BY DEF DataInImage
<1> QED BY <1>1, SpaceDisjoint, SpaceInvariant, PTL

\* A finalized image has no holes: what finalize and the pipeline have written covers it.
THEOREM ImageFilled ==
    ASSUME WorkersHealthy
    PROVE  ImageSpec => []NoHoles
<1>1. DataInImage /\ LifeInv /\ SpaceInv => NoHoles
  <2> SUFFICES ASSUME DataInImage, LifeInv, SpaceInv, imgState = "finalized",
                      NEW x \in 0 .. size - 1
               PROVE  \E a \in areas \cup BlockAreas : a.at <= x /\ x < a.at + a.len
    BY DEF NoHoles
  <2> USE StepFacts
  <2>1. TailInv /\ step = 15 /\ IInv /\ DiskShape
    BY FinalizedFacts DEF DataInImage, SpaceInv
  <2>2. /\ DiskEnd \in Int /\ size \in Nat /\ DataStart = SuperblockSize + OptionSize
        /\ SuperblockSize \in Nat /\ OptionSize \in Nat /\ x \in Nat
    BY <2>1, DiskEndFacts, HeaderFits, SizesAreNat
  <2>3. CASE x < SuperblockSize
    <3>1. SuperblockArea \in areas /\ SuperblockArea.at = 0 /\ SuperblockArea.len = SuperblockSize
      BY <2>1 DEF TailInv, SuperblockArea
    <3> QED BY <2>2, <2>3, <3>1
  <2>4. CASE SuperblockSize <= x /\ x < DataStart
    <3>1. OptionSize # 0
      BY <2>2, <2>4
    <3>2. OptionArea \in areas /\ OptionArea.at = SuperblockSize /\ OptionArea.len = OptionSize
      BY <2>1, <3>1 DEF TailInv, OptionArea
    <3> QED BY <2>2, <2>4, <3>2
  <2>5. CASE DataStart <= x /\ x < DiskEnd
    <3>1. PICK i \in DOMAIN disk : disk[i].offset <= x /\ x < disk[i].offset + disk[i].size
      BY <2>1, <2>2, <2>5, BlocksCover
    <3>2. PICK a : a = [at |-> disk[i].offset, len |-> disk[i].size]
      OBVIOUS
    <3>3. a \in BlockAreas /\ a.at = disk[i].offset /\ a.len = disk[i].size
      BY <3>2 DEF BlockAreas
    <3> QED BY <3>1, <3>3
  <2>6. CASE DiskEnd <= x
    <3>1. x \in DiskEnd .. size - 1
      BY <2>2, <2>6
    <3>2. \E a \in areas : a.at <= x /\ x < a.at + a.len
      BY <2>1, <3>1 DEF TailInv
    <3> QED BY <3>2
  <2> QED BY <2>2, <2>3, <2>4, <2>5, <2>6
<1> QED BY <1>1, SpaceInvariant, PTL

\* A finalized image is complete: all data are written, the tree is serialized, and the
\* superblock has the place of every table.  (Two things go unnoticed by finalize and
\* are excluded: a thread that fails at work, and a tree that cannot be serialized.)
THEOREM FinalizedIsComplete ==
    ASSUME WorkersHealthy, "serialize" \notin Faults
    PROVE  ImageSpec => []FinalizedMeansComplete
<1>1. LifeInv /\ SpaceInv => FinalizedMeansComplete
  <2> SUFFICES ASSUME LifeInv, SpaceInv, imgState = "finalized"
               PROVE  /\ finished = count /\ ~mayAdd
                      /\ serialized
                      /\ \A p \in Parts : Present(p) => placed[p] # -1 /\ super.tables[p] = placed[p]
                      /\ super.used = size /\ super.fragments = Len(fragments)
    BY DEF FinalizedMeansComplete
  <2> USE StepFacts
  <2>1. DataComplete /\ TablesInv /\ step = 15
    BY FinalizedFacts
  <2>2. serialized /\ super = Superblock
    BY <2>1 DEF TablesInv
  <2>3. super.used = size /\ super.tables = placed /\ super.fragments = Len(fragments)
    BY <2>2 DEF Superblock
  <2>4. ASSUME NEW p \in Parts, Present(p) PROVE placed[p] # -1
    <3>1. PICK i \in 1 .. 12 : p = AllParts[i]
      BY <2>4 DEF Parts
    <3>2. i < step
      BY <2>1
    <3> QED BY <2>1, <2>4, <3>1, <3>2 DEF TablesInv
  <2> QED BY <2>1, <2>2, <2>3, <2>4 DEF DataComplete
<1> QED BY <1>1, SpaceInvariant, PTL

=============================================================================

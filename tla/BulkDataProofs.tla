--------------------------- MODULE BulkDataProofs ---------------------------
(***************************************************************************)
(* Proofs about BulkData, for any set of workers, any number of chunks,    *)
(* any submissions and any set of faults: the work queues (IInv), and the  *)
(* fragment blocks, which are packed in the order of submission, whatever  *)
(* the order in which threads read the pieces and find their predecessors  *)
(* assigned (PackInv).                                                     *)
(***************************************************************************)
EXTENDS BulkDataInvariants, TLAPS

-----------------------------------------------------------------------------
(* The queue operations.                                                   *)

\* Pushing to the front of a queue adds the chunk, and keeps the queue free of
\* repetitions if the chunk was not in it.
LEMMA ConsFacts ==
    ASSUME NEW S, NEW q \in Seq(S), NEW c \in S
    PROVE  /\ <<c>> \o q \in Seq(S)
           /\ Elems(<<c>> \o q) = {c} \cup Elems(q)
           /\ Distinct(q) /\ c \notin Elems(q) => Distinct(<<c>> \o q)
<1> DEFINE p == <<c>> \o q
<1>1. p \in Seq(S) /\ Len(p) = Len(q) + 1 /\ p[1] = c
  OBVIOUS
<1>2. \A i \in 1 .. Len(q) : p[i + 1] = q[i]
  OBVIOUS
<1>3. \A i \in 2 .. Len(p) : p[i] = q[i - 1] /\ i - 1 \in 1 .. Len(q)
  BY <1>1, <1>2
<1>4. DOMAIN p = 1 .. Len(p) /\ DOMAIN q = 1 .. Len(q)
  BY <1>1
<1> HIDE DEF p
<1>5. Elems(p) = {c} \cup Elems(q)
  <2>1. ASSUME NEW x \in Elems(p) PROVE x \in {c} \cup Elems(q)
    BY <1>1, <1>3, <1>4 DEF Elems
  <2>2. c \in Elems(p)
    BY <1>1, <1>4 DEF Elems
  <2>3. ASSUME NEW x \in Elems(q) PROVE x \in Elems(p)
    <3>1. PICK i \in DOMAIN q : x = q[i]
      BY DEF Elems
    <3>2. i + 1 \in DOMAIN p /\ p[i + 1] = x
      BY <3>1, <1>1, <1>2, <1>4
    <3> QED BY <3>2 DEF Elems
  <2> QED BY <2>1, <2>2, <2>3
<1>6. ASSUME Distinct(q), c \notin Elems(q) PROVE Distinct(p)
  <2> SUFFICES ASSUME NEW i \in DOMAIN p, NEW j \in DOMAIN p, p[i] = p[j]
               PROVE  i = j
    BY DEF Distinct
  <2>1. \A k \in 2 .. Len(p) : p[k] # c
    BY <1>3, <1>4, <1>6 DEF Elems
  <2>2. CASE i = 1 \/ j = 1
    BY <1>1, <1>4, <2>1, <2>2
  <2>3. CASE i # 1 /\ j # 1
    <3>1. i \in 2 .. Len(p) /\ j \in 2 .. Len(p)
      BY <1>1, <1>4, <2>3
    <3>2. i - 1 \in DOMAIN q /\ j - 1 \in DOMAIN q /\ q[i - 1] = q[j - 1]
      BY <1>3, <1>4, <3>1
    <3>3. i - 1 = j - 1
      BY <1>6, <3>2 DEF Distinct
    <3> QED BY <3>1, <3>3
  <2> QED BY <2>2, <2>3
<1> QED BY <1>1, <1>5, <1>6 DEF p

\* Popping a queue removes its head.
LEMMA TailFacts ==
    ASSUME NEW S, NEW q \in Seq(S), q # <<>>, Distinct(q)
    PROVE  /\ Tail(q) \in Seq(S)
           /\ Head(q) \in S /\ Head(q) \in Elems(q)
           /\ Elems(Tail(q)) = Elems(q) \ {Head(q)}
           /\ Distinct(Tail(q))
<1> DEFINE p == Tail(q)
<1>1. p \in Seq(S) /\ Len(p) = Len(q) - 1 /\ Head(q) = q[1] /\ Len(q) >= 1
  OBVIOUS
<1>2. \A i \in 1 .. Len(p) : p[i] = q[i + 1]
  OBVIOUS
<1>3. DOMAIN p = 1 .. Len(p) /\ DOMAIN q = 1 .. Len(q)
  BY <1>1
<1> HIDE DEF p
<1>4. Head(q) \in S /\ Head(q) \in Elems(q)
  BY <1>1, <1>3 DEF Elems
<1>5. Distinct(p)
  BY <1>1, <1>2, <1>3 DEF Distinct
<1>6. Elems(p) \subseteq Elems(q) \ {Head(q)}
  BY <1>1, <1>2, <1>3 DEF Elems, Distinct
<1>7. ASSUME NEW x \in Elems(q) \ {Head(q)} PROVE x \in Elems(p)
  <2>1. PICK i \in DOMAIN q : x = q[i]
    BY DEF Elems
  <2>2. i # 1 /\ i - 1 \in DOMAIN p /\ p[i - 1] = q[i]
    BY <2>1, <1>1, <1>2, <1>3
  <2> QED BY <2>1, <2>2 DEF Elems
<1> QED BY <1>1, <1>4, <1>5, <1>6, <1>7 DEF p

\* Appending to a queue.
LEMMA AppendFacts ==
    ASSUME NEW S, NEW q \in Seq(S), NEW c \in S
    PROVE  /\ Append(q, c) \in Seq(S)
           /\ Elems(Append(q, c)) = Elems(q) \cup {c}
           /\ Distinct(q) /\ c \notin Elems(q) => Distinct(Append(q, c))
<1> DEFINE p == Append(q, c)
<1>1. p \in Seq(S) /\ Len(p) = Len(q) + 1 /\ p[Len(q) + 1] = c
  OBVIOUS
<1>2. \A i \in 1 .. Len(q) : p[i] = q[i]
  OBVIOUS
<1>3. DOMAIN p = 1 .. Len(p) /\ DOMAIN q = 1 .. Len(q) /\ Len(q) \in Nat
  BY <1>1
<1> HIDE DEF p
<1>4. Elems(p) = Elems(q) \cup {c}
  BY <1>1, <1>2, <1>3 DEF Elems
<1>5. ASSUME Distinct(q), c \notin Elems(q) PROVE Distinct(p)
  BY <1>1, <1>2, <1>3, <1>5 DEF Elems, Distinct
<1> QED BY <1>1, <1>4, <1>5 DEF p

\* The same facts for the function of the five queues.
QueuesOK(q) == q \in [Stages -> Seq(Ids)] /\ \A s \in Stages : Distinct(q[s])

\* The queues q2 are q with chunk c added to, or removed from, the queue of stage s.
Added(q, q2, s, c) ==
    /\ QueuesOK(q2)
    /\ \A r \in Stages : Elems(q2[r]) =
          IF r = s THEN {c} \cup Elems(q[r]) ELSE Elems(q[r])
Removed(q, q2, s, c) ==
    /\ QueuesOK(q2)
    /\ c \in Ids /\ c \in Elems(q[s])
    /\ \A r \in Stages : Elems(q2[r]) = IF r = s THEN Elems(q[r]) \ {c} ELSE Elems(q[r])

LEMMA PushFrontFacts ==
    ASSUME NEW q, QueuesOK(q), NEW s \in Stages, NEW c \in Ids, c \notin Elems(q[s])
    PROVE  Added(q, PushFront(q, s, c), s, c)
<1>1. q[s] \in Seq(Ids) /\ Distinct(q[s])
  BY DEF QueuesOK
<1>2. /\ <<c>> \o q[s] \in Seq(Ids)
      /\ Elems(<<c>> \o q[s]) = {c} \cup Elems(q[s])
      /\ Distinct(<<c>> \o q[s])
  BY <1>1, ConsFacts
<1>3. /\ PushFront(q, s, c) \in [Stages -> Seq(Ids)]
      /\ PushFront(q, s, c)[s] = <<c>> \o q[s]
      /\ \A r \in Stages \ {s} : PushFront(q, s, c)[r] = q[r]
  BY <1>2 DEF QueuesOK, PushFront
<1> QED BY <1>2, <1>3 DEF QueuesOK, Added

LEMMA PushBackFacts ==
    ASSUME NEW q, QueuesOK(q), NEW s \in Stages, NEW c \in Ids, c \notin Elems(q[s])
    PROVE  Added(q, PushBack(q, s, c), s, c)
<1>1. q[s] \in Seq(Ids) /\ Distinct(q[s])
  BY DEF QueuesOK
<1>2. /\ Append(q[s], c) \in Seq(Ids)
      /\ Elems(Append(q[s], c)) = {c} \cup Elems(q[s])
      /\ Distinct(Append(q[s], c))
  BY <1>1, AppendFacts
<1>3. /\ PushBack(q, s, c) \in [Stages -> Seq(Ids)]
      /\ PushBack(q, s, c)[s] = Append(q[s], c)
      /\ \A r \in Stages \ {s} : PushBack(q, s, c)[r] = q[r]
  BY <1>2 DEF QueuesOK, PushBack
<1> QED BY <1>2, <1>3 DEF QueuesOK, Added

LEMMA PopFacts ==
    ASSUME NEW q, QueuesOK(q), NEW s \in Stages, q[s] # <<>>
    PROVE  Removed(q, Pop(q, s), s, Head(q[s]))
<1>1. q[s] \in Seq(Ids) /\ Distinct(q[s])
  BY DEF QueuesOK
<1>2. /\ Tail(q[s]) \in Seq(Ids)
      /\ Head(q[s]) \in Ids /\ Head(q[s]) \in Elems(q[s])
      /\ Elems(Tail(q[s])) = Elems(q[s]) \ {Head(q[s])}
      /\ Distinct(Tail(q[s]))
  BY <1>1, TailFacts
<1>3. /\ Pop(q, s) \in [Stages -> Seq(Ids)]
      /\ Pop(q, s)[s] = Tail(q[s])
      /\ \A r \in Stages \ {s} : Pop(q, s)[r] = q[r]
  BY <1>2 DEF QueuesOK, Pop
<1> QED BY <1>2, <1>3 DEF QueuesOK, Removed

\* Empty queues hold nothing.
LEMMA EmptyFacts ==
    QueuesOK(EmptyQueues) /\ \A r \in Stages : Elems(EmptyQueues[r]) = {}
BY DEF EmptyQueues, QueuesOK, Elems, Distinct

-----------------------------------------------------------------------------
(* Steps that move one thread and leave the pipeline alone.                *)

\* Where the application thread is before the closing piece exists.
BeforeClosing == {"app", "abort_app", "seal_enqueue"}

\* Thread t moves to v, without taking up a chunk.
QuietMove(t, v) ==
    /\ v \in PcValues \ Holding
    /\ UNCHANGED bulkVars
    /\ pc' = [pc EXCEPT ![t] = v]
    /\ cur' \in {cur, [cur EXCEPT ![t] = 0]}
    /\ v = "loop" => Unlocked
    /\ t = Main /\ v \in BeforeClosing => mayAdd \/ pc[Main] \in BeforeClosing
    /\ imgState' \in {"building", "fatal_error", "finalized"}
    /\ spurious' \in 0 .. MaxSpurious

LEMMA PcStep ==
    ASSUME IInv, NEW t \in Threads, NEW v, QuietMove(t, v)
    PROVE  IInv'
<1> USE DEF IInv, QuietMove
<1>1. TypeOK'
  <2>1. 0 \in Ids0
    BY BoundsAreNat DEF Ids0
  <2>2. cur' \in [Threads -> Ids0]
    BY <2>1 DEF TypeOK
  <2>3. pc' \in [Threads -> PcValues]
    BY DEF TypeOK
  <2> QED BY <2>2, <2>3 DEF TypeOK, bulkVars
<1>2. LockInv'
  BY DEF LockInv, Unlocked, TypeOK
<1>3. \A u \in Threads : pc'[u] \in Holding =>
        u # t /\ pc'[u] = pc[u] /\ cur'[u] = cur[u]
  BY DEF TypeOK
<1>4. UnusedInv'
  BY <1>3 DEF UnusedInv, bulkVars
<1>5. StageInv'
  <2>1. AssertionsHold'
    BY <1>3 DEF StageInv, AssertionsHold, bulkVars, WritesBlock, IsBlock
  <2> QED BY <2>1, <1>3 DEF StageInv, bulkVars, WritesBlock, IsBlock, Holding
<1>6. WriteoutInOrder'
  BY <1>3 DEF WriteoutInOrder, bulkVars, Holding
<1>7. PieceInv'
  BY DEF PieceInv, bulkVars, IsClosing, PredecessorAssigned, BeforeClosing, TypeOK
<1>8. FragmentInv'
  BY DEF FragmentInv, bulkVars, PredecessorAssigned
<1> QED BY <1>1, <1>2, <1>4, <1>5, <1>6, <1>7, <1>8

\* All steps of that kind: the thread's own, the application's, and the errors.
QuietStep(t) ==
    \/ OpenCompressor(t) \/ OpenFail(t) \/ Enter(t) \/ SpuriousWake(t)
    \/ Exit(t) \/ Wait(t) \/ ReadFail(t) \/ WriteFail(t) \/ ReturnFailed(t)

LEMMA QuietStepInv ==
    ASSUME IInv, NEW t \in Threads, QuietStep(t)
    PROVE  IInv'
<1> USE MainNotWorker, BoundsAreNat DEF PcValues, Holding, BeforeClosing, imageVars, FlagError, Leave,
        QuietMove
<1>0. TypeOK
  BY DEF IInv
<1>1. CASE OpenCompressor(t)
  <2>1. QuietMove(t, "enter")
    BY <1>0, <1>1 DEF OpenCompressor, TypeOK
  <2> QED BY <2>1, PcStep
<1>2. CASE OpenFail(t)
  <2>1. QuietMove(t, "abort_exit")
    BY <1>0, <1>2 DEF OpenFail, TypeOK
  <2> QED BY <2>1, PcStep
<1>3. CASE Enter(t)
  <2>1. QuietMove(t, "loop")
    BY <1>0, <1>3 DEF Enter, TypeOK
  <2> QED BY <2>1, PcStep
<1>4. CASE SpuriousWake(t)
  <2>1. QuietMove(t, "enter")
    BY <1>0, <1>4 DEF SpuriousWake, TypeOK
  <2> QED BY <2>1, PcStep
<1>5. CASE Exit(t)
  <2>1. QuietMove(t, Leave(t))
    BY <1>0, <1>5 DEF Exit, TypeOK
  <2> QED BY <2>1, PcStep
<1>6. CASE Wait(t)
  <2>1. QuietMove(t, "wait")
    BY <1>0, <1>6 DEF Wait, TypeOK
  <2> QED BY <2>1, PcStep
<1>7. CASE ReadFail(t)
  <2>1. QuietMove(t, "abort_op")
    BY <1>0, <1>7 DEF ReadFail, TypeOK
  <2> QED BY <2>1, PcStep
<1>8. CASE WriteFail(t)
  <2>1. QuietMove(t, "abort_op")
    BY <1>0, <1>8 DEF WriteFail, TypeOK
  <2> QED BY <2>1, PcStep
<1>9. CASE ReturnFailed(t)
  <2>1. QuietMove(t, Leave(t))
    BY <1>0, <1>9 DEF ReturnFailed, TypeOK
  <2> QED BY <2>1, PcStep
<1> QED BY <1>1, <1>2, <1>3, <1>4, <1>5, <1>6, <1>7, <1>8, <1>9 DEF QuietStep

LEMMA QuietMainInv ==
    ASSUME IInv,
           UserAbort \/ Finalize \/ SealCheck \/ SealFail \/ \E w \in Workers : Spawn(w)
    PROVE  IInv'
<1> USE MainNotWorker, BoundsAreNat DEF PcValues, Holding, BeforeClosing, imageVars, FlagError, QuietMove
<1>0. TypeOK /\ Main \in Threads /\ Workers \subseteq Threads
  BY DEF IInv, Threads
<1>1. CASE UserAbort
  <2>1. QuietMove(Main, "abort_app")
    BY <1>0, <1>1 DEF UserAbort, TypeOK
  <2> QED BY <1>0, <2>1, PcStep
<1>2. CASE Finalize
  <2>1. QuietMove(Main, IF imgState = "building" THEN "seal" ELSE "returned")
    BY <1>0, <1>2 DEF Finalize, TypeOK
  <2> QED BY <1>0, <2>1, PcStep
<1>3. CASE SealCheck
  <2>1. QuietMove(Main, IF mayAdd THEN "seal_enqueue" ELSE "enter")
    BY <1>0, <1>3 DEF SealCheck, TypeOK
  <2> QED BY <1>0, <2>1, PcStep
<1>4. CASE SealFail
  <2>1. QuietMove(Main, "abort_finalize")
    BY <1>0, <1>4 DEF SealFail, TypeOK
  <2> QED BY <1>0, <2>1, PcStep
<1>5. ASSUME NEW w \in Workers, Spawn(w) PROVE IInv'
  <2>1. QuietMove(w, "start")
    BY <1>0, <1>5 DEF Spawn, TypeOK
  <2> QED BY <1>0, <2>1, PcStep
<1> QED BY <1>1, <1>2, <1>3, <1>4, <1>5

-----------------------------------------------------------------------------
(* Steps that move one chunk from a queue or a thread to another queue or  *)
(* thread.                                                                 *)

\* What the proofs below use of the invariant: the queues are well formed, and the
\* chunks in them and in the hands of threads are submitted ones.
LEMMA QueueFacts ==
    ASSUME IInv
    PROVE  /\ QueuesOK(workq)
           /\ \A s \in Stages : \A c \in Elems(workq[s]) :
                 c \in Ids /\ c <= count /\ state[c] = ExpectedState[s]
           /\ \A t \in Threads : pc[t] \in Holding =>
                 cur[t] \in Ids /\ cur[t] <= count /\ state[cur[t]] = ExpectedState[pc[t]]
           /\ count \in Nat /\ count <= MaxChunks /\ finished \in Nat
<1>1. QueuesOK(workq) /\ count \in Nat /\ count <= MaxChunks /\ finished \in Nat
  BY BoundsAreNat DEF IInv, TypeOK, QueuesOK, Ids0, StageInv
<1>2. ASSUME NEW s \in Stages, NEW c \in Elems(workq[s]) PROVE c \in Ids
  BY <1>1 DEF QueuesOK, Elems
<1>3. ASSUME NEW s \in Stages, NEW c \in Elems(workq[s]) PROVE c <= count
  BY <1>1, <1>2 DEF IInv, UnusedInv, Ids
<1>4. ASSUME NEW t \in Threads, pc[t] \in Holding
      PROVE  cur[t] \in Ids /\ cur[t] <= count
  BY <1>1, <1>4, BoundsAreNat DEF IInv, UnusedInv, Ids
<1> QED BY <1>1, <1>2, <1>3, <1>4 DEF IInv, StageInv, AssertionsHold

\* What a chunk d must satisfy to be put into the queue of stage s.
MayQueue(s, d) ==
    /\ d \in Ids /\ d <= count'
    /\ state'[d] = ExpectedState[s]
    /\ s = "compress" => WritesBlock(d)'
    /\ s = "assign" => PredecessorAssigned(d)'
    /\ s = "write" => d = finished' + 1

\* Thread t takes chunk c from a queue, or has held it, and moves it on; the only
\* other chunk that may enter a queue is one that becomes ready for assignment.
ChunkMove(t, c) ==
    /\ UNCHANGED <<desc, count, prevPiece, nextPiece, lastPiece, finished, mayAdd>>
    /\ c \in Ids /\ c <= count
    /\ \/ pc[t] = "loop" /\ \E s \in Stages : c \in Elems(workq[s])
       \/ pc[t] \in Holding /\ Unlocked /\ cur[t] = c
    /\ \A u \in Threads \ {t} : pc'[u] = pc[u] /\ cur'[u] = cur[u]
    /\ \A d \in Ids \ {c} : state'[d] = state[d] /\ flush'[d] = flush[d]
    /\ state'[c] >= state[c] /\ state'[c] # ChunkFinished
    /\ \A s \in Stages : Distinct(workq'[s])
    /\ \A s \in Stages : \A d \in Elems(workq'[s]) :
          \/ d # c /\ d \in Elems(workq[s])
          \/ (d = c \/ s = "assign") /\ MayQueue(s, d)
    /\ \/ pc'[t] \in {"loop", "abort_op"}
       \/ /\ pc'[t] \in Holding /\ cur'[t] = c
          /\ state'[c] = ExpectedState[pc'[t]]
          /\ c \notin Elems(workq'[pc'[t]])
          /\ pc'[t] = "write" => c = finished + 1
          /\ pc'[t] # "read" => WritesBlock(c)'

LEMMA MoveStep ==
    ASSUME IInv, NEW t \in Threads, NEW c, ChunkMove(t, c), TypeOK', FragmentInv'
    PROVE  IInv'
<1> USE DEF ChunkNone, ChunkRead, ChunkDeduplicated, ChunkAssigned, ChunkWritable,
        ChunkFinished, ChunkStates
<1>1. /\ c \in Ids /\ c <= count
      /\ state[c] # ChunkFinished
      /\ \A d \in Ids : state[d] \in Int /\ state'[d] \in Int /\ state'[d] >= state[d]
      /\ \A d \in Ids : state'[d] = ChunkFinished <=> state[d] = ChunkFinished
  <2>1. c \in Ids /\ c <= count
    BY DEF ChunkMove
  <2>2. state[c] # ChunkFinished
    BY QueueFacts DEF ChunkMove, ExpectedState, Stages, Holding
  <2>3. \A d \in Ids : state[d] \in Int /\ state'[d] \in Int
    <3>1. state \in [Ids -> ChunkStates] /\ state' \in [Ids -> ChunkStates]
      BY DEF IInv, TypeOK
    <3> QED BY <3>1
  <2> QED BY <2>1, <2>2, <2>3 DEF ChunkMove
<1>2. \A u \in Threads \ {t} : pc[u] \in Holding => cur[u] # c
  BY QueueFacts DEF ChunkMove, IInv, StageInv, Stages, Holding, ExpectedState
<1>3. LockInv'
  BY DEF IInv, LockInv, ChunkMove, Unlocked
<1>4. UnusedInv'
  <2>1. finished' <= count'
    BY DEF IInv, UnusedInv, ChunkMove
  <2>2. ASSUME NEW d \in Ids, d > count'
        PROVE  desc'[d] = UnusedDesc /\ state'[d] = ChunkNone /\ prevPiece'[d] = 0
    BY <2>2, <1>1, QueueFacts DEF IInv, UnusedInv, ChunkMove, Ids
  <2>3. ASSUME NEW d \in Ids, d > count', NEW s \in Stages
        PROVE  d \notin Elems(workq'[s])
    BY <2>3, <1>1, QueueFacts DEF IInv, UnusedInv, ChunkMove, MayQueue, Ids
  <2>4. \A u \in Threads : pc'[u] \in Holding => cur'[u] \in 1 .. count'
    BY <1>1, QueueFacts DEF IInv, UnusedInv, ChunkMove, Holding, Ids
  <2>5. \A d \in Ids : d <= count' => desc'[d].kind # "unused"
    BY DEF IInv, UnusedInv, ChunkMove
  <2> QED BY <2>1, <2>2, <2>3, <2>4, <2>5 DEF UnusedInv
<1>5. AssertionsHold'
  <2>1. ASSUME NEW s \in Stages, NEW d \in Elems(workq'[s])
        PROVE  state'[d] = ExpectedState[s] /\ (s = "compress" => WritesBlock(d)')
    BY QueueFacts DEF IInv, StageInv, AssertionsHold, ChunkMove, MayQueue, WritesBlock, IsBlock
  <2>2. ASSUME NEW u \in Threads, pc'[u] \in Holding
        PROVE  state'[cur'[u]] = ExpectedState[pc'[u]]
    BY <2>2, <1>2, QueueFacts DEF ChunkMove, Holding
  <2> QED BY <2>1, <2>2 DEF AssertionsHold, Stages
<1>6. StageInv'
  <2>1. \A u \in Threads : pc'[u] = "compress" \/ pc'[u] = "write" => WritesBlock(cur[u])'
    BY <1>2, QueueFacts DEF IInv, StageInv, ChunkMove, WritesBlock, IsBlock, Holding
  <2>2. ASSUME NEW u \in Threads, pc'[u] \in Holding
        PROVE  cur'[u] \notin Elems(workq'[pc'[u]])
    BY <2>2, <1>2 DEF IInv, StageInv, ChunkMove, Holding, Stages
  <2>3. \A u, v \in Threads : pc'[u] \in Holding /\ pc'[v] = pc'[u] /\ cur'[v] = cur'[u] => u = v
    BY <1>2 DEF IInv, StageInv, ChunkMove, Holding
  <2> QED BY <1>5, <2>1, <2>2, <2>3 DEF StageInv, ChunkMove
<1>7. WriteoutInOrder'
  <2>1. \A d \in Elems(workq'["write"]) : d = finished' + 1
    BY DEF IInv, WriteoutInOrder, ChunkMove, MayQueue, Stages
  <2>2. \A u \in Threads : pc'[u] = "write" => cur'[u] = finished' + 1
    BY DEF IInv, WriteoutInOrder, ChunkMove, Holding
  <2> QED BY <1>1, <2>1, <2>2 DEF IInv, WriteoutInOrder, ChunkMove
<1>8. PieceInv'
  <2>1. \A d \in Elems(workq'["assign"]) : PredecessorAssigned(d)'
    <3>1. ASSUME NEW d \in Elems(workq["assign"]) PROVE PredecessorAssigned(d)'
      <4>1. d \in Ids /\ PredecessorAssigned(d)
        BY QueueFacts DEF IInv, PieceInv, Stages
      <4>2. prevPiece[d] = 0 \/ prevPiece[d] \in Ids
        <5>1. prevPiece[d] \in Ids0
          BY <4>1 DEF IInv, TypeOK
        <5> QED BY <5>1, BoundsAreNat DEF Ids, Ids0
      <4>3. prevPiece' = prevPiece
        BY DEF ChunkMove
      <4> QED BY <4>1, <4>2, <4>3, <1>1 DEF PredecessorAssigned
    <3> QED BY <3>1 DEF ChunkMove, MayQueue, Stages
  <2>2. pc'[Main] \in BeforeClosing => pc[Main] \in BeforeClosing
    BY DEF ChunkMove, BeforeClosing, Holding, Threads
  <2> QED BY <2>1, <2>2 DEF IInv, PieceInv, ChunkMove, IsClosing, BeforeClosing
<1> QED BY <1>3, <1>4, <1>6, <1>7, <1>8 DEF IInv

\* Types used all over.
LEMMA StateFacts ==
    ASSUME IInv
    PROVE  /\ state \in [Ids -> ChunkStates]
           /\ \A d \in Ids : state[d] \in Int
           /\ pc \in [Threads -> PcValues] /\ cur \in [Threads -> Ids0]
           /\ 0 \in Ids0 /\ \A d \in Ids : d \in Ids0
<1>1. state \in [Ids -> ChunkStates] /\ pc \in [Threads -> PcValues] /\ cur \in [Threads -> Ids0]
  BY DEF IInv, TypeOK
<1>2. \A d \in Ids : state[d] \in Int
  BY <1>1 DEF ChunkStates, ChunkNone, ChunkFinished
<1>3. 0 \in Ids0 /\ \A d \in Ids : d \in Ids0
  BY BoundsAreNat DEF Ids, Ids0
<1> QED BY <1>1, <1>2, <1>3

LEMMA ChunkStateValues ==
    /\ ChunkNone \in ChunkStates /\ ChunkRead \in ChunkStates
    /\ ChunkDeduplicated \in ChunkStates /\ ChunkAssigned \in ChunkStates
    /\ ChunkWritable \in ChunkStates /\ ChunkFinished \in ChunkStates
BY DEF ChunkNone, ChunkRead, ChunkDeduplicated, ChunkAssigned, ChunkWritable, ChunkFinished,
       ChunkStates

\* Chunks that advance without being placed disturb no fragment block.
LEMMA FragmentFrame ==
    ASSUME IInv, UNCHANGED <<desc, prevPiece, flush, fragOf>>,
           DOMAIN fragments' = DOMAIN fragments,
           state' \in [Ids -> ChunkStates],
           \A d \in Ids : state'[d] >= state[d],
           \A d \in Ids : desc[d].kind = "piece" /\ state'[d] >= ChunkAssigned
                           => state[d] >= ChunkAssigned
    PROVE  FragmentInv'
<1>1. prevPiece \in [Ids -> Ids0]
  BY DEF IInv, TypeOK
<1>2. \A d \in Ids : state[d] \in Int /\ state'[d] \in Int
  BY StateFacts DEF ChunkStates, ChunkNone, ChunkFinished
<1>3. \A d \in Ids : prevPiece[d] # 0 => prevPiece[d] \in Ids
  BY <1>1, BoundsAreNat DEF Ids, Ids0
<1>4. ASSUME NEW d \in Ids, flush'[d] PROVE prevPiece'[d] # 0 /\ PredecessorAssigned(d)'
  BY <1>2, <1>3, <1>4 DEF IInv, FragmentInv, PredecessorAssigned, ChunkAssigned
<1>5. ASSUME NEW d \in Ids, desc'[d].kind = "piece", state'[d] >= ChunkAssigned
      PROVE  fragOf'[d] \in DOMAIN fragments'
  BY <1>5 DEF IInv, FragmentInv
<1> QED BY <1>4, <1>5 DEF FragmentInv

LEMMA ReadDoneInv ==
    ASSUME IInv, NEW t \in Threads, ReadDone(t)
    PROVE  IInv'
<1> USE DEF ReadDone, listVars, fragVars, imageVars
<1>0. PICK c : c = cur[t]
  OBVIOUS
<1>1. /\ c \in Ids /\ c <= count /\ state[c] = ChunkNone
      /\ "dedup" \in Stages /\ c \notin Elems(workq["dedup"])
      /\ "read" \in Stages /\ c \notin Elems(workq["read"])
  BY <1>0, QueueFacts DEF IInv, StageInv, Holding, Stages, ExpectedState, ChunkNone, ChunkRead
<1>2. Added(workq, workq', "dedup", c)
  BY <1>0, <1>1, QueueFacts, PushFrontFacts
<1>3. /\ state' \in [Ids -> ChunkStates]
      /\ \A d \in Ids : state'[d] = IF d = c THEN ChunkRead ELSE state[d]
  BY <1>0, <1>1, StateFacts, ChunkStateValues
<1>4. /\ pc' \in [Threads -> PcValues] /\ cur' \in [Threads -> Ids0] /\ pc'[t] = "loop"
      /\ \A u \in Threads \ {t} : pc'[u] = pc[u] /\ cur'[u] = cur[u]
  BY StateFacts DEF PcValues
<1>5. TypeOK'
  <2>1. cached' \in [Ids -> BOOLEAN]
    BY DEF IInv, TypeOK
  <2> QED BY <1>2, <1>3, <1>4, <2>1 DEF IInv, TypeOK, Added, QueuesOK
<1>6. ChunkMove(t, c)
  <2>1. MayQueue("dedup", c)
    BY <1>1, <1>3 DEF MayQueue, ExpectedState
  <2>2. \A s \in Stages : \A d \in Elems(workq'[s]) :
          (d # c /\ d \in Elems(workq[s])) \/ (d = c /\ MayQueue(s, d))
    BY <1>1, <1>2, <2>1, QueueFacts
       DEF Added, ExpectedState, Stages, ChunkNone, ChunkRead, ChunkDeduplicated,
           ChunkAssigned, ChunkWritable
  <2>3. \A s \in Stages : Distinct(workq'[s])
    BY <1>2 DEF Added, QueuesOK
  <2> QED BY <1>0, <1>1, <1>3, <1>4, <2>2, <2>3, StateFacts
          DEF ChunkMove, Holding, ChunkNone, ChunkRead, ChunkFinished
<1>7. FragmentInv'
  BY <1>1, <1>3, StateFacts, FragmentFrame DEF ChunkNone, ChunkRead, ChunkAssigned
<1> QED BY <1>5, <1>6, <1>7, MoveStep

\* The chunk a thread takes from a queue is then in none.
LEMMA PopHead ==
    ASSUME IInv, NEW s \in Stages, Serves(s), NEW c, c = Head(workq[s])
    PROVE  /\ Removed(workq, Pop(workq, s), s, c)
           /\ QueuesOK(Pop(workq, s))
           /\ c \in Ids /\ c <= count /\ c \in Elems(workq[s]) /\ state[c] = ExpectedState[s]
           /\ \A r \in Stages : c \notin Elems(Pop(workq, s)[r])
           /\ \A r \in Stages : \A d \in Elems(Pop(workq, s)[r]) : d \in Elems(workq[r])
<1>1. Removed(workq, Pop(workq, s), s, c) /\ QueuesOK(Pop(workq, s))
  <2>1. Removed(workq, Pop(workq, s), s, Head(workq[s]))
    BY QueueFacts, PopFacts DEF Serves
  <2> QED BY <2>1 DEF Removed
<1>2. c \in Ids /\ c <= count /\ c \in Elems(workq[s]) /\ state[c] = ExpectedState[s]
  BY <1>1, QueueFacts DEF Removed
<1>3. \A r \in Stages : c \in Elems(workq[r]) => r = s
  BY <1>2, QueueFacts DEF ExpectedState, Stages, ChunkNone, ChunkRead, ChunkDeduplicated,
     ChunkAssigned, ChunkWritable
<1> QED BY <1>1, <1>2, <1>3 DEF Removed

\* A thread that goes on to another queue, or leaves with the chunk it has popped.
LEMMA StartReadInv ==
    ASSUME IInv, NEW t \in Threads, StartRead(t)
    PROVE  IInv'
<1> USE DEF StartRead, listVars, fragVars, imageVars
<1>0. PICK c : c = Head(workq["read"])
  OBVIOUS
<1> DEFINE q == Pop(workq, "read")
<1>1. /\ "read" \in Stages /\ "dedup" \in Stages
      /\ QueuesOK(q) /\ c \in Ids /\ c <= count
      /\ c \in Elems(workq["read"]) /\ state[c] = ChunkNone
      /\ \A r \in Stages : c \notin Elems(q[r])
      /\ \A r \in Stages : \A d \in Elems(q[r]) : d \in Elems(workq[r])
  BY <1>0, PopHead DEF Stages, ExpectedState
<1>2. CASE IsClosing(c)
  <2>1. Added(q, workq', "dedup", c)
    BY <1>0, <1>1, <1>2, PushFrontFacts
  <2>2. /\ state' \in [Ids -> ChunkStates]
        /\ \A d \in Ids : state'[d] = IF d = c THEN ChunkRead ELSE state[d]
    BY <1>0, <1>1, <1>2, StateFacts, ChunkStateValues
  <2>3. pc' = pc /\ cur' = cur
    BY <1>0, <1>2
  <2>4. TypeOK'
    BY <2>1, <2>2, <2>3 DEF IInv, TypeOK, Added, QueuesOK
  <2>5. ChunkMove(t, c)
    <3>1. MayQueue("dedup", c)
      BY <1>1, <2>2 DEF MayQueue, ExpectedState
    <3>2. \A s \in Stages : \A d \in Elems(workq'[s]) :
            (d # c /\ d \in Elems(workq[s])) \/ (d = c /\ MayQueue(s, d))
      BY <1>1, <2>1, <3>1 DEF Added
    <3>3. \A s \in Stages : Distinct(workq'[s])
      BY <2>1 DEF Added, QueuesOK
    <3> QED BY <1>1, <2>2, <2>3, <3>2, <3>3, StateFacts
            DEF ChunkMove, ChunkNone, ChunkRead, ChunkFinished
  <2>6. FragmentInv'
    BY <1>1, <2>2, StateFacts, FragmentFrame DEF ChunkNone, ChunkRead, ChunkAssigned
  <2> QED BY <2>4, <2>5, <2>6, MoveStep
<1>3. CASE ~IsClosing(c)
  <2>1. workq' = q /\ state' = state
    BY <1>0, <1>3
  <2>2. /\ pc' \in [Threads -> PcValues] /\ cur' \in [Threads -> Ids0]
        /\ pc'[t] = "read" /\ cur'[t] = c
        /\ \A u \in Threads \ {t} : pc'[u] = pc[u] /\ cur'[u] = cur[u]
    BY <1>0, <1>1, <1>3, StateFacts DEF PcValues
  <2>3. TypeOK'
    BY <1>1, <2>1, <2>2 DEF IInv, TypeOK, QueuesOK
  <2>4. ChunkMove(t, c)
    <3>1. \A s \in Stages : \A d \in Elems(workq'[s]) : d # c /\ d \in Elems(workq[s])
      BY <1>1, <2>1
    <3>2. \A s \in Stages : Distinct(workq'[s])
      BY <1>1, <2>1 DEF QueuesOK
    <3> QED BY <1>1, <2>1, <2>2, <3>1, <3>2, StateFacts
            DEF ChunkMove, Holding, ExpectedState, ChunkNone, ChunkFinished
  <2>5. FragmentInv'
    BY <2>1, StateFacts, FragmentFrame
  <2> QED BY <2>3, <2>4, <2>5, MoveStep
<1> QED BY <1>2, <1>3

LEMMA DeduplicateInv ==
    ASSUME IInv, NEW t \in Threads, Deduplicate(t)
    PROVE  IInv'
<1> USE DEF Deduplicate, listVars, fragVars, imageVars
<1>0. PICK c : c = Head(workq["dedup"])
  OBVIOUS
<1> DEFINE q == Pop(workq, "dedup")
<1>1. /\ "dedup" \in Stages /\ "assign" \in Stages
      /\ QueuesOK(q) /\ c \in Ids /\ c <= count
      /\ c \in Elems(workq["dedup"]) /\ state[c] = ChunkRead
      /\ \A r \in Stages : c \notin Elems(q[r])
      /\ \A r \in Stages : \A d \in Elems(q[r]) : d \in Elems(workq[r])
  BY <1>0, PopHead DEF Stages, ExpectedState
<1>2. /\ state' \in [Ids -> ChunkStates]
      /\ \A d \in Ids : state'[d] = IF d = c THEN ChunkDeduplicated ELSE state[d]
  BY <1>0, <1>1, StateFacts, ChunkStateValues
<1>3. QueuesOK(workq') /\ \A s \in Stages : \A d \in Elems(workq'[s]) :
         (d # c /\ d \in Elems(workq[s])) \/ (d = c /\ MayQueue(s, d))
  <2>1. CASE IsBlock(c) \/ PredecessorAssigned(c)
    <3>1. Added(q, workq', "assign", c)
      BY <1>0, <1>1, <2>1, PushFrontFacts
    <3>2. PredecessorAssigned(c)'
      <4>1. PredecessorAssigned(c)
        BY <1>1, <2>1 DEF IInv, PieceInv, IsBlock, PredecessorAssigned
      <4>2. prevPiece \in [Ids -> Ids0]
        BY DEF IInv, TypeOK
      <4>3. prevPiece[c] # 0 => prevPiece[c] \in Ids
        BY <1>1, <4>2, BoundsAreNat DEF Ids, Ids0
      <4> QED BY <1>1, <1>2, <4>1, <4>3
              DEF PredecessorAssigned, ChunkRead, ChunkDeduplicated, ChunkAssigned
    <3>3. MayQueue("assign", c)
      BY <1>1, <1>2, <3>2 DEF MayQueue, ExpectedState
    <3> QED BY <1>1, <3>1, <3>3 DEF Added
  <2>2. CASE ~(IsBlock(c) \/ PredecessorAssigned(c))
    <3>1. workq' = q
      BY <1>0, <2>2
    <3> QED BY <1>1, <3>1
  <2> QED BY <2>1, <2>2
<1>4. TypeOK'
  BY <1>2, <1>3 DEF IInv, TypeOK, QueuesOK
<1>5. ChunkMove(t, c)
  <2>1. \A s \in Stages : Distinct(workq'[s])
    BY <1>3 DEF QueuesOK
  <2> QED BY <1>1, <1>2, <1>3, <2>1, StateFacts
          DEF ChunkMove, ChunkRead, ChunkDeduplicated, ChunkFinished
<1>6. FragmentInv'
  BY <1>1, <1>2, StateFacts, FragmentFrame DEF ChunkRead, ChunkDeduplicated, ChunkAssigned
<1> QED BY <1>4, <1>5, <1>6, MoveStep

LEMMA AssignBlockInv ==
    ASSUME IInv, NEW t \in Threads, AssignBlock(t)
    PROVE  IInv'
<1> USE DEF AssignBlock, listVars, fragVars, imageVars
<1>0. PICK c : c = Head(workq["assign"])
  OBVIOUS
<1> DEFINE q == Pop(workq, "assign")
<1>1. /\ "compress" \in Stages /\ "assign" \in Stages
      /\ QueuesOK(q) /\ c \in Ids /\ c <= count
      /\ c \in Elems(workq["assign"]) /\ state[c] = ChunkDeduplicated
      /\ \A r \in Stages : c \notin Elems(q[r])
      /\ \A r \in Stages : \A d \in Elems(q[r]) : d \in Elems(workq[r])
  BY <1>0, PopHead DEF Stages, ExpectedState
<1>2. /\ state' \in [Ids -> ChunkStates]
      /\ \A d \in Ids : state'[d] = IF d = c THEN ChunkAssigned ELSE state[d]
  BY <1>0, <1>1, StateFacts, ChunkStateValues
<1>3. desc[c].kind = "block" /\ WritesBlock(c)'
  BY <1>0 DEF IsBlock, WritesBlock
<1>4. Added(q, workq', "compress", c)
  BY <1>0, <1>1, PushFrontFacts
<1>5. QueuesOK(workq') /\ \A s \in Stages : \A d \in Elems(workq'[s]) :
         (d # c /\ d \in Elems(workq[s])) \/ (d = c /\ MayQueue(s, d))
  <2>1. MayQueue("compress", c)
    BY <1>1, <1>2, <1>3 DEF MayQueue, ExpectedState
  <2> QED BY <1>1, <1>4, <2>1 DEF Added
<1>6. TypeOK'
  BY <1>2, <1>5 DEF IInv, TypeOK, QueuesOK
<1>7. ChunkMove(t, c)
  BY <1>1, <1>2, <1>5, StateFacts
     DEF ChunkMove, QueuesOK, ChunkDeduplicated, ChunkAssigned, ChunkFinished
<1>8. FragmentInv'
  BY <1>1, <1>2, <1>3, StateFacts, FragmentFrame DEF ChunkDeduplicated, ChunkAssigned
<1> QED BY <1>6, <1>7, <1>8, MoveStep

LEMMA StartCompressInv ==
    ASSUME IInv, NEW t \in Threads, StartCompress(t)
    PROVE  IInv'
<1> USE DEF StartCompress, listVars, fragVars, imageVars
<1>0. PICK c : c = Head(workq["compress"])
  OBVIOUS
<1> DEFINE q == Pop(workq, "compress")
<1>1. /\ "compress" \in Stages
      /\ QueuesOK(q) /\ c \in Ids /\ c <= count
      /\ c \in Elems(workq["compress"]) /\ state[c] = ChunkAssigned
      /\ \A r \in Stages : c \notin Elems(q[r])
      /\ \A r \in Stages : \A d \in Elems(q[r]) : d \in Elems(workq[r])
  BY <1>0, PopHead DEF Stages, ExpectedState
<1>2. /\ pc' \in [Threads -> PcValues] /\ cur' \in [Threads -> Ids0]
      /\ pc'[t] = "compress" /\ cur'[t] = c
      /\ \A u \in Threads \ {t} : pc'[u] = pc[u] /\ cur'[u] = cur[u]
  BY <1>0, <1>1, StateFacts DEF PcValues
<1>3. TypeOK'
  BY <1>1, <1>2 DEF IInv, TypeOK, QueuesOK
<1>4. WritesBlock(c)'
  BY <1>1 DEF IInv, StageInv, AssertionsHold, WritesBlock, IsBlock
<1>5. ChunkMove(t, c)
  <2>1. \A s \in Stages : Distinct(workq'[s])
    BY <1>1 DEF QueuesOK
  <2>2. \A s \in Stages : \A d \in Elems(workq'[s]) : d # c /\ d \in Elems(workq[s])
    BY <1>1
  <2> QED BY <1>1, <1>2, <1>4, <2>1, <2>2, StateFacts
          DEF ChunkMove, Holding, ExpectedState, ChunkAssigned, ChunkFinished
<1>6. FragmentInv'
  BY StateFacts, FragmentFrame
<1> QED BY <1>3, <1>5, <1>6, MoveStep

-----------------------------------------------------------------------------
(* Assignment of pieces.                                                   *)

\* What was submitted.
LEMMA DescFacts ==
    ASSUME IInv, NEW c \in Ids
    PROVE  /\ desc[c].size \in Nat /\ desc[c].data \in DataItems
           /\ c <= count => desc[c].kind \in {"block", "piece", "closing"}
<1>1. desc[c] \in Submissions \cup {ClosingDesc, UnusedDesc}
  BY DEF IInv, TypeOK
<1>2. CASE desc[c] \in Submissions
  BY <1>2, SubmissionsFit, BlockSizePositive DEF DataItems
<1>3. CASE desc[c] = ClosingDesc
  <2>1. ClosingDesc.kind = "closing" /\ ClosingDesc.size = 0
    BY Zenon DEF ClosingDesc
  <2>2. ClosingDesc.data \in DataItems
    BY Zenon DEF DataItems
  <2> QED BY <1>3, <2>1, <2>2
<1>4. CASE desc[c] = UnusedDesc
  <2>1. UnusedDesc.kind = "unused" /\ UnusedDesc.size = 0
    BY Zenon DEF UnusedDesc
  <2>2. ClosingDesc.data = "" /\ UnusedDesc.data = ""
    BY Zenon DEF ClosingDesc, UnusedDesc
  <2>3. ClosingDesc.data \in DataItems
    BY Zenon DEF DataItems
  <2>4. desc[c].size \in Nat /\ desc[c].kind = "unused"
    BY <1>4, <2>1
  <2>5. desc[c].data \in DataItems
    BY <1>4, <2>2, <2>3
  <2> QED BY <2>4, <2>5 DEF IInv, UnusedInv
<1> QED BY <1>1, <1>2, <1>3, <1>4

\* The block that a piece joins or flushes exists.
LEMMA PredecessorFacts ==
    ASSUME IInv, NEW c \in Ids, prevPiece[c] # 0, PredecessorAssigned(c)
    PROVE  /\ prevPiece[c] \in Ids
           /\ FlushedBlock(c) \in DOMAIN fragments
           /\ fragments[FlushedBlock(c)] \in FragmentType
<1>1. prevPiece \in [Ids -> Ids0] /\ fragments \in Seq(FragmentType)
  BY DEF IInv, TypeOK
<1>2. prevPiece[c] \in Ids
  BY <1>1, BoundsAreNat DEF Ids, Ids0
<1>3. desc[prevPiece[c]].kind = "piece" /\ state[prevPiece[c]] >= ChunkAssigned
  BY DEF IInv, PieceInv, PredecessorAssigned
<1>4. FlushedBlock(c) \in DOMAIN fragments
  BY <1>2, <1>3 DEF IInv, FragmentInv, FlushedBlock
<1> QED BY <1>1, <1>2, <1>4

LEMMA TryWriteoutFacts ==
    ASSUME IInv, NEW q, QueuesOK(q), NEW c \in Ids, c \notin Elems(q["write"]),
           state[c] # ChunkFinished
    PROVE  \/ TryWriteout(q, c) = q
           \/ c = finished + 1 /\ Added(q, TryWriteout(q, c), "write", c)
<1>1. CASE ~(c = 1 \/ state[c - 1] = ChunkFinished)
  BY <1>1 DEF TryWriteout
<1>2. CASE c = 1 \/ state[c - 1] = ChunkFinished
  <2>1. Added(q, TryWriteout(q, c), "write", c)
    BY <1>2, PushFrontFacts DEF TryWriteout, Stages
  <2>2. finished \in Nat /\ c \in Nat \ {0} /\ ~(c <= finished)
    BY QueueFacts, BoundsAreNat DEF IInv, WriteoutInOrder, Ids
  <2>3. c # 1 => c - 1 \in Ids
    BY BoundsAreNat DEF Ids
  <2>4. c = finished + 1
    BY <1>2, <2>2, <2>3 DEF IInv, WriteoutInOrder
  <2> QED BY <2>1, <2>4
<1> QED BY <1>1, <1>2

LEMMA AssignFailInv ==
    ASSUME IInv, NEW t \in Threads, AssignFail(t)
    PROVE  IInv'
<1> USE DEF AssignFail, listVars, fragVars, imageVars, FlagError
<1>0. PICK c : c = Head(workq["assign"])
  OBVIOUS
<1> DEFINE q == Pop(workq, "assign")
<1>1. /\ "assign" \in Stages
      /\ QueuesOK(q) /\ c \in Ids /\ c <= count
      /\ c \in Elems(workq["assign"]) /\ state[c] = ChunkDeduplicated
      /\ \A r \in Stages : c \notin Elems(q[r])
      /\ \A r \in Stages : \A d \in Elems(q[r]) : d \in Elems(workq[r])
  BY <1>0, PopHead DEF Stages, ExpectedState
<1>2. /\ pc' \in [Threads -> PcValues] /\ pc'[t] = "abort_op" /\ cur' = cur
      /\ \A u \in Threads \ {t} : pc'[u] = pc[u]
  BY StateFacts DEF PcValues
<1>3. flush' \in [Ids -> BOOLEAN] /\ flush'[c] = Overflows(c)
      /\ \A d \in Ids \ {c} : flush'[d] = flush[d]
  <2>1. flush \in [Ids -> BOOLEAN]
    BY DEF IInv, TypeOK
  <2>2. Overflows(c) \in BOOLEAN
    BY DEF Overflows
  <2> QED BY <1>0, <1>1, <2>1, <2>2
<1>4. TypeOK'
  BY <1>1, <1>2, <1>3 DEF IInv, TypeOK, QueuesOK
<1>5. ChunkMove(t, c)
  <2>1. \A s \in Stages : Distinct(workq'[s])
    BY <1>1 DEF QueuesOK
  <2>2. \A s \in Stages : \A d \in Elems(workq'[s]) : d # c /\ d \in Elems(workq[s])
    BY <1>1
  <2>3. state' = state /\ finished' = finished /\ pc[t] = "loop" /\ UNCHANGED <<desc, count, prevPiece, nextPiece, lastPiece, mayAdd>>
    OBVIOUS
  <2> HIDE DEF AssignFail
  <2> QED BY <1>1, <1>2, <1>3, <2>1, <2>2, <2>3, StateFacts
          DEF ChunkMove, ChunkDeduplicated, ChunkFinished
<1>6. FragmentInv'
  <2>1. PredecessorAssigned(c)
    BY <1>1 DEF IInv, PieceInv
  <2>2. ASSUME NEW d \in Ids, flush'[d] PROVE prevPiece[d] # 0 /\ PredecessorAssigned(d)
    BY <1>3, <2>1, <2>2 DEF IInv, FragmentInv, Overflows
  <2> QED BY <2>2 DEF IInv, FragmentInv, PredecessorAssigned
<1> QED BY <1>4, <1>5, <1>6, MoveStep

\* A piece that is placed joins a fragment block that exists, and nothing that was
\* placed before moves.
LEMMA PlaceFacts ==
    ASSUME IInv, NEW c \in Ids, c <= count, PredecessorAssigned(c), ~IsBlock(c),
           PlacePiece(c)
    PROVE  /\ fragments' \in Seq(FragmentType)
           /\ fragOf' \in [Ids -> Nat] /\ offsetOf' \in [Ids -> Int]
           /\ DOMAIN fragments \subseteq DOMAIN fragments'
           /\ desc[c].kind = "piece" => fragOf'[c] \in DOMAIN fragments'
           /\ \A d \in Ids \ {c} : fragOf'[d] = fragOf[d]
<1>1. /\ fragments \in Seq(FragmentType)
      /\ fragOf \in [Ids -> Nat] /\ offsetOf \in [Ids -> Int]
  BY DEF IInv, TypeOK
<1>2. CASE IsClosing(c)
  BY <1>1, <1>2 DEF PlacePiece, IsClosing
<1>3. CASE ~IsClosing(c)
  <2>1. desc[c].kind = "piece" /\ desc[c].size \in Nat
    BY <1>3, DescFacts DEF IsClosing, IsBlock
  <2> DEFINE fs == IF NeedsFragmentBlock(c) THEN FragmentBlockCreate(fragments) ELSE fragments
             b == IF NeedsFragmentBlock(c) THEN Len(fs) ELSE fragOf[prevPiece[c]]
  <2>2. fs \in Seq(FragmentType) /\ b \in DOMAIN fs /\ DOMAIN fragments \subseteq DOMAIN fs
    <3>1. CASE NeedsFragmentBlock(c)
      <4>1. [size |-> 0, pieces |-> <<>>, dst |-> NoImageBlock] \in FragmentType
        BY DEF FragmentType, NoImageBlock, ImageBlockType
      <4> QED BY <1>1, <3>1, <4>1 DEF FragmentBlockCreate
    <3>2. CASE ~NeedsFragmentBlock(c)
      <4>1. prevPiece[c] # 0
        BY <2>1, <3>2 DEF NeedsFragmentBlock
      <4>2. fragOf[prevPiece[c]] \in DOMAIN fragments
        BY <4>1, PredecessorFacts DEF FlushedBlock
      <4> QED BY <1>1, <3>2, <4>2
    <3> QED BY <3>1, <3>2
  <2>3. /\ fragments' = AddPiece(fs, b, c)
        /\ fragOf' = [fragOf EXCEPT ![c] = b]
        /\ offsetOf' = [offsetOf EXCEPT ![c] = fs[b].size]
    BY <1>3 DEF PlacePiece
  <2> HIDE DEF fs, b
  <2>4. b \in Nat /\ fs[b] \in FragmentType
    BY <2>2
  <2>5. fs[b].size \in Nat /\ fs[b].pieces \in Seq(Ids) /\ fs[b].dst \in ImageBlockType
    BY <2>4 DEF FragmentType
  <2>6. AddPiece(fs, b, c) \in Seq(FragmentType) /\ DOMAIN AddPiece(fs, b, c) = DOMAIN fs
    <3> DEFINE f == [fs[b] EXCEPT !.size = @ + desc[c].size, !.pieces = Append(@, c)]
    <3>0. fs[b].size + desc[c].size \in Nat /\ Append(fs[b].pieces, c) \in Seq(Ids)
      BY <2>1, <2>5
    <3>1. f \in FragmentType
      BY <3>0, <2>4, <2>5 DEF FragmentType
    <3>2. AddPiece(fs, b, c) = [fs EXCEPT ![b] = f]
      BY <2>2, <2>4 DEF AddPiece, FragmentType
    <3> HIDE DEF f
    <3> QED BY <2>2, <3>1, <3>2
  <2> QED BY <1>1, <2>1, <2>2, <2>3, <2>4, <2>5, <2>6
<1> QED BY <1>2, <1>3

LEMMA AssignPieceInv ==
    ASSUME IInv, NEW t \in Threads, AssignPiece(t)
    PROVE  IInv'
<1>0. PICK c : c = Head(workq["assign"])
  OBVIOUS
<1> DEFINE q == Pop(workq, "assign")
           q2 == IF MustFlush(c) THEN PushFront(q, "compress", c) ELSE TryWriteout(q, c)
           n == nextPiece[c]
<1>1. /\ pc[t] = "loop" /\ Serves("assign") /\ ~IsBlock(c) /\ PlacePiece(c)
      /\ flush' = [flush EXCEPT ![c] = MustFlush(c)]
      /\ state' = [state EXCEPT ![c] = IF MustFlush(c) THEN ChunkAssigned ELSE ChunkWritable]
      /\ workq' = AssignSuccessor(q2, c)
      /\ UNCHANGED <<listVars, imageVars, finished, cached, dst, size, disk, mayAdd, aborted,
                     pc, cur, spurious>>
  BY <1>0 DEF AssignPiece
<1>2. /\ QueuesOK(q) /\ c \in Ids /\ c <= count
      /\ c \in Elems(workq["assign"]) /\ state[c] = ChunkDeduplicated
      /\ \A r \in Stages : c \notin Elems(q[r])
      /\ \A r \in Stages : \A d \in Elems(q[r]) : d \in Elems(workq[r])
  BY <1>0, <1>1, PopHead DEF Stages, ExpectedState
<1>3. PredecessorAssigned(c)
  BY <1>2 DEF IInv, PieceInv
<1>4. /\ state' \in [Ids -> ChunkStates]
      /\ \A d \in Ids : state'[d] = IF d # c THEN state[d]
                                    ELSE IF MustFlush(c) THEN ChunkAssigned ELSE ChunkWritable
  BY <1>1, <1>2, StateFacts, ChunkStateValues
<1>5. flush' \in [Ids -> BOOLEAN] /\ flush'[c] = MustFlush(c)
      /\ \A d \in Ids \ {c} : flush'[d] = flush[d]
  <2>1. flush \in [Ids -> BOOLEAN]
    BY DEF IInv, TypeOK
  <2>2. MustFlush(c) \in BOOLEAN
    BY DEF Overflows, MustFlush
  <2> QED BY <1>1, <1>2, <2>1, <2>2
<1>6. UNCHANGED <<desc, count, prevPiece, nextPiece, lastPiece, finished>>
  BY <1>1 DEF listVars
\* The chunk itself goes to the queue of compression or of writing.
<1>7. /\ QueuesOK(q2)
      /\ \A s \in Stages : \A d \in Elems(q2[s]) :
            (d # c /\ d \in Elems(workq[s])) \/ (d = c /\ s # "assign" /\ MayQueue(s, d))
  <2>1. CASE MustFlush(c)
    <3>1. Added(q, q2, "compress", c)
      BY <1>2, <2>1, PushFrontFacts DEF Stages
    <3>2. MayQueue("compress", c)
      BY <1>2, <1>4, <1>5, <1>6, <2>1 DEF MayQueue, ExpectedState, WritesBlock
    <3> QED BY <1>2, <3>1, <3>2 DEF Added
  <2>2. CASE ~MustFlush(c)
    <3>1. q2 = q \/ (c = finished + 1 /\ Added(q, q2, "write", c))
      BY <1>2, <2>2, TryWriteoutFacts DEF Stages, ChunkDeduplicated, ChunkFinished
    <3>2. c = finished + 1 => MayQueue("write", c)
      BY <1>2, <1>4, <1>6, <2>2 DEF MayQueue, ExpectedState
    <3> HIDE DEF q2
    <3> QED BY <1>2, <3>1, <3>2 DEF Added
  <2> QED BY <2>1, <2>2
<1> HIDE DEF q2
\* The next piece follows it, if it has been waiting.
<1>8. /\ QueuesOK(workq')
      /\ \A s \in Stages : \A d \in Elems(workq'[s]) :
            \/ d # c /\ d \in Elems(workq[s])
            \/ (d = c \/ s = "assign") /\ MayQueue(s, d)
  <2>1. CASE ~(n # 0 /\ state[n] = ChunkDeduplicated)
    <3>1. workq' = q2
      BY <1>1, <2>1 DEF AssignSuccessor
    <3> QED BY <1>7, <3>1
  <2>2. CASE n # 0 /\ state[n] = ChunkDeduplicated
    <3>1. n \in Ids
      <4>1. nextPiece \in [Ids -> Ids0]
        BY DEF IInv, TypeOK
      <4> QED BY <1>2, <2>2, <4>1, BoundsAreNat DEF Ids, Ids0
    <3>2. prevPiece[n] = c
      BY <1>2, <2>2 DEF IInv, PieceInv
    <3>3. ~PredecessorAssigned(n)
      BY <1>2, <3>2, BoundsAreNat DEF PredecessorAssigned, ChunkDeduplicated, ChunkAssigned, Ids
    <3>4. n # c /\ n \notin Elems(workq["assign"])
      BY <1>3, <3>3 DEF IInv, PieceInv
    <3>5. n \notin Elems(q2["assign"])
      BY <1>7, <3>4 DEF Stages
    <3>6. Added(q2, workq', "assign", n)
      BY <1>1, <1>7, <2>2, <3>1, <3>5, PushFrontFacts DEF AssignSuccessor, Stages
    <3>7. n <= count
      BY <2>2, <3>1, QueueFacts DEF IInv, UnusedInv, ChunkNone, ChunkDeduplicated, Ids
    <3>8. PredecessorAssigned(n)'
      BY <1>2, <1>4, <1>6, <3>2 DEF PredecessorAssigned, ChunkAssigned, ChunkWritable
    <3>9. MayQueue("assign", n)
      BY <1>4, <1>6, <2>2, <3>1, <3>4, <3>7, <3>8 DEF MayQueue, ExpectedState
    <3> QED BY <1>7, <3>6, <3>9 DEF Added
  <2> QED BY <2>1, <2>2
<1>9. /\ fragments' \in Seq(FragmentType)
      /\ fragOf' \in [Ids -> Nat] /\ offsetOf' \in [Ids -> Int]
      /\ DOMAIN fragments \subseteq DOMAIN fragments'
      /\ desc[c].kind = "piece" => fragOf'[c] \in DOMAIN fragments'
      /\ \A d \in Ids \ {c} : fragOf'[d] = fragOf[d]
  BY <1>1, <1>2, <1>3, PlaceFacts
<1>10. TypeOK'
  BY <1>1, <1>4, <1>5, <1>8, <1>9 DEF IInv, TypeOK, QueuesOK, listVars, imageVars
<1>11. ChunkMove(t, c)
  <2>0. mayAdd' = mayAdd
    BY DEF AssignPiece
  <2>1. \A s \in Stages : Distinct(workq'[s])
    BY <1>8 DEF QueuesOK
  <2>2. pc' = pc /\ cur' = cur /\ pc[t] = "loop"
    BY <1>1
  <2>3. \E s \in Stages : c \in Elems(workq[s])
    BY <1>2 DEF Stages
  <2> QED BY <2>0, <1>2, <1>4, <1>5, <1>6, <1>8, <2>1, <2>2, <2>3, StateFacts
          DEF ChunkMove, ChunkDeduplicated, ChunkAssigned, ChunkWritable, ChunkFinished
<1>12. FragmentInv'
  <2>1. ASSUME NEW d \in Ids, PredecessorAssigned(d), prevPiece[d] # 0
        PROVE  PredecessorAssigned(d)'
    <3>1. prevPiece[d] \in Ids
      BY <2>1, PredecessorFacts
    <3>2. state[prevPiece[d]] >= ChunkAssigned
      BY <2>1 DEF PredecessorAssigned
    <3> QED BY <1>2, <1>4, <1>6, <3>1, <3>2
            DEF PredecessorAssigned, ChunkAssigned, ChunkWritable, ChunkDeduplicated
  <2>2. ASSUME NEW d \in Ids, flush'[d] PROVE prevPiece'[d] # 0 /\ PredecessorAssigned(d)'
    <3>1. prevPiece[d] # 0 /\ PredecessorAssigned(d)
      BY <1>3, <1>5, <2>2 DEF IInv, FragmentInv, MustFlush, Overflows
    <3> QED BY <1>6, <2>1, <3>1
  <2>3. ASSUME NEW d \in Ids, desc'[d].kind = "piece", state'[d] >= ChunkAssigned
        PROVE  fragOf'[d] \in DOMAIN fragments'
    BY <1>4, <1>6, <1>9, <2>3 DEF IInv, FragmentInv
  <2> QED BY <2>2, <2>3 DEF FragmentInv
<1> QED BY <1>10, <1>11, <1>12, MoveStep

-----------------------------------------------------------------------------
(* Compression and writing.                                                *)

LEMMA ImageBlockFacts ==
    ASSUME IInv, NEW c \in Ids, WritesBlock(c)
    PROVE  /\ ImageBlockOf(c) \in ImageBlockType
           /\ SourcesOf(c) \in Seq(Ids)
           /\ ~IsBlock(c) => FlushedBlock(c) \in DOMAIN fragments
                             /\ fragments[FlushedBlock(c)].size \in Nat
<1>1. CASE IsBlock(c)
  <2>1. dst \in [Ids -> ImageBlockType]
    BY DEF IInv, TypeOK
  <2> QED BY <1>1, <2>1 DEF ImageBlockOf, SourcesOf
<1>2. CASE ~IsBlock(c)
  <2>1. flush[c] /\ prevPiece[c] # 0 /\ PredecessorAssigned(c)
    BY <1>2 DEF WritesBlock, IInv, FragmentInv
  <2>2. FlushedBlock(c) \in DOMAIN fragments /\ fragments[FlushedBlock(c)] \in FragmentType
    BY <2>1, PredecessorFacts
  <2> QED BY <1>2, <2>2 DEF ImageBlockOf, SourcesOf, FragmentType
<1> QED BY <1>1, <1>2

LEMMA SetImageBlockFacts ==
    ASSUME IInv, NEW c \in Ids, WritesBlock(c), NEW b \in ImageBlockType, SetImageBlock(c, b)
    PROVE  /\ dst' \in [Ids -> ImageBlockType]
           /\ fragments' \in Seq(FragmentType)
           /\ DOMAIN fragments' = DOMAIN fragments
<1>1. dst \in [Ids -> ImageBlockType] /\ fragments \in Seq(FragmentType)
  BY DEF IInv, TypeOK
<1>2. CASE IsBlock(c)
  BY <1>1, <1>2 DEF SetImageBlock
<1>3. CASE ~IsBlock(c)
  <2> DEFINE k == FlushedBlock(c)
             f == [fragments[k] EXCEPT !.dst = b]
  <2>1. k \in DOMAIN fragments
    BY <1>3, ImageBlockFacts
  <2>2. fragments' = [fragments EXCEPT ![k] = f] /\ dst' = dst
    BY <1>3, <2>1 DEF SetImageBlock
  <2>3. f \in FragmentType
    <3> HIDE DEF k
    <3>1. fragments[k] \in FragmentType
      BY <1>1, <2>1
    <3> QED BY <3>1 DEF FragmentType
  <2> HIDE DEF k, f
  <2> QED BY <1>1, <2>1, <2>2, <2>3
<1> QED BY <1>2, <1>3

LEMMA CompressDoneInv ==
    ASSUME IInv, NEW t \in Threads, CompressDone(t)
    PROVE  IInv'
<1>0. PICK c : c = cur[t]
  OBVIOUS
<1> DEFINE cs == SourcesOf(c)
           n == IF IsBlock(c) THEN desc[c].size ELSE fragments[FlushedBlock(c)].size
           b == ImageBlock(BytesOf(cs), n, IF IsBlock(c) THEN CompressBlocks ELSE CompressFragments)
<1>1. /\ pc[t] = "compress" /\ Unlocked
      /\ SetImageBlock(c, b)
      /\ cached' = [i \in Ids |-> cached[i] /\ \A k \in DOMAIN cs : cs[k] # i]
      /\ state' = [state EXCEPT ![c] = ChunkWritable]
      /\ workq' = TryWriteout(workq, c)
      /\ pc' = [pc EXCEPT ![t] = "loop"]
      /\ cur' = [cur EXCEPT ![t] = 0]
      /\ UNCHANGED <<listVars, fragVars, imageVars, finished, size, disk, mayAdd, aborted,
                     spurious>>
  BY <1>0 DEF CompressDone
<1>2. /\ c \in Ids /\ c <= count /\ state[c] = ChunkAssigned /\ WritesBlock(c)
      /\ \A s \in Stages : c \notin Elems(workq[s])
  BY <1>0, <1>1, QueueFacts
     DEF IInv, StageInv, Holding, Stages, ExpectedState, ChunkNone, ChunkRead,
         ChunkDeduplicated, ChunkAssigned, ChunkWritable
<1>3. b \in ImageBlockType
  <2>1. cs \in Seq(Ids) /\ n \in Nat
    BY <1>2, ImageBlockFacts, DescFacts
  <2>2. BytesOf(cs) \in Seq(DataItems)
    <3>1. \A i \in 1 .. Len(cs) : cs[i] \in Ids /\ desc[cs[i]].data \in DataItems
      BY <2>1, DescFacts
    <3>2. DOMAIN cs = 1 .. Len(cs) /\ Len(cs) \in Nat
      BY <2>1
    <3> HIDE DEF cs
    <3> QED BY <3>1, <3>2 DEF BytesOf
  <2> HIDE DEF cs, n
  <2>3. ASSUME NEW x \in Seq(DataItems), NEW compress
        PROVE  ImageBlock(x, n, compress) \in ImageBlockType
    <3> DEFINE r == IF compress THEN CompressorInstanceCompress(x, n) ELSE -1
    <3>1. r = -1 \/ r \in 1 .. n
      BY DEF CompressorInstanceCompress
    <3>2. ImageBlock(x, n, compress) = [offset |-> -1, size |-> IF r = -1 THEN n ELSE r,
                                        compressed |-> r # -1, content |-> x]
      BY Zenon DEF ImageBlock
    <3> HIDE DEF r
    <3>3. (IF r = -1 THEN n ELSE r) \in Nat
      BY <2>1, <3>1
    <3>4. -1 \in Int
      OBVIOUS
    <3> QED BY <3>2, <3>3, <3>4 DEF ImageBlockType
  <2> QED BY <2>2, <2>3
<1>4. /\ dst' \in [Ids -> ImageBlockType] /\ fragments' \in Seq(FragmentType)
      /\ DOMAIN fragments' = DOMAIN fragments
  <2> HIDE DEF b
  <2> QED BY <1>1, <1>2, <1>3, SetImageBlockFacts
<1>5. /\ state' \in [Ids -> ChunkStates]
      /\ \A d \in Ids : state'[d] = IF d = c THEN ChunkWritable ELSE state[d]
  BY <1>1, <1>2, StateFacts, ChunkStateValues
<1>6. /\ pc' \in [Threads -> PcValues] /\ cur' \in [Threads -> Ids0] /\ pc'[t] = "loop"
      /\ \A u \in Threads \ {t} : pc'[u] = pc[u] /\ cur'[u] = cur[u]
  BY <1>1, StateFacts DEF PcValues
<1>7. UNCHANGED <<desc, count, prevPiece, nextPiece, lastPiece, finished, flush, fragOf>>
  BY <1>1 DEF listVars, fragVars
<1>8. /\ QueuesOK(workq')
      /\ \A s \in Stages : \A d \in Elems(workq'[s]) :
            (d # c /\ d \in Elems(workq[s])) \/ (d = c /\ MayQueue(s, d))
  <2>1. workq' = workq \/ (c = finished + 1 /\ Added(workq, workq', "write", c))
    BY <1>1, <1>2, QueueFacts, TryWriteoutFacts DEF Stages, ChunkAssigned, ChunkFinished
  <2>2. c = finished + 1 => MayQueue("write", c)
    BY <1>2, <1>5, <1>7 DEF MayQueue, ExpectedState
  <2> QED BY <1>2, <2>1, <2>2, QueueFacts DEF Added
<1>9. TypeOK'
  <2>1. cached' \in [Ids -> BOOLEAN]
    <3>1. cached \in [Ids -> BOOLEAN]
      BY DEF IInv, TypeOK
    <3> HIDE DEF cs
    <3> QED BY <1>1, <3>1
  <2> HIDE DEF b, cs
  <2> QED BY <1>1, <1>4, <1>5, <1>6, <1>8, <2>1
          DEF IInv, TypeOK, QueuesOK, listVars, fragVars, imageVars
<1>10. ChunkMove(t, c)
  <2>0. mayAdd' = mayAdd
    BY DEF CompressDone
  <2>1. \A s \in Stages : Distinct(workq'[s])
    BY <1>8 DEF QueuesOK
  <2>2. pc[t] \in Holding /\ Unlocked /\ cur[t] = c
    BY <1>0, <1>1 DEF Holding
  <2> QED BY <2>0, <1>2, <1>5, <1>6, <1>7, <1>8, <2>1, <2>2, StateFacts
          DEF ChunkMove, ChunkAssigned, ChunkWritable, ChunkFinished
<1>11. FragmentInv'
  <2>1. \A d \in Ids : state'[d] >= state[d]
    BY <1>2, <1>5, StateFacts DEF ChunkAssigned, ChunkWritable
  <2>2. \A d \in Ids : state'[d] >= ChunkAssigned => state[d] >= ChunkAssigned
    BY <1>2, <1>5, StateFacts DEF ChunkAssigned, ChunkWritable
  <2> QED BY <1>4, <1>5, <1>7, <2>1, <2>2, FragmentFrame
<1> QED BY <1>9, <1>10, <1>11, MoveStep

LEMMA StartWriteInv ==
    ASSUME IInv, NEW t \in Threads, StartWrite(t)
    PROVE  IInv'
<1>0. PICK c : c = Head(workq["write"])
  OBVIOUS
<1> DEFINE q == Pop(workq, "write")
           b == [ImageBlockOf(c) EXCEPT !.offset = size]
<1>1. /\ pc[t] = "loop" /\ Serves("write") /\ WritesBlock(c)
      /\ SetImageBlock(c, b)
      /\ size' = size + ImageBlockOf(c).size
      /\ cur' = [cur EXCEPT ![t] = c]
      /\ workq' = q
      /\ pc' = [pc EXCEPT ![t] = "write"]
      /\ UNCHANGED <<listVars, fragVars, imageVars, finished, state, cached, disk, mayAdd,
                     aborted, spurious>>
  BY <1>0 DEF StartWrite, Reserve
<1>2. /\ QueuesOK(q) /\ c \in Ids /\ c <= count
      /\ c \in Elems(workq["write"]) /\ state[c] = ChunkWritable
      /\ \A r \in Stages : c \notin Elems(q[r])
      /\ \A r \in Stages : \A d \in Elems(q[r]) : d \in Elems(workq[r])
      /\ c = finished + 1
  <2>1. /\ QueuesOK(q) /\ c \in Ids /\ c <= count
        /\ c \in Elems(workq["write"]) /\ state[c] = ChunkWritable
        /\ \A r \in Stages : c \notin Elems(q[r])
        /\ \A r \in Stages : \A d \in Elems(q[r]) : d \in Elems(workq[r])
    BY <1>0, <1>1, PopHead DEF Stages, ExpectedState
  <2> QED BY <2>1 DEF IInv, WriteoutInOrder
<1>3. /\ dst' \in [Ids -> ImageBlockType] /\ fragments' \in Seq(FragmentType)
      /\ DOMAIN fragments' = DOMAIN fragments /\ size' \in Nat
  <2>1. size \in Nat /\ ImageBlockOf(c) \in ImageBlockType
    BY <1>1, <1>2, ImageBlockFacts DEF IInv, TypeOK
  <2>2. b \in ImageBlockType /\ ImageBlockOf(c).size \in Nat
    BY <2>1 DEF ImageBlockType
  <2> HIDE DEF b
  <2> QED BY <1>1, <1>2, <2>1, <2>2, SetImageBlockFacts
<1>4. /\ pc' \in [Threads -> PcValues] /\ cur' \in [Threads -> Ids0]
      /\ pc'[t] = "write" /\ cur'[t] = c
      /\ \A u \in Threads \ {t} : pc'[u] = pc[u] /\ cur'[u] = cur[u]
  BY <1>1, <1>2, StateFacts DEF PcValues
<1>5. UNCHANGED <<desc, count, prevPiece, nextPiece, lastPiece, finished, flush, fragOf, state>>
  BY <1>1 DEF listVars, fragVars
<1>6. TypeOK'
  <2> HIDE DEF b
  <2> QED BY <1>1, <1>2, <1>3, <1>4 DEF IInv, TypeOK, QueuesOK, listVars, fragVars, imageVars
<1>7. ChunkMove(t, c)
  <2>0. mayAdd' = mayAdd
    BY DEF StartWrite
  <2>1. \A s \in Stages : Distinct(workq'[s])
    BY <1>1, <1>2 DEF QueuesOK
  <2>2. \A s \in Stages : \A d \in Elems(workq'[s]) : d # c /\ d \in Elems(workq[s])
    BY <1>1, <1>2
  <2>3. WritesBlock(c)'
    BY <1>1, <1>5 DEF WritesBlock, IsBlock
  <2>4. pc[t] = "loop" /\ \E s \in Stages : c \in Elems(workq[s])
    BY <1>1, <1>2 DEF Stages
  <2>5. c \notin Elems(workq'["write"]) /\ state'[c] = ExpectedState["write"]
    BY <2>2, <1>2, <1>5 DEF Stages, ExpectedState
  <2> QED BY <2>0, <1>2, <1>4, <1>5, <2>1, <2>2, <2>3, <2>4, <2>5, StateFacts
          DEF ChunkMove, Holding, ChunkWritable, ChunkFinished
<1>8. FragmentInv'
  BY <1>3, <1>5, StateFacts, FragmentFrame
<1> QED BY <1>6, <1>7, <1>8, MoveStep

\* Thread t finishes the chunk c whose turn it is, and the next chunk may follow.
FinishMove(t, c) ==
    /\ UNCHANGED <<desc, count, prevPiece, nextPiece, lastPiece, flush, fragOf, mayAdd>>
    /\ DOMAIN fragments' = DOMAIN fragments
    /\ c \in Ids /\ c <= count /\ c = finished + 1 /\ state[c] = ChunkWritable
    /\ \/ pc[t] = "loop" /\ c \in Elems(workq["write"])
       \/ pc[t] = "write" /\ Unlocked /\ cur[t] = c
    /\ pc'[t] = "loop"
    /\ \A u \in Threads \ {t} : /\ cur'[u] = cur[u]
                                /\ pc'[u] = pc[u] \/ (pc[u] = "wait" /\ pc'[u] = "enter")
    /\ \A d \in Ids : state'[d] = IF d = c THEN ChunkFinished ELSE state[d]
    /\ finished' = c
    /\ \A s \in Stages : Distinct(workq'[s])
    /\ \A s \in Stages : \A d \in Elems(workq'[s]) :
          \/ d # c /\ d \in Elems(workq[s])
          \/ s = "write" /\ d = c + 1 /\ d \in Ids /\ d <= count /\ state[d] = ChunkWritable

LEMMA FinishStep ==
    ASSUME IInv, NEW t \in Threads, NEW c, FinishMove(t, c), TypeOK'
    PROVE  IInv'
<1>1. /\ c \in Ids /\ c <= count /\ c = finished + 1 /\ finished' = c /\ c \in Nat
      /\ \A d \in Ids : state[d] \in Int /\ state'[d] \in Int /\ state'[d] >= state[d]
      /\ \A d \in Ids : state'[d] = ChunkFinished <=> d = c \/ state[d] = ChunkFinished
  <2>1. c \in Ids /\ c <= count /\ c = finished + 1 /\ finished' = c /\ state[c] = ChunkWritable
    BY DEF FinishMove
  <2>2. \A d \in Ids : state'[d] = IF d = c THEN ChunkFinished ELSE state[d]
    BY DEF FinishMove
  <2> QED BY <2>1, <2>2, StateFacts DEF Ids, ChunkWritable, ChunkFinished
<1>2. \A u \in Threads \ {t} : pc[u] \in Holding => cur[u] # c
  BY QueueFacts DEF FinishMove, IInv, StageInv, Stages, Holding, ExpectedState,
     ChunkNone, ChunkRead, ChunkDeduplicated, ChunkAssigned, ChunkWritable
<1>3. \A u \in Threads : pc'[u] \in Holding =>
        u # t /\ pc'[u] = pc[u] /\ cur'[u] = cur[u] /\ cur[u] # c
  BY <1>2 DEF FinishMove, Holding
<1>4. LockInv'
  BY DEF IInv, LockInv, FinishMove, Unlocked
<1>5. UnusedInv'
  <2>1. finished' <= count'
    BY <1>1 DEF FinishMove
  <2>2. ASSUME NEW d \in Ids, d > count'
        PROVE  desc'[d] = UnusedDesc /\ state'[d] = ChunkNone /\ prevPiece'[d] = 0
    BY <2>2, <1>1, QueueFacts DEF IInv, UnusedInv, FinishMove, Ids
  <2>3. ASSUME NEW d \in Ids, d > count', NEW s \in Stages
        PROVE  d \notin Elems(workq'[s])
    BY <2>3, <1>1, QueueFacts DEF IInv, UnusedInv, FinishMove, Ids
  <2>4. \A u \in Threads : pc'[u] \in Holding => cur'[u] \in 1 .. count'
    BY <1>3, QueueFacts DEF IInv, UnusedInv, FinishMove
  <2>5. \A d \in Ids : d <= count' => desc'[d].kind # "unused"
    BY DEF IInv, UnusedInv, FinishMove
  <2> QED BY <2>1, <2>2, <2>3, <2>4, <2>5 DEF UnusedInv
<1>6. AssertionsHold'
  <2>1. ASSUME NEW s \in Stages, NEW d \in Elems(workq'[s])
        PROVE  state'[d] = ExpectedState[s] /\ (s = "compress" => WritesBlock(d)')
    <3>1. CASE d # c /\ d \in Elems(workq[s])
      <4>1. d \in Ids /\ state[d] = ExpectedState[s]
        BY <3>1, QueueFacts
      <4>2. s = "compress" => WritesBlock(d)
        BY <3>1 DEF IInv, StageInv, AssertionsHold
      <4>3. state'[d] = state[d] /\ desc' = desc /\ flush' = flush
        BY <3>1, <4>1 DEF FinishMove
      <4> QED BY <4>1, <4>2, <4>3 DEF WritesBlock, IsBlock
    <3>2. CASE s = "write" /\ d = c + 1 /\ d \in Ids /\ state[d] = ChunkWritable
      BY <3>2, <1>1 DEF FinishMove, ExpectedState
    <3> QED BY <3>1, <3>2 DEF FinishMove
  <2>2. ASSUME NEW u \in Threads, pc'[u] \in Holding
        PROVE  state'[cur'[u]] = ExpectedState[pc'[u]]
    BY <2>2, <1>3, QueueFacts DEF FinishMove
  <2> QED BY <2>1, <2>2 DEF AssertionsHold, Stages
<1>7. \A u \in Threads : pc'[u] # "write"
  BY <1>1, <1>3 DEF IInv, WriteoutInOrder, Holding
<1>8. StageInv'
  <2>1. \A u \in Threads : pc'[u] = "compress" => WritesBlock(cur[u])'
    BY <1>3 DEF IInv, StageInv, FinishMove, WritesBlock, IsBlock, Holding
  <2>2. ASSUME NEW u \in Threads, pc'[u] \in Holding
        PROVE  cur'[u] \notin Elems(workq'[pc'[u]])
    BY <2>2, <1>3, <1>7 DEF IInv, StageInv, FinishMove, Holding, Stages
  <2>3. \A u, v \in Threads : pc'[u] \in Holding /\ pc'[v] = pc'[u] /\ cur'[v] = cur'[u] => u = v
    BY <1>3 DEF IInv, StageInv
  <2>4. \A s \in Stages : Distinct(workq'[s])
    BY DEF FinishMove
  <2> QED BY <1>6, <1>7, <2>1, <2>2, <2>3, <2>4 DEF StageInv
<1>9. WriteoutInOrder'
  <2>1. \A d \in Elems(workq'["write"]) : d = finished' + 1
    BY <1>1 DEF IInv, WriteoutInOrder, FinishMove, Stages
  <2>2. ASSUME NEW d \in Ids PROVE state'[d] = ChunkFinished <=> d <= finished'
    <3>1. d \in Nat /\ finished \in Nat
      BY QueueFacts DEF Ids
    <3>2. state[d] = ChunkFinished <=> d <= finished
      BY DEF IInv, WriteoutInOrder
    <3> QED BY <1>1, <3>1, <3>2
  <2> QED BY <1>7, <2>1, <2>2 DEF WriteoutInOrder
<1>10. \A d \in Ids : prevPiece[d] = 0 \/ prevPiece[d] \in Ids
  <2>1. prevPiece \in [Ids -> Ids0]
    BY DEF IInv, TypeOK
  <2> QED BY <2>1, BoundsAreNat DEF Ids, Ids0
<1>11. \A d \in Ids : PredecessorAssigned(d) => PredecessorAssigned(d)'
  <2>1. prevPiece' = prevPiece
    BY DEF FinishMove
  <2>2. ASSUME NEW d \in Ids, prevPiece[d] # 0, state[prevPiece[d]] >= ChunkAssigned
        PROVE  state'[prevPiece[d]] >= ChunkAssigned
    <3>1. PICK e \in Ids : e = prevPiece[d]
      BY <1>10, <2>2
    <3>2. state'[e] >= state[e] /\ state[e] \in Int /\ state'[e] \in Int
      BY <1>1
    <3> QED BY <2>2, <3>1, <3>2 DEF ChunkAssigned
  <2> QED BY <2>1, <2>2 DEF PredecessorAssigned
<1>12. PieceInv'
  <2>1. \A d \in Elems(workq'["assign"]) : d \in Ids /\ PredecessorAssigned(d)
    BY QueueFacts DEF FinishMove, Stages, IInv, PieceInv
  <2>2. pc'[Main] \in BeforeClosing => pc[Main] \in BeforeClosing
    BY DEF FinishMove, BeforeClosing, Threads
  <2>3. UNCHANGED <<desc, prevPiece, nextPiece, lastPiece, mayAdd>>
    BY DEF FinishMove
  <2>4. \A d \in Elems(workq'["assign"]) : PredecessorAssigned(d)'
    BY <1>11, <2>1
  <2>5. PieceInv
    BY DEF IInv
  <2>6. mayAdd' \/ pc'[Main] \in BeforeClosing => \A d \in Ids : ~IsClosing(d)'
    BY <2>2, <2>3, <2>5 DEF PieceInv, IsClosing, BeforeClosing
  <2> QED BY <2>3, <2>4, <2>5, <2>6 DEF PieceInv, BeforeClosing
<1>13. FragmentInv'
  <2>1. \A d \in Ids : state'[d] >= ChunkAssigned => state[d] >= ChunkAssigned
    BY <1>1 DEF FinishMove, ChunkWritable, ChunkAssigned
  <2>2. ASSUME NEW d \in Ids, flush'[d] PROVE prevPiece'[d] # 0 /\ PredecessorAssigned(d)'
    BY <1>11, <2>2 DEF IInv, FragmentInv, FinishMove
  <2>3. ASSUME NEW d \in Ids, desc'[d].kind = "piece", state'[d] >= ChunkAssigned
        PROVE  fragOf'[d] \in DOMAIN fragments'
    BY <2>1, <2>3 DEF IInv, FragmentInv, FinishMove
  <2> QED BY <2>2, <2>3 DEF FragmentInv
<1> QED BY <1>4, <1>5, <1>8, <1>9, <1>12, <1>13 DEF IInv

LEMMA MarkFinishedFacts ==
    ASSUME IInv, NEW t \in Threads, NEW c \in Ids, c <= count, NEW q, QueuesOK(q),
           \A s \in Stages : c \notin Elems(q[s]),
           \A s \in Stages : \A d \in Elems(q[s]) : d \in Elems(workq[s]),
           c = finished + 1, MarkFinished(q, c, t)
    PROVE  /\ state' \in [Ids -> ChunkStates]
           /\ \A d \in Ids : state'[d] = IF d = c THEN ChunkFinished ELSE state[d]
           /\ finished' = c /\ finished' \in Ids0
           /\ QueuesOK(workq')
           /\ \A s \in Stages : \A d \in Elems(workq'[s]) :
                 \/ d # c /\ d \in Elems(workq[s])
                 \/ s = "write" /\ d = c + 1 /\ d \in Ids /\ d <= count /\ state[d] = ChunkWritable
           /\ pc' \in [Threads -> PcValues] /\ pc'[t] = "loop"
           /\ \A u \in Threads \ {t} : pc'[u] = pc[u] \/ (pc[u] = "wait" /\ pc'[u] = "enter")
<1>1. /\ state' = [state EXCEPT ![c] = ChunkFinished]
      /\ workq' = IF c < count /\ state[c + 1] = ChunkWritable
                  THEN PushFront(q, "write", c + 1) ELSE q
      /\ finished' = c
  BY Zenon DEF MarkFinished
<1>2. /\ state' \in [Ids -> ChunkStates]
      /\ \A d \in Ids : state'[d] = IF d = c THEN ChunkFinished ELSE state[d]
  BY <1>1, StateFacts, ChunkStateValues
<1>3. QueuesOK(workq') /\ \A s \in Stages : \A d \in Elems(workq'[s]) :
        \/ d # c /\ d \in Elems(workq[s])
        \/ s = "write" /\ d = c + 1 /\ d \in Ids /\ d <= count /\ state[d] = ChunkWritable
  <2>1. CASE c < count /\ state[c + 1] = ChunkWritable
    <3>1. c + 1 \in Ids /\ c + 1 <= count /\ c \in Nat
      BY <2>1, QueueFacts, BoundsAreNat DEF Ids
    <3>2. c + 1 \notin Elems(q["write"])
      <4>1. \A d \in Elems(workq["write"]) : d = c
        BY DEF IInv, WriteoutInOrder
      <4> QED BY <3>1, <4>1 DEF Stages
    <3>3. Added(q, workq', "write", c + 1)
      BY <1>1, <2>1, <3>1, <3>2, PushFrontFacts DEF Stages
    <3> QED BY <2>1, <3>1, <3>3 DEF Added
  <2>2. CASE ~(c < count /\ state[c + 1] = ChunkWritable)
    <3>1. workq' = q
      BY <1>1, <2>2
    <3> QED BY <3>1
  <2> QED BY <2>1, <2>2
<1>4. /\ pc' \in [Threads -> PcValues] /\ pc'[t] = "loop"
      /\ \A u \in Threads \ {t} : pc'[u] = pc[u] \/ (pc[u] = "wait" /\ pc'[u] = "enter")
  <2> DEFINE p == [pc EXCEPT ![t] = "loop"]
  <2>1. p \in [Threads -> PcValues] /\ p[t] = "loop" /\ \A u \in Threads \ {t} : p[u] = pc[u]
    BY StateFacts DEF PcValues
  <2>2. pc' = p \/ pc' = Broadcast(p)
    BY Zenon DEF MarkFinished
  <2> HIDE DEF p
  <2> QED BY <2>1, <2>2 DEF Broadcast, PcValues
<1> QED BY <1>1, <1>2, <1>3, <1>4, StateFacts

LEMMA FinishPieceInv ==
    ASSUME IInv, NEW t \in Threads, FinishPiece(t)
    PROVE  IInv'
<1>0. PICK c : c = Head(workq["write"])
  OBVIOUS
<1> DEFINE q == Pop(workq, "write")
<1>1. /\ pc[t] = "loop" /\ Serves("write")
      /\ MarkFinished(q, c, t)
      /\ UNCHANGED <<listVars, fragVars, imageVars, cached, fragments, dst, size, disk,
                     mayAdd, aborted, cur, spurious>>
  BY <1>0 DEF FinishPiece
<1>2. /\ QueuesOK(q) /\ c \in Ids /\ c <= count
      /\ c \in Elems(workq["write"]) /\ state[c] = ChunkWritable
      /\ \A r \in Stages : c \notin Elems(q[r])
      /\ \A r \in Stages : \A d \in Elems(q[r]) : d \in Elems(workq[r])
  BY <1>0, <1>1, PopHead DEF Stages, ExpectedState
<1>3. c = finished + 1
  BY <1>2 DEF IInv, WriteoutInOrder
<1> HIDE DEF q
<1>4. /\ state' \in [Ids -> ChunkStates]
      /\ \A d \in Ids : state'[d] = IF d = c THEN ChunkFinished ELSE state[d]
      /\ finished' = c /\ finished' \in Ids0
      /\ QueuesOK(workq')
      /\ \A s \in Stages : \A d \in Elems(workq'[s]) :
            \/ d # c /\ d \in Elems(workq[s])
            \/ s = "write" /\ d = c + 1 /\ d \in Ids /\ d <= count /\ state[d] = ChunkWritable
      /\ pc' \in [Threads -> PcValues] /\ pc'[t] = "loop"
      /\ \A u \in Threads \ {t} : pc'[u] = pc[u] \/ (pc[u] = "wait" /\ pc'[u] = "enter")
  BY <1>1, <1>2, <1>3, MarkFinishedFacts
<1>5. TypeOK'
  BY <1>1, <1>4 DEF IInv, TypeOK, QueuesOK, listVars, fragVars, imageVars
<1>6. FinishMove(t, c)
  <2>1. UNCHANGED <<desc, count, prevPiece, nextPiece, lastPiece, flush, fragOf, fragments, cur>>
    BY <1>1 DEF listVars, fragVars
  <2>2. \A s \in Stages : Distinct(workq'[s])
    BY <1>4 DEF QueuesOK
  <2> QED BY <1>1, <1>2, <1>3, <1>4, <2>1, <2>2 DEF FinishMove
<1> QED BY <1>5, <1>6, FinishStep

LEMMA WriteDoneInv ==
    ASSUME IInv, NEW t \in Threads, WriteDone(t)
    PROVE  IInv'
<1>0. PICK c : c = cur[t]
  OBVIOUS
<1> DEFINE b == [ImageBlockOf(c) EXCEPT !.content = <<>>]
<1>1. /\ pc[t] = "write" /\ Unlocked
      /\ disk' = Append(disk, ImageBlockOf(c))
      /\ SetImageBlock(c, b)
      /\ MarkFinished(workq, c, t)
      /\ cur' = [cur EXCEPT ![t] = 0]
      /\ UNCHANGED <<listVars, fragVars, imageVars, cached, size, mayAdd, aborted, spurious>>
  BY <1>0 DEF WriteDone
<1>2. /\ c \in Ids /\ c <= count /\ state[c] = ChunkWritable /\ WritesBlock(c)
      /\ \A s \in Stages : c \notin Elems(workq[s])
      /\ c = finished + 1
  <2>1. /\ c \in Ids /\ c <= count /\ state[c] = ChunkWritable /\ WritesBlock(c)
        /\ \A s \in Stages : c \notin Elems(workq[s])
    BY <1>0, <1>1, QueueFacts
       DEF IInv, StageInv, Holding, Stages, ExpectedState, ChunkNone, ChunkRead,
           ChunkDeduplicated, ChunkAssigned, ChunkWritable
  <2> QED BY <1>0, <1>1, <2>1 DEF IInv, WriteoutInOrder
<1>3. /\ dst' \in [Ids -> ImageBlockType] /\ fragments' \in Seq(FragmentType)
      /\ DOMAIN fragments' = DOMAIN fragments /\ disk' \in Seq(ImageBlockType)
  <2>1. disk \in Seq(ImageBlockType) /\ ImageBlockOf(c) \in ImageBlockType
    BY <1>2, ImageBlockFacts DEF IInv, TypeOK
  <2>2. b \in ImageBlockType
    <3>1. <<>> \in Seq(DataItems)
      OBVIOUS
    <3> QED BY <2>1, <3>1 DEF ImageBlockType
  <2> HIDE DEF b
  <2>3. disk' \in Seq(ImageBlockType)
    BY <1>1, <2>1
  <2> QED BY <1>1, <1>2, <2>2, <2>3, SetImageBlockFacts
<1> HIDE DEF b
<1>4. /\ state' \in [Ids -> ChunkStates]
      /\ \A d \in Ids : state'[d] = IF d = c THEN ChunkFinished ELSE state[d]
      /\ finished' = c /\ finished' \in Ids0
      /\ QueuesOK(workq')
      /\ \A s \in Stages : \A d \in Elems(workq'[s]) :
            \/ d # c /\ d \in Elems(workq[s])
            \/ s = "write" /\ d = c + 1 /\ d \in Ids /\ d <= count /\ state[d] = ChunkWritable
      /\ pc' \in [Threads -> PcValues] /\ pc'[t] = "loop"
      /\ \A u \in Threads \ {t} : pc'[u] = pc[u] \/ (pc[u] = "wait" /\ pc'[u] = "enter")
  BY <1>1, <1>2, QueueFacts, MarkFinishedFacts
<1>5. cur' \in [Threads -> Ids0] /\ \A u \in Threads \ {t} : cur'[u] = cur[u]
  BY <1>1, StateFacts
<1>6. TypeOK'
  BY <1>1, <1>3, <1>4, <1>5 DEF IInv, TypeOK, QueuesOK, listVars, fragVars, imageVars
<1>7. FinishMove(t, c)
  <2>1. UNCHANGED <<desc, count, prevPiece, nextPiece, lastPiece, flush, fragOf>>
    BY <1>1 DEF listVars, fragVars
  <2>2. \A s \in Stages : Distinct(workq'[s])
    BY <1>4 DEF QueuesOK
  <2> QED BY <1>0, <1>1, <1>2, <1>3, <1>4, <1>5, <2>1, <2>2 DEF FinishMove
<1> QED BY <1>6, <1>7, FinishStep

-----------------------------------------------------------------------------
(* Abort, submission and the closing piece.                                *)

LEMMA AbortInv ==
    ASSUME IInv, NEW t \in Threads, Abort(t)
    PROVE  IInv'
<1> USE DEF Abort, listVars, fragVars, imageVars
<1> DEFINE p == [pc EXCEPT ![t] = AfterAbort[pc[t]]]
<1>1. AfterAbort[pc[t]] \in PcValues /\ AfterAbort[pc[t]] \notin Holding \cup {"loop", "wait"}
  BY DEF AfterAbort, PcValues, Holding
<1>2. /\ pc' \in [Threads -> PcValues] /\ pc'[t] = AfterAbort[pc[t]]
      /\ \A u \in Threads \ {t} : pc'[u] = pc[u] \/ (pc[u] = "wait" /\ pc'[u] = "enter")
  <2>1. p \in [Threads -> PcValues] /\ p[t] = AfterAbort[pc[t]]
        /\ \A u \in Threads \ {t} : p[u] = pc[u]
    BY <1>1, StateFacts
  <2>2. pc' = Broadcast(p)
    OBVIOUS
  <2>3. "enter" \in PcValues
    BY DEF PcValues
  <2> HIDE DEF p
  <2> QED BY <1>1, <2>1, <2>2, <2>3 DEF Broadcast
<1>3. \A u \in Threads : pc'[u] \in Holding => pc'[u] = pc[u] /\ cur'[u] = cur[u] /\ u # t
  BY <1>1, <1>2 DEF Holding
<1>4. \A u \in Threads : pc'[u] # "loop"
  BY <1>1, <1>2 DEF Unlocked
<1>5. pc'[Main] \in BeforeClosing => pc[Main] \in BeforeClosing
  <2>1. AfterAbort[pc[t]] \in BeforeClosing => pc[t] = "abort_app"
    BY DEF BeforeClosing, AfterAbort
  <2> QED BY <1>2, <2>1 DEF BeforeClosing, Threads
<1>6. QueuesOK(workq') /\ \A s \in Stages : Elems(workq'[s]) = {}
  BY EmptyFacts
<1> HIDE DEF p
<1>7. TypeOK'
  BY <1>2, <1>6 DEF IInv, TypeOK, QueuesOK
<1>8. LockInv'
  BY <1>4 DEF LockInv
<1>9. UnusedInv'
  <2>1. UNCHANGED <<finished, count, desc, state, prevPiece, cur>>
    OBVIOUS
  <2>2. UnusedInv
    BY DEF IInv
  <2>3. \A u \in Threads : pc'[u] \in Holding => cur'[u] \in 1 .. count'
    BY <1>3, <2>1, <2>2 DEF UnusedInv
  <2> HIDE DEF Abort
  <2> QED BY <1>6, <2>1, <2>2, <2>3 DEF UnusedInv
<1>10. StageInv'
  <2>1. AssertionsHold'
    BY <1>3, <1>6, ZenonT(40) DEF IInv, StageInv, AssertionsHold, WritesBlock, IsBlock, Stages
  <2>2. \A u \in Threads : pc'[u] = "compress" \/ pc'[u] = "write" => WritesBlock(cur[u])'
    BY <1>3 DEF IInv, StageInv, WritesBlock, IsBlock, Holding
  <2>3. \A s \in Stages : Distinct(workq'[s])
    BY <1>6 DEF QueuesOK
  <2>4. \A u \in Threads : pc'[u] \in Holding => cur'[u] \notin Elems(workq'[pc'[u]])
    BY <1>6 DEF Stages, Holding
  <2>5. \A u, v \in Threads : pc'[u] \in Holding /\ pc'[v] = pc'[u] /\ cur'[v] = cur'[u] => u = v
    BY <1>3 DEF IInv, StageInv
  <2> QED BY <2>1, <2>2, <2>3, <2>4, <2>5 DEF StageInv
<1>11. WriteoutInOrder'
  BY <1>3, <1>6 DEF IInv, WriteoutInOrder, Stages, Holding
<1>12. PieceInv'
  <2>1. \A d \in Elems(workq'["assign"]) : PredecessorAssigned(d)'
    BY <1>6 DEF Stages
  <2> QED BY <1>5, <2>1 DEF IInv, PieceInv, IsClosing, BeforeClosing
<1>13. FragmentInv'
  BY DEF IInv, FragmentInv, PredecessorAssigned
<1> QED BY <1>7, <1>8, <1>9, <1>10, <1>11, <1>12, <1>13 DEF IInv

\* The application submits d, or the closing piece; threads that wait may wake up.
EnqueueMove(d) ==
    /\ count < MaxChunks
    /\ d \in Submissions \cup {ClosingDesc}
    /\ EnqueueChunk(d)
    /\ pc[Main] \in BeforeClosing
    /\ Unlocked
    /\ pc' \in [Threads -> PcValues]
    /\ \A u \in Threads \ {Main} : pc'[u] = pc[u] \/ (pc[u] = "wait" /\ pc'[u] = "enter")
    /\ pc'[Main] = IF d = ClosingDesc THEN "enter" ELSE pc[Main]
    /\ mayAdd' = (mayAdd /\ d # ClosingDesc)
    /\ UNCHANGED <<fragVars, imageVars, finished, state, cached, fragments, dst, size,
                   disk, aborted, cur, spurious>>

\* What it does: the new chunk, unknown before, is the last of the read queue and, unless
\* it is a block, of the list of pieces.
LEMMA EnqueueFacts ==
    ASSUME IInv, NEW d, EnqueueMove(d), NEW c, c = count + 1
    PROVE  /\ c \in Ids /\ c \in Ids0 /\ ~(c <= count) /\ c > count /\ count \in Nat
           /\ \A e \in Ids : e <= c <=> e = c \/ e <= count
           /\ \A e \in Ids : e > c => e > count /\ e # c
           /\ UNCHANGED <<fragVars, imageVars, finished, state, cached, fragments, dst, size,
                          disk, aborted, cur, spurious>>
           /\ count' = c
           /\ d.kind \in {"block", "piece", "closing"} /\ (d.kind = "closing" <=> d = ClosingDesc)
           /\ desc' \in [Ids -> Submissions \cup {ClosingDesc, UnusedDesc}] /\ desc'[c] = d
           /\ \A e \in Ids \ {c} : desc'[e] = desc[e]
           /\ prevPiece \in [Ids -> Ids0] /\ nextPiece \in [Ids -> Ids0] /\ lastPiece \in Ids0
           /\ lastPiece # 0 => lastPiece \in Ids /\ desc[lastPiece].kind = "piece"
           /\ state[c] = ChunkNone /\ desc[c] = UnusedDesc /\ prevPiece[c] = 0
           /\ \A s \in Stages : c \notin Elems(workq[s])
           /\ desc[c].kind = "unused"
           /\ Added(workq, workq', "read", c)
           /\ \A u \in Threads : pc'[u] \in Holding \cup {"loop"} => pc'[u] = pc[u] /\ cur'[u] = cur[u]
           /\ \A u \in Threads : pc[u] \in Holding => cur[u] \in Ids /\ cur[u] <= count /\ cur[u] # c
           /\ prevPiece' \in [Ids -> Ids0] /\ nextPiece' \in [Ids -> Ids0] /\ lastPiece' \in Ids0
           /\ \A e \in Ids \ {c} : prevPiece'[e] = prevPiece[e]
           /\ prevPiece'[c] = IF d.kind = "block" THEN 0 ELSE lastPiece
           /\ lastPiece' = IF d.kind = "block" THEN lastPiece ELSE c
           /\ \A e \in Ids : nextPiece'[e] = IF e = lastPiece /\ d.kind # "block" THEN c
                                             ELSE nextPiece[e]
<1>1. /\ c \in Ids /\ c \in Ids0 /\ ~(c <= count) /\ c > count /\ count \in Nat
      /\ \A e \in Ids : e <= c <=> e = c \/ e <= count
      /\ \A e \in Ids : e > c => e > count /\ e # c
  BY QueueFacts, BoundsAreNat DEF EnqueueMove, Ids, Ids0
<1>2. /\ UNCHANGED <<fragVars, imageVars, finished, state, cached, fragments, dst, size,
                     disk, aborted, cur, spurious>>
      /\ desc' = [desc EXCEPT ![c] = d]
      /\ count' = c
      /\ workq' = PushBack(workq, "read", c)
  BY DEF EnqueueMove, EnqueueChunk
<1>3. d.kind \in {"block", "piece", "closing"} /\ (d.kind = "closing" <=> d = ClosingDesc)
  <2>1. ClosingDesc.kind = "closing"
    BY Zenon DEF ClosingDesc
  <2>2. d \in Submissions => d.kind \in {"block", "piece"}
    BY SubmissionsFit
  <2> QED BY <2>1, <2>2 DEF EnqueueMove
<1>4. /\ desc' \in [Ids -> Submissions \cup {ClosingDesc, UnusedDesc}] /\ desc'[c] = d
      /\ \A e \in Ids \ {c} : desc'[e] = desc[e]
  <2>1. desc \in [Ids -> Submissions \cup {ClosingDesc, UnusedDesc}]
    BY DEF IInv, TypeOK
  <2> QED BY <1>1, <1>2, <2>1 DEF EnqueueMove
<1>5. /\ prevPiece \in [Ids -> Ids0] /\ nextPiece \in [Ids -> Ids0] /\ lastPiece \in Ids0
      /\ lastPiece # 0 => lastPiece \in Ids /\ desc[lastPiece].kind = "piece"
  <2>1. prevPiece \in [Ids -> Ids0] /\ nextPiece \in [Ids -> Ids0] /\ lastPiece \in Ids0
    BY DEF IInv, TypeOK
  <2>2. lastPiece # 0 => lastPiece \in Ids
    BY <2>1, BoundsAreNat DEF Ids, Ids0
  <2>3. \A e \in Ids : ~IsClosing(e)
    BY DEF IInv, PieceInv, EnqueueMove, BeforeClosing
  <2>4. lastPiece # 0 => desc[lastPiece].kind \in {"piece", "closing"}
    BY DEF IInv, PieceInv
  <2> QED BY <2>1, <2>2, <2>3, <2>4 DEF IsClosing
\* Nothing refers to the new chunk yet.
<1>6. /\ state[c] = ChunkNone /\ desc[c] = UnusedDesc /\ prevPiece[c] = 0
      /\ \A s \in Stages : c \notin Elems(workq[s])
      /\ desc[c].kind = "unused"
  <2>1. UnusedDesc.kind = "unused"
    BY Zenon DEF UnusedDesc
  <2> QED BY <1>1, <2>1 DEF IInv, UnusedInv
<1>7. Added(workq, workq', "read", c)
  BY <1>1, <1>2, <1>6, QueueFacts, PushBackFacts DEF Stages
<1>8. \A u \in Threads : pc'[u] \in Holding \cup {"loop"} => pc'[u] = pc[u] /\ cur'[u] = cur[u]
  BY <1>2 DEF EnqueueMove, BeforeClosing, Holding
<1>9. \A u \in Threads : pc[u] \in Holding => cur[u] \in Ids /\ cur[u] <= count /\ cur[u] # c
  BY <1>1, QueueFacts
\* The links of the piece list.
<1>10. /\ prevPiece' \in [Ids -> Ids0] /\ nextPiece' \in [Ids -> Ids0] /\ lastPiece' \in Ids0
       /\ \A e \in Ids \ {c} : prevPiece'[e] = prevPiece[e]
       /\ prevPiece'[c] = IF d.kind = "block" THEN 0 ELSE lastPiece
       /\ lastPiece' = IF d.kind = "block" THEN lastPiece ELSE c
       /\ \A e \in Ids : nextPiece'[e] = IF e = lastPiece /\ d.kind # "block" THEN c
                                         ELSE nextPiece[e]
  <2>1. CASE d.kind = "block"
    BY <1>5, <1>6, <2>1 DEF EnqueueMove, EnqueueChunk
  <2>2. CASE d.kind # "block"
    <3>1. /\ prevPiece' = [prevPiece EXCEPT ![c] = lastPiece]
          /\ nextPiece' = IF lastPiece = 0 THEN nextPiece
                          ELSE [nextPiece EXCEPT ![lastPiece] = c]
          /\ lastPiece' = c
      BY <2>2 DEF EnqueueMove, EnqueueChunk
    <3> QED BY <1>1, <1>5, <2>2, <3>1, BoundsAreNat DEF Ids
  <2> QED BY <2>1, <2>2
<1> QED BY <1>1, <1>2, <1>3, <1>4, <1>5, <1>6, <1>7, <1>8, <1>9, <1>10

LEMMA EnqueueStep ==
    ASSUME IInv, NEW d, EnqueueMove(d)
    PROVE  IInv'
<1>0. PICK c : c = count + 1
  OBVIOUS
<1>1. /\ c \in Ids /\ c \in Ids0 /\ ~(c <= count) /\ c > count /\ count \in Nat
      /\ \A e \in Ids : e <= c <=> e = c \/ e <= count
      /\ \A e \in Ids : e > c => e > count /\ e # c
  BY <1>0, EnqueueFacts
<1>2. /\ UNCHANGED <<fragVars, imageVars, finished, state, cached, fragments, dst, size,
                     disk, aborted, cur, spurious>>
      /\ count' = c
  BY <1>0, EnqueueFacts
<1>3. d.kind \in {"block", "piece", "closing"} /\ (d.kind = "closing" <=> d = ClosingDesc)
  BY <1>0, EnqueueFacts
<1>4. /\ desc' \in [Ids -> Submissions \cup {ClosingDesc, UnusedDesc}] /\ desc'[c] = d
      /\ \A e \in Ids \ {c} : desc'[e] = desc[e]
  BY <1>0, EnqueueFacts
<1>5. /\ prevPiece \in [Ids -> Ids0] /\ nextPiece \in [Ids -> Ids0] /\ lastPiece \in Ids0
      /\ lastPiece # 0 => lastPiece \in Ids /\ desc[lastPiece].kind = "piece"
  BY <1>0, EnqueueFacts
<1>6. /\ state[c] = ChunkNone /\ desc[c] = UnusedDesc /\ prevPiece[c] = 0
      /\ \A s \in Stages : c \notin Elems(workq[s])
      /\ desc[c].kind = "unused"
  BY <1>0, EnqueueFacts
<1>7. Added(workq, workq', "read", c)
  BY <1>0, EnqueueFacts
<1>8. \A u \in Threads : pc'[u] \in Holding \cup {"loop"} => pc'[u] = pc[u] /\ cur'[u] = cur[u]
  BY <1>0, EnqueueFacts
<1>9. \A u \in Threads : pc[u] \in Holding => cur[u] \in Ids /\ cur[u] <= count /\ cur[u] # c
  BY <1>0, EnqueueFacts
<1>10. /\ prevPiece' \in [Ids -> Ids0] /\ nextPiece' \in [Ids -> Ids0] /\ lastPiece' \in Ids0
       /\ \A e \in Ids \ {c} : prevPiece'[e] = prevPiece[e]
       /\ prevPiece'[c] = IF d.kind = "block" THEN 0 ELSE lastPiece
       /\ lastPiece' = IF d.kind = "block" THEN lastPiece ELSE c
       /\ \A e \in Ids : \/ nextPiece'[e] = nextPiece[e]
                         \/ e = lastPiece /\ nextPiece'[e] = c /\ d.kind # "block"
  BY <1>0, EnqueueFacts
<1>11. TypeOK'
  <2>1. mayAdd' \in BOOLEAN /\ pc' \in [Threads -> PcValues]
    BY DEF EnqueueMove
  <2> QED BY <1>1, <1>2, <1>4, <1>7, <1>10, <2>1
          DEF IInv, TypeOK, Added, QueuesOK, fragVars, imageVars
<1>12. LockInv'
  BY <1>8 DEF IInv, LockInv
<1>13. UnusedInv'
  <2>1. UnusedInv /\ finished' = finished /\ state' = state
    BY <1>2 DEF IInv
  <2>2. finished' <= count'
    BY <1>0, <1>1, <1>2, <2>1, QueueFacts DEF UnusedInv
  <2>3. \A e \in Ids : e <= count' => desc'[e].kind # "unused"
    BY <1>1, <1>2, <1>3, <1>4, <2>1 DEF UnusedInv
  <2>4. ASSUME NEW e \in Ids, e > count'
        PROVE  desc'[e] = UnusedDesc /\ state'[e] = ChunkNone /\ prevPiece'[e] = 0
    BY <1>1, <1>2, <1>4, <1>10, <2>1, <2>4 DEF UnusedInv
  <2>5. ASSUME NEW e \in Ids, e > count', NEW s \in Stages PROVE e \notin Elems(workq'[s])
    BY <1>1, <1>2, <1>7, <2>1, <2>5 DEF UnusedInv, Added
  <2>6. \A u \in Threads : pc'[u] \in Holding => cur'[u] \in 1 .. count'
    BY <1>1, <1>2, <1>8, <1>9 DEF Ids
  <2> QED BY <2>2, <2>3, <2>4, <2>5, <2>6 DEF UnusedInv
<1>14. \A e \in Ids \ {c} : WritesBlock(e) => WritesBlock(e)'
  BY <1>2, <1>4 DEF WritesBlock, IsBlock, fragVars
<1>15. StageInv'
  <2>1. ASSUME NEW s \in Stages, NEW e \in Elems(workq'[s])
        PROVE  state'[e] = ExpectedState[s] /\ (s = "compress" => WritesBlock(e)')
    <3>1. CASE e \in Elems(workq[s])
      <4>1. e \in Ids /\ e # c /\ state[e] = ExpectedState[s]
        BY <1>6, <3>1, QueueFacts
      <4>2. s = "compress" => WritesBlock(e)
        BY <3>1 DEF IInv, StageInv, AssertionsHold
      <4> QED BY <1>2, <1>14, <4>1, <4>2
    <3>2. CASE e = c /\ s = "read"
      BY <1>2, <1>6, <3>2 DEF ExpectedState
    <3> QED BY <1>7, <3>1, <3>2 DEF Added
  <2>2. ASSUME NEW u \in Threads, pc'[u] \in Holding
        PROVE  /\ state'[cur'[u]] = ExpectedState[pc'[u]]
               /\ cur'[u] \notin Elems(workq'[pc'[u]])
    BY <1>2, <1>7, <1>8, <1>9, <2>2, QueueFacts DEF IInv, StageInv, Added, Holding, Stages
  <2>3. AssertionsHold'
    BY <2>1, <2>2 DEF AssertionsHold, Stages
  <2>4. \A u \in Threads : pc'[u] = "compress" \/ pc'[u] = "write" => WritesBlock(cur[u])'
    <3>1. ASSUME NEW u \in Threads, pc'[u] = "compress" \/ pc'[u] = "write"
          PROVE  WritesBlock(cur[u])'
      <4>1. PICK e : e = cur[u]
        OBVIOUS
      <4>2. pc[u] = pc'[u] /\ e \in Ids \ {c} /\ e = cur'[u]
        BY <1>8, <1>9, <3>1, <4>1 DEF Holding
      <4>3. WritesBlock(e)
        BY <3>1, <4>1, <4>2 DEF IInv, StageInv
      <4> QED BY <1>14, <4>2, <4>3
    <3> QED BY <3>1
  <2>5. \A s \in Stages : Distinct(workq'[s])
    BY <1>7 DEF Added, QueuesOK
  <2>6. \A u, v \in Threads : pc'[u] \in Holding /\ pc'[v] = pc'[u] /\ cur'[v] = cur'[u] => u = v
    BY <1>8 DEF IInv, StageInv
  <2> QED BY <2>2, <2>3, <2>4, <2>5, <2>6 DEF StageInv
<1>16. WriteoutInOrder'
  <2>1. Elems(workq'["write"]) = Elems(workq["write"])
    BY <1>7 DEF Added, Stages
  <2> QED BY <1>2, <1>8, <2>1 DEF IInv, WriteoutInOrder, Holding
<1>17. PieceInv'
  <2>1. lastPiece' # 0 => desc'[lastPiece'].kind \in {"piece", "closing"}
    BY <1>1, <1>3, <1>4, <1>5, <1>6, <1>10
  <2>2. mayAdd' \/ pc'[Main] \in BeforeClosing => \A e \in Ids : ~IsClosing(e)'
    <3>1. \A e \in Ids : desc[e].kind # "closing"
      BY DEF IInv, PieceInv, EnqueueMove, BeforeClosing, IsClosing
    <3>2. mayAdd' \/ pc'[Main] \in BeforeClosing => d.kind # "closing"
      BY <1>3 DEF EnqueueMove, BeforeClosing
    <3> QED BY <1>4, <3>1, <3>2 DEF IsClosing
  <2>3. ASSUME NEW e \in Ids, prevPiece'[e] # 0 PROVE desc'[prevPiece'[e]].kind = "piece"
    <3>1. PICK x : x = prevPiece'[e]
      OBVIOUS
    <3>2. x \in Ids
      BY <1>10, <2>3, <3>1, BoundsAreNat DEF Ids, Ids0
    <3>3. desc[x].kind = "piece"
      BY <1>5, <1>10, <2>3, <3>1 DEF IInv, PieceInv
    <3>4. desc'[x] = desc[x]
      BY <1>4, <1>6, <3>2, <3>3
    <3> QED BY <3>1, <3>3, <3>4
  <2>4. \A e \in Ids : desc'[e].kind = "block" => prevPiece'[e] = 0
    BY <1>4, <1>10 DEF IInv, PieceInv
  <2>5. ASSUME NEW e \in Ids, nextPiece'[e] # 0 PROVE prevPiece'[nextPiece'[e]] = e
    <3>1. CASE e = lastPiece /\ nextPiece'[e] = c /\ d.kind # "block"
      BY <1>10, <3>1
    <3>2. CASE nextPiece'[e] = nextPiece[e]
      <4>1. PICK x : x = nextPiece[e]
        OBVIOUS
      <4>2. x \in Ids
        BY <1>5, <2>5, <3>2, <4>1, BoundsAreNat DEF Ids, Ids0
      <4>3. prevPiece[x] = e
        BY <2>5, <3>2, <4>1 DEF IInv, PieceInv
      <4>4. x # c
        BY <1>6, <4>3, BoundsAreNat DEF Ids
      <4> QED BY <1>10, <3>2, <4>1, <4>2, <4>3, <4>4
    <3> QED BY <1>10, <3>1, <3>2
  <2>6. ASSUME NEW e \in Elems(workq'["assign"]) PROVE PredecessorAssigned(e)'
    <3>1. e \in Elems(workq["assign"])
      BY <1>7 DEF Added, Stages
    <3>2. e \in Ids /\ e # c /\ PredecessorAssigned(e)
      BY <1>6, <3>1, QueueFacts DEF IInv, PieceInv, Stages
    <3> QED BY <1>2, <1>10, <3>2 DEF PredecessorAssigned
  <2> QED BY <2>1, <2>2, <2>3, <2>4, <2>5, <2>6 DEF PieceInv, BeforeClosing
<1>18. FragmentInv'
  <2>1. flush' = flush /\ fragOf' = fragOf /\ fragments' = fragments /\ state' = state
    BY <1>2 DEF fragVars
  <2>2. ASSUME NEW e \in Ids, flush[e] PROVE prevPiece'[e] # 0 /\ PredecessorAssigned(e)'
    <3>1. prevPiece[e] # 0 /\ PredecessorAssigned(e)
      BY <2>2 DEF IInv, FragmentInv
    <3> QED BY <1>6, <1>10, <2>1, <3>1 DEF PredecessorAssigned
  <2>3. ASSUME NEW e \in Ids, desc'[e].kind = "piece", state[e] >= ChunkAssigned
        PROVE  fragOf[e] \in DOMAIN fragments
    <3>1. e # c
      BY <1>6, <2>3 DEF ChunkNone, ChunkAssigned
    <3> QED BY <1>4, <2>3, <3>1 DEF IInv, FragmentInv
  <2> QED BY <2>1, <2>2, <2>3 DEF FragmentInv
<1> QED BY <1>11, <1>12, <1>13, <1>15, <1>16, <1>17, <1>18 DEF IInv

\* Waking one waiting thread, or none.
LEMMA SignalFacts ==
    ASSUME NEW p \in [Threads -> PcValues], NEW r \in Signalled(p)
    PROVE  /\ r \in [Threads -> PcValues]
           /\ \A u \in Threads : r[u] = p[u] \/ (p[u] = "wait" /\ r[u] = "enter")
BY DEF Signalled, PcValues

LEMMA SubmitMove ==
    ASSUME IInv, NEW d \in Submissions, Submit(d)
    PROVE  EnqueueMove(d)
<1>1. /\ pc' \in [Threads -> PcValues]
      /\ \A u \in Threads : pc'[u] = pc[u] \/ (pc[u] = "wait" /\ pc'[u] = "enter")
  BY StateFacts, SignalFacts DEF Submit
<1>2. d # ClosingDesc
  <2>1. ClosingDesc.kind = "closing"
    BY Zenon DEF ClosingDesc
  <2> QED BY <2>1, SubmissionsFit
<1>3. mayAdd' \in BOOLEAN /\ count < MaxChunks
  BY QueueFacts, BoundsAreNat DEF Submit, IInv, TypeOK
<1> QED BY <1>1, <1>2, <1>3 DEF Submit, EnqueueMove, BeforeClosing, Threads

LEMMA SubmitInv ==
    ASSUME IInv, NEW d \in Submissions, Submit(d)
    PROVE  IInv'
BY SubmitMove, EnqueueStep

LEMMA SealEnqueueMove ==
    ASSUME IInv, SealEnqueue
    PROVE  EnqueueMove(ClosingDesc)
<1> DEFINE p == [pc EXCEPT ![Main] = "enter"]
<1>1. /\ p \in [Threads -> PcValues] /\ p[Main] = "enter" /\ Main \in Threads
      /\ \A u \in Threads \ {Main} : p[u] = pc[u]
  BY StateFacts DEF PcValues, Threads
<1>2. PICK r \in Signalled(p) : pc' \in Signalled(r)
  BY DEF SealEnqueue
<1> HIDE DEF p
<1>3. /\ r \in [Threads -> PcValues]
      /\ \A u \in Threads : r[u] = p[u] \/ (p[u] = "wait" /\ r[u] = "enter")
  BY <1>1, SignalFacts
<1>4. /\ pc' \in [Threads -> PcValues]
      /\ \A u \in Threads : pc'[u] = r[u] \/ (r[u] = "wait" /\ pc'[u] = "enter")
  BY <1>2, <1>3, SignalFacts
<1>5. pc'[Main] = "enter"
  BY <1>1, <1>3, <1>4
<1>6. \A u \in Threads \ {Main} : pc'[u] = pc[u] \/ (pc[u] = "wait" /\ pc'[u] = "enter")
  BY <1>1, <1>3, <1>4
<1>7. count < MaxChunks
  BY DEF SealEnqueue
<1> QED BY <1>4, <1>5, <1>6, <1>7 DEF SealEnqueue, EnqueueMove, BeforeClosing

LEMMA SealEnqueueInv ==
    ASSUME IInv, SealEnqueue
    PROVE  IInv'
BY SealEnqueueMove, EnqueueStep

-----------------------------------------------------------------------------
(* The theorems.                                                           *)

LEMMA InitInv == Init => IInv
<1> SUFFICES ASSUME Init PROVE IInv
  OBVIOUS
<1>0. /\ desc = [c \in Ids |-> UnusedDesc] /\ count = 0 /\ finished = 0
      /\ state = [c \in Ids |-> ChunkNone] /\ workq = EmptyQueues
      /\ cached = [c \in Ids |-> FALSE] /\ prevPiece = [c \in Ids |-> 0]
      /\ nextPiece = [c \in Ids |-> 0] /\ lastPiece = 0 /\ flush = [c \in Ids |-> FALSE]
      /\ fragOf = [c \in Ids |-> 0] /\ offsetOf = [c \in Ids |-> -1] /\ fragments = <<>>
      /\ dst = [c \in Ids |-> NoImageBlock] /\ size = DataStart /\ disk = <<>>
      /\ mayAdd = TRUE /\ aborted = FALSE /\ imgState = "building"
      /\ pc = [t \in Threads |-> IF t = Main THEN "app" ELSE "unspawned"]
      /\ cur = [t \in Threads |-> 0] /\ spurious = 0
  BY Zenon DEF Init
<1> USE <1>0, BoundsAreNat
<1>1. QueuesOK(workq) /\ \A s \in Stages : Elems(workq[s]) = {}
  BY EmptyFacts
<1>2. 0 \in Ids0 /\ 0 \in Nat /\ -1 \in Int /\ 0 \in 0 .. MaxSpurious
  BY DEF Ids0
<1>3. NoImageBlock \in ImageBlockType
  BY DEF NoImageBlock, ImageBlockType
<1>4. /\ pc \in [Threads -> PcValues]
      /\ \A t \in Threads : pc[t] \in {"app", "unspawned"}
  BY DEF PcValues
<1>5. \A c \in Ids : desc[c] = UnusedDesc /\ desc[c].kind = "unused" /\ c \in Nat /\ c > 0
  <2>1. UnusedDesc.kind = "unused"
    BY Zenon DEF UnusedDesc
  <2> QED BY <2>1 DEF Ids
<1>6. TypeOK
  <2>1. fragments \in Seq(FragmentType) /\ disk \in Seq(ImageBlockType)
    OBVIOUS
  <2>2. workq \in [Stages -> Seq(Ids)]
    BY <1>1 DEF QueuesOK
  <2>3. state \in [Ids -> ChunkStates]
    BY ChunkStateValues
  <2>4. /\ cached \in [Ids -> BOOLEAN] /\ flush \in [Ids -> BOOLEAN]
        /\ fragOf \in [Ids -> Nat] /\ offsetOf \in [Ids -> Int]
        /\ prevPiece \in [Ids -> Ids0] /\ nextPiece \in [Ids -> Ids0]
        /\ cur \in [Threads -> Ids0] /\ dst \in [Ids -> ImageBlockType]
        /\ desc \in [Ids -> Submissions \cup {ClosingDesc, UnusedDesc}]
    BY <1>2, <1>3
  <2> QED BY <1>2, <1>4, <2>1, <2>2, <2>3, <2>4 DEF TypeOK
<1>7. LockInv
  BY <1>4 DEF LockInv
<1>8. UnusedInv
  <2>1. \A t \in Threads : pc[t] \notin Holding
    BY <1>4 DEF Holding
  <2>2. \A c \in Ids : state[c] = ChunkNone /\ prevPiece[c] = 0 /\ ~(c <= count)
    BY <1>5
  <2>3. \A c \in Ids : \A s \in Stages : c \notin Elems(workq[s])
    BY <1>1
  <2> QED BY <1>5, <2>1, <2>2, <2>3 DEF UnusedInv
<1>9. StageInv
  <2>1. \A t \in Threads : pc[t] \notin Holding
    BY <1>4 DEF Holding
  <2>2. AssertionsHold
    BY <1>1, <2>1 DEF AssertionsHold, Stages
  <2> QED BY <1>1, <1>4, <2>1, <2>2 DEF StageInv, QueuesOK
<1>10. WriteoutInOrder
  BY <1>1, <1>4, <1>5 DEF WriteoutInOrder, Stages, ChunkNone, ChunkFinished
<1>11. PieceInv
  <2>1. \A c \in Ids : ~IsClosing(c) /\ desc[c].kind # "block"
    BY <1>5 DEF IsClosing
  <2> QED BY <1>1, <2>1 DEF PieceInv, Stages
<1>12. FragmentInv
  BY <1>5 DEF FragmentInv
<1> QED BY <1>6, <1>7, <1>8, <1>9, <1>10, <1>11, <1>12 DEF IInv

LEMMA NextInv == IInv /\ [Next]_vars => IInv'
<1> SUFFICES ASSUME IInv, [Next]_vars PROVE IInv'
  OBVIOUS
<1>1. ASSUME NEW d \in Submissions, Submit(d) PROVE IInv'
  BY <1>1, SubmitInv
<1>2. CASE UserAbort \/ Finalize \/ SealCheck \/ SealFail \/ \E w \in Workers : Spawn(w)
  BY <1>2, QuietMainInv
<1>3. CASE SealEnqueue
  BY <1>3, SealEnqueueInv
<1>4. ASSUME NEW t \in Threads, ThreadStep(t) \/ SpuriousWake(t) PROVE IInv'
  <2>1. CASE QuietStep(t)
    BY <2>1, QuietStepInv
  <2>2. CASE FinishPiece(t)
    BY <2>2, FinishPieceInv
  <2>3. CASE StartWrite(t)
    BY <2>3, StartWriteInv
  <2>4. CASE StartCompress(t)
    BY <2>4, StartCompressInv
  <2>5. CASE AssignBlock(t)
    BY <2>5, AssignBlockInv
  <2>6. CASE AssignPiece(t)
    BY <2>6, AssignPieceInv
  <2>7. CASE AssignFail(t)
    BY <2>7, AssignFailInv
  <2>8. CASE Deduplicate(t)
    BY <2>8, DeduplicateInv
  <2>9. CASE StartRead(t)
    BY <2>9, StartReadInv
  <2>10. CASE ReadDone(t)
    BY <2>10, ReadDoneInv
  <2>11. CASE CompressDone(t)
    BY <2>11, CompressDoneInv
  <2>12. CASE WriteDone(t)
    BY <2>12, WriteDoneInv
  <2>13. CASE Abort(t)
    BY <2>13, AbortInv
  <2> QED BY <1>4, <2>1, <2>2, <2>3, <2>4, <2>5, <2>6, <2>7, <2>8, <2>9, <2>10, <2>11,
             <2>12, <2>13 DEF ThreadStep, LoopStep, QuietStep
<1>5. CASE UNCHANGED vars
  <2> USE <1>5 DEF vars, bulkVars, imageVars
  <2>1. TypeOK' /\ LockInv'
    BY DEF IInv, TypeOK, LockInv
  <2>2. AssertionsHold'
    BY DEF IInv, StageInv, AssertionsHold, WritesBlock, IsBlock
  <2>3. UnusedInv' /\ WriteoutInOrder'
    BY DEF IInv, UnusedInv, WriteoutInOrder
  <2>4. StageInv'
    BY <2>2 DEF IInv, StageInv, WritesBlock, IsBlock
  <2>5. PieceInv' /\ FragmentInv'
    BY DEF IInv, PieceInv, FragmentInv, PredecessorAssigned, IsClosing
  <2> QED BY <2>1, <2>3, <2>4, <2>5 DEF IInv
<1> QED BY <1>1, <1>2, <1>3, <1>4, <1>5 DEF Next, PipelineStep, SealStep

\* The invariant holds in every state of the pipeline, for any number of workers and
\* chunks, with any of the failures of allocation, reading, writing and abort.
THEOREM PipelineInvariant == Spec => []IInv
<1>1. Init => IInv
  BY InitInv
<1>2. IInv /\ [Next]_vars => IInv'
  BY NextInv
<1> QED BY <1>1, <1>2, PTL DEF Spec

\* The variables of the pipeline keep their types: in particular no index of a chunk or
\* of a fragment block ever leaves its range.
THEOREM TypeCorrect == Spec => []TypeOK
<1>1. IInv => TypeOK
  BY DEF IInv
<1> QED BY <1>1, PipelineInvariant, PTL

\* The assertions in the methods of a chunk never fail.
THEOREM AssertionsNeverFail == Spec => []AssertionsHold
<1>1. IInv => AssertionsHold
  BY DEF IInv, StageInv
<1> QED BY <1>1, PipelineInvariant, PTL

\* Chunks are written in the order of their submission, one at a time.
THEOREM WrittenInOrder == Spec => []WriteoutInOrder
<1>1. IInv => WriteoutInOrder
  BY DEF IInv
<1> QED BY <1>1, PipelineInvariant, PTL

\* The work queues are intact lists, and no two threads work on one chunk.
THEOREM ChunksHandedOutOnce == Spec => []HandedOutOnce
<1>1. IInv => HandedOutOnce
  <2> SUFFICES ASSUME IInv PROVE HandedOutOnce
    OBVIOUS
  <2> USE DEF Stages, Holding, ExpectedState, ChunkNone, ChunkRead, ChunkDeduplicated,
          ChunkAssigned, ChunkWritable
  <2>1. \A s \in Stages : Distinct(workq[s])
    BY DEF IInv, StageInv
  <2>2. ASSUME NEW s \in Stages, NEW r \in Stages, s # r
        PROVE  Elems(workq[s]) \cap Elems(workq[r]) = {}
    BY <2>2, QueueFacts
  <2>3. ASSUME NEW t \in Threads, pc[t] \in Holding
        PROVE  \A s \in Stages : cur[t] \notin Elems(workq[s])
    BY <2>3, QueueFacts DEF IInv, StageInv
  <2>4. ASSUME NEW t \in Threads, pc[t] \in Holding, NEW u \in Threads \ {t}, pc[u] \in Holding
        PROVE  cur[u] # cur[t]
    BY <2>4, QueueFacts DEF IInv, StageInv
  <2> QED BY <2>1, <2>2, <2>3, <2>4 DEF HandedOutOnce
<1> QED BY <1>1, PipelineInvariant, PTL

-----------------------------------------------------------------------------
(* Fragment blocks: the invariants ListInv, AssignOrder, LayoutInv and     *)
(* FlushInv of BulkDataInvariants, proved on top of IInv.                  *)

-----------------------------------------------------------------------------
(* What the steps do to a chunk.                                           *)

\* Appending to a sequence, and replacing an element of one.
LEMMA AppendShape ==
    ASSUME NEW S, NEW q \in Seq(S), NEW x \in S
    PROVE  /\ Append(q, x) \in Seq(S) /\ Len(Append(q, x)) = Len(q) + 1
           /\ DOMAIN Append(q, x) = 1 .. Len(q) + 1 /\ Len(q) \in Nat /\ DOMAIN q = 1 .. Len(q)
           /\ Append(q, x)[Len(q) + 1] = x
           /\ \A k \in DOMAIN q : Append(q, x)[k] = q[k] /\ k \in DOMAIN Append(q, x)
OBVIOUS

LEMMA ReplaceShape ==
    ASSUME NEW S, NEW q \in Seq(S), NEW b \in DOMAIN q, NEW x \in S
    PROVE  /\ [q EXCEPT ![b] = x] \in Seq(S) /\ Len([q EXCEPT ![b] = x]) = Len(q)
           /\ DOMAIN [q EXCEPT ![b] = x] = DOMAIN q
           /\ \A k \in DOMAIN q : [q EXCEPT ![b] = x][k] = IF k = b THEN x ELSE q[k]
OBVIOUS

\* Chunk c, and no other, gets state v.
StateStep(c, v) ==
    /\ c \in Ids /\ v \in ChunkStates
    /\ state' \in [Ids -> ChunkStates]
    /\ \A d \in Ids : state'[d] = IF d = c THEN v ELSE state[d]

LEMMA StateStepFacts ==
    ASSUME IInv, NEW c \in Ids, NEW v \in ChunkStates, state' = [state EXCEPT ![c] = v]
    PROVE  StateStep(c, v)
BY StateFacts DEF StateStep

\* Nothing that is compared by the layout of fragment blocks changes: chunks move on,
\* but none of the pieces is assigned, and only a chunk that has just been read joins
\* the queue for assignment.
LayoutQuiet ==
    /\ UNCHANGED <<listVars, fragVars>>
    /\ fragments' \in Seq(FragmentType) /\ Len(fragments') = Len(fragments)
    /\ \A b \in DOMAIN fragments : /\ fragments'[b].pieces = fragments[b].pieces
                                   /\ fragments'[b].size = fragments[b].size
    /\ \A c \in Ids : /\ state'[c] \in Int /\ state'[c] >= state[c]
                      /\ InList(c) => (IsAssigned(c)' <=> IsAssigned(c))
    /\ \A c \in Elems(workq'["assign"]) :
          c \in Elems(workq["assign"]) \/ (c \in Ids /\ state[c] = ChunkRead)

\* Setting the image block of a chunk leaves the pieces of all blocks alone.
LEMMA ImageBlockFrame ==
    ASSUME IInv, NEW c \in Ids, WritesBlock(c), NEW blk \in ImageBlockType,
           SetImageBlock(c, blk)
    PROVE  /\ fragments' \in Seq(FragmentType) /\ Len(fragments') = Len(fragments)
           /\ dst' \in [Ids -> ImageBlockType]
           /\ \A b \in DOMAIN fragments :
                 /\ fragments'[b].pieces = fragments[b].pieces
                 /\ fragments'[b].size = fragments[b].size
                 /\ fragments'[b].dst = IF ~IsBlock(c) /\ b = FlushedBlock(c) THEN blk
                                        ELSE fragments[b].dst
           /\ \A d \in Ids : dst'[d] = IF IsBlock(c) /\ d = c THEN blk ELSE dst[d]
<1>1. dst \in [Ids -> ImageBlockType] /\ fragments \in Seq(FragmentType)
  BY DEF IInv, TypeOK
<1>2. CASE IsBlock(c)
  BY <1>1, <1>2 DEF SetImageBlock
<1>3. CASE ~IsBlock(c)
  <2>1. PICK k : k = FlushedBlock(c)
    OBVIOUS
  <2>2. k \in DOMAIN fragments /\ fragments[k] \in FragmentType
    BY <1>1, <1>3, <2>1, ImageBlockFacts
  <2> DEFINE f == [fragments[k] EXCEPT !.dst = blk]
  <2>3. fragments' = [fragments EXCEPT ![k] = f] /\ dst' = dst
    BY <1>3, <2>1, <2>2 DEF SetImageBlock
  <2>4. f \in FragmentType /\ f.pieces = fragments[k].pieces /\ f.size = fragments[k].size
        /\ f.dst = blk
    BY <2>2 DEF FragmentType
  <2> HIDE DEF f
  <2>5. fragments' \in Seq(FragmentType) /\ Len(fragments') = Len(fragments)
        /\ \A b \in DOMAIN fragments : fragments'[b] = IF b = k THEN f ELSE fragments[b]
    BY <1>1, <2>2, <2>3, <2>4
  <2> QED BY <1>1, <1>3, <2>1, <2>3, <2>4, <2>5
<1> QED BY <1>2, <1>3

LEMMA ReadDoneFacts ==
    ASSUME IInv, NEW t \in Threads, ReadDone(t), NEW c, c = cur[t]
    PROVE  /\ c \in Ids /\ c <= count /\ state[c] = ChunkNone /\ StateStep(c, ChunkRead)
           /\ \A d \in Ids : cached'[d] = IF d = c THEN TRUE ELSE cached[d]
           /\ Added(workq, workq', "dedup", c)
           /\ pc'[t] = "loop" /\ \A u \in Threads \ {t} : pc'[u] = pc[u] /\ cur'[u] = cur[u]
<1>1. pc[t] = "read" /\ t \in Threads
  BY DEF ReadDone
<1>2. c \in Ids /\ c <= count /\ state[c] = ChunkNone
  BY <1>1, QueueFacts DEF Holding, ExpectedState
<1>3. StateStep(c, ChunkRead)
  BY <1>2, StateStepFacts, ChunkStateValues DEF ReadDone
<1>4. cached \in [Ids -> BOOLEAN]
  BY DEF IInv, TypeOK
<1>5. c \notin Elems(workq["dedup"]) /\ "dedup" \in Stages
  BY <1>2, QueueFacts DEF Stages, ExpectedState, ChunkNone, ChunkRead
<1>6. Added(workq, workq', "dedup", c)
  BY <1>2, <1>5, QueueFacts, PushFrontFacts DEF ReadDone
<1> QED BY <1>1, <1>2, <1>3, <1>4, <1>6, StateFacts DEF ReadDone

LEMMA StartReadFacts ==
    ASSUME IInv, NEW t \in Threads, StartRead(t), NEW c, c = Head(workq["read"])
    PROVE  /\ c \in Ids /\ c <= count /\ state[c] = ChunkNone
           /\ IsClosing(c) => /\ StateStep(c, ChunkRead) /\ UNCHANGED <<pc, cur>>
                              /\ Added(Pop(workq, "read"), workq', "dedup", c)
           /\ ~IsClosing(c) => /\ state' = state /\ workq' = Pop(workq, "read")
                               /\ pc'[t] = "read" /\ cur'[t] = c
                               /\ \A u \in Threads \ {t} : pc'[u] = pc[u] /\ cur'[u] = cur[u]
           /\ Removed(workq, Pop(workq, "read"), "read", c)
<1>1. pc[t] = "loop" /\ Serves("read") /\ "read" \in Stages /\ "dedup" \in Stages
  BY DEF StartRead, Stages
<1>2. /\ c \in Ids /\ c <= count /\ state[c] = ChunkNone
      /\ Removed(workq, Pop(workq, "read"), "read", c) /\ QueuesOK(Pop(workq, "read"))
      /\ \A r \in Stages : c \notin Elems(Pop(workq, "read")[r])
  BY <1>1, PopHead DEF ExpectedState
<1>3. CASE IsClosing(c)
  <2>1. /\ state' = [state EXCEPT ![c] = ChunkRead] /\ UNCHANGED <<pc, cur>>
        /\ workq' = PushFront(Pop(workq, "read"), "dedup", c)
    BY <1>3 DEF StartRead
  <2>2. Added(Pop(workq, "read"), workq', "dedup", c)
    BY <1>1, <1>2, <2>1, PushFrontFacts
  <2>3. StateStep(c, ChunkRead)
    BY <1>2, <2>1, StateStepFacts, ChunkStateValues
  <2> QED BY <1>2, <1>3, <2>1, <2>2, <2>3
<1>4. CASE ~IsClosing(c)
  BY <1>2, <1>4, StateFacts DEF StartRead
<1> QED BY <1>3, <1>4

LEMMA DeduplicateFacts ==
    ASSUME IInv, NEW t \in Threads, Deduplicate(t), NEW c, c = Head(workq["dedup"])
    PROVE  /\ c \in Ids /\ c <= count /\ state[c] = ChunkRead /\ StateStep(c, ChunkDeduplicated)
           /\ Removed(workq, Pop(workq, "dedup"), "dedup", c)
           /\ IsBlock(c) \/ PredecessorAssigned(c) =>
                 Added(Pop(workq, "dedup"), workq', "assign", c)
           /\ ~(IsBlock(c) \/ PredecessorAssigned(c)) => workq' = Pop(workq, "dedup")
           /\ UNCHANGED <<pc, cur>>
<1>1. pc[t] = "loop" /\ Serves("dedup") /\ "assign" \in Stages /\ "dedup" \in Stages
  BY DEF Deduplicate, Stages
<1>2. /\ c \in Ids /\ c <= count /\ state[c] = ChunkRead
      /\ Removed(workq, Pop(workq, "dedup"), "dedup", c) /\ QueuesOK(Pop(workq, "dedup"))
      /\ \A r \in Stages : c \notin Elems(Pop(workq, "dedup")[r])
  BY <1>1, PopHead DEF ExpectedState
<1>3. /\ state' = [state EXCEPT ![c] = ChunkDeduplicated] /\ UNCHANGED <<pc, cur>>
      /\ workq' = IF IsBlock(c) \/ PredecessorAssigned(c)
                  THEN PushFront(Pop(workq, "dedup"), "assign", c) ELSE Pop(workq, "dedup")
  BY DEF Deduplicate
<1>4. StateStep(c, ChunkDeduplicated)
  BY <1>2, <1>3, StateStepFacts, ChunkStateValues
<1>5. Added(Pop(workq, "dedup"), PushFront(Pop(workq, "dedup"), "assign", c), "assign", c)
  BY <1>1, <1>2, PushFrontFacts
<1> QED BY <1>2, <1>3, <1>4, <1>5

LEMMA AssignBlockFacts ==
    ASSUME IInv, NEW t \in Threads, AssignBlock(t), NEW c, c = Head(workq["assign"])
    PROVE  /\ c \in Ids /\ c <= count /\ state[c] = ChunkDeduplicated
           /\ StateStep(c, ChunkAssigned) /\ IsBlock(c)
           /\ Removed(workq, Pop(workq, "assign"), "assign", c)
           /\ Added(Pop(workq, "assign"), workq', "compress", c)
<1>1. pc[t] = "loop" /\ Serves("assign") /\ "assign" \in Stages /\ "compress" \in Stages
  BY DEF AssignBlock, Stages
<1>2. /\ c \in Ids /\ c <= count /\ state[c] = ChunkDeduplicated
      /\ Removed(workq, Pop(workq, "assign"), "assign", c) /\ QueuesOK(Pop(workq, "assign"))
      /\ \A r \in Stages : c \notin Elems(Pop(workq, "assign")[r])
  BY <1>1, PopHead DEF ExpectedState
<1>3. /\ IsBlock(c) /\ state' = [state EXCEPT ![c] = ChunkAssigned]
      /\ workq' = PushFront(Pop(workq, "assign"), "compress", c)
  BY DEF AssignBlock
<1>4. StateStep(c, ChunkAssigned)
  BY <1>2, <1>3, StateStepFacts, ChunkStateValues
<1> QED BY <1>1, <1>2, <1>3, <1>4, PushFrontFacts

\* What TryWriteout does to the queues, for a chunk that becomes writable.
LEMMA WriteoutFacts ==
    ASSUME IInv, NEW q, QueuesOK(q), NEW c \in Ids, c \notin Elems(q["write"]),
           state[c] # ChunkFinished
    PROVE  IF c = 1 \/ state[c - 1] = ChunkFinished
           THEN c = finished + 1 /\ Added(q, TryWriteout(q, c), "write", c)
           ELSE TryWriteout(q, c) = q
<1>1. CASE c = 1 \/ state[c - 1] = ChunkFinished
  <2>1. Added(q, TryWriteout(q, c), "write", c)
    BY <1>1, PushFrontFacts DEF TryWriteout, Stages
  <2>2. c = finished + 1
    <3>1. ~(c <= finished) /\ finished \in Nat
      BY QueueFacts DEF IInv, WriteoutInOrder
    <3>2. c - 1 \in Ids => (state[c - 1] = ChunkFinished <=> c - 1 <= finished)
      BY DEF IInv, WriteoutInOrder
    <3> QED BY <1>1, <3>1, <3>2, BoundsAreNat DEF Ids
  <2> QED BY <1>1, <2>1, <2>2
<1>2. CASE ~(c = 1 \/ state[c - 1] = ChunkFinished)
  BY <1>2 DEF TryWriteout
<1> QED BY <1>1, <1>2

LEMMA StartCompressFacts ==
    ASSUME IInv, NEW t \in Threads, StartCompress(t), NEW c, c = Head(workq["compress"])
    PROVE  /\ c \in Ids /\ c <= count /\ state[c] = ChunkAssigned /\ WritesBlock(c)
           /\ c \in Elems(workq["compress"])
           /\ Removed(workq, workq', "compress", c)
           /\ pc'[t] = "compress" /\ cur'[t] = c
           /\ \A u \in Threads \ {t} : pc'[u] = pc[u] /\ cur'[u] = cur[u]
<1>1. pc[t] = "loop" /\ Serves("compress") /\ "compress" \in Stages
  BY DEF StartCompress, Stages
<1>2. /\ c \in Ids /\ c <= count /\ state[c] = ChunkAssigned /\ c \in Elems(workq["compress"])
      /\ Removed(workq, Pop(workq, "compress"), "compress", c)
  BY <1>1, PopHead DEF ExpectedState
<1>3. WritesBlock(c)
  BY <1>2 DEF IInv, StageInv, AssertionsHold
<1> QED BY <1>1, <1>2, <1>3, StateFacts DEF StartCompress

\* What the compressor makes of a content is an image block without a place.
LEMMA CompressedFacts ==
    ASSUME IInv, NEW c \in Ids, WritesBlock(c)
    PROVE  /\ Compressed(c) \in ImageBlockType
           /\ Compressed(c).offset = -1 /\ Compressed(c).content = BytesOf(SourcesOf(c))
           /\ c <= count /\ ~IsClosing(c) => (IsBlock(c) => Compressed(c).size > 0)
           /\ ~IsBlock(c) /\ fragments[FlushedBlock(c)].size > 0 => Compressed(c).size > 0
<1> DEFINE cs == SourcesOf(c)
           n == IF IsBlock(c) THEN desc[c].size ELSE fragments[FlushedBlock(c)].size
           z == IF IsBlock(c) THEN CompressBlocks ELSE CompressFragments
<1>1. cs \in Seq(Ids) /\ n \in Nat
  BY ImageBlockFacts, DescFacts
<1>2. BytesOf(cs) \in Seq(DataItems)
  <2>1. \A i \in 1 .. Len(cs) : cs[i] \in Ids /\ desc[cs[i]].data \in DataItems
    BY <1>1, DescFacts
  <2>2. DOMAIN cs = 1 .. Len(cs) /\ Len(cs) \in Nat
    BY <1>1
  <2> HIDE DEF cs
  <2> QED BY <2>1, <2>2 DEF BytesOf
<1>3. Compressed(c) = ImageBlock(BytesOf(cs), n, z)
  BY Zenon DEF Compressed
<1>4. c <= count /\ IsBlock(c) => n > 0
  <2>1. desc[c] \in Submissions \cup {ClosingDesc, UnusedDesc}
    BY DEF IInv, TypeOK
  <2>2. ClosingDesc.kind = "closing" /\ UnusedDesc.kind = "unused"
    BY Zenon DEF ClosingDesc, UnusedDesc
  <2>3. IsBlock(c) => desc[c].size \in 1 .. BlockSize
    BY <2>1, <2>2, SubmissionsFit DEF IsBlock
  <2> QED BY <2>3, BlockSizePositive
<1> HIDE DEF n, z, cs
<1>5. ASSUME NEW x \in Seq(DataItems)
      PROVE  /\ ImageBlock(x, n, z) \in ImageBlockType /\ ImageBlock(x, n, z).offset = -1
             /\ ImageBlock(x, n, z).content = x /\ (n > 0 => ImageBlock(x, n, z).size > 0)
  <2> DEFINE r == IF z THEN CompressorInstanceCompress(x, n) ELSE -1
  <2>1. r = -1 \/ r \in 1 .. n
    BY DEF CompressorInstanceCompress
  <2>2. ImageBlock(x, n, z) = [offset |-> -1, size |-> IF r = -1 THEN n ELSE r,
                               compressed |-> r # -1, content |-> x]
    BY Zenon DEF ImageBlock
  <2> HIDE DEF r
  <2>3. (IF r = -1 THEN n ELSE r) \in Nat /\ (n > 0 => (IF r = -1 THEN n ELSE r) > 0)
    BY <1>1, <2>1
  <2>4. -1 \in Int
    OBVIOUS
  <2> QED BY <2>2, <2>3, <2>4 DEF ImageBlockType
<1>6. ~IsBlock(c) => n = fragments[FlushedBlock(c)].size
  BY DEF n
<1> QED BY <1>2, <1>3, <1>4, <1>5, <1>6 DEF cs

LEMMA CompressDoneFacts ==
    ASSUME IInv, NEW t \in Threads, CompressDone(t), NEW c, c = cur[t]
    PROVE  /\ c \in Ids /\ c <= count /\ state[c] = ChunkAssigned /\ WritesBlock(c)
           /\ StateStep(c, ChunkWritable) /\ SetImageBlock(c, Compressed(c))
           /\ \A d \in Ids : cached'[d] <=> cached[d] /\ d \notin Elems(SourcesOf(c))
           /\ IF c = 1 \/ state[c - 1] = ChunkFinished
              THEN c = finished + 1 /\ Added(workq, workq', "write", c)
              ELSE workq' = workq
           /\ pc'[t] = "loop" /\ \A u \in Threads \ {t} : pc'[u] = pc[u] /\ cur'[u] = cur[u]
<1> DEFINE cs == SourcesOf(c)
           n == IF IsBlock(c) THEN desc[c].size ELSE fragments[FlushedBlock(c)].size
           b == ImageBlock(BytesOf(cs), n, IF IsBlock(c) THEN CompressBlocks ELSE CompressFragments)
<1>1. /\ pc[t] = "compress" /\ Unlocked
      /\ SetImageBlock(c, b)
      /\ cached' = [i \in Ids |-> cached[i] /\ \A k \in DOMAIN cs : cs[k] # i]
      /\ state' = [state EXCEPT ![c] = ChunkWritable]
      /\ workq' = TryWriteout(workq, c)
      /\ pc' = [pc EXCEPT ![t] = "loop"]
      /\ cur' = [cur EXCEPT ![t] = 0]
  BY DEF CompressDone
<1>2. /\ c \in Ids /\ c <= count /\ state[c] = ChunkAssigned /\ WritesBlock(c)
      /\ \A s \in Stages : c \notin Elems(workq[s])
  BY <1>1, QueueFacts
     DEF IInv, StageInv, Holding, Stages, ExpectedState, ChunkNone, ChunkRead,
         ChunkDeduplicated, ChunkAssigned, ChunkWritable
<1>3. b = Compressed(c)
  BY Zenon DEF Compressed
<1> HIDE DEF b
<1>4. StateStep(c, ChunkWritable)
  BY <1>1, <1>2, StateStepFacts, ChunkStateValues
<1>5. \A d \in Ids : cached'[d] <=> cached[d] /\ d \notin Elems(cs)
  BY <1>1 DEF Elems
<1>6. IF c = 1 \/ state[c - 1] = ChunkFinished
      THEN c = finished + 1 /\ Added(workq, workq', "write", c)
      ELSE workq' = workq
  BY <1>1, <1>2, QueueFacts, WriteoutFacts DEF Stages, ChunkAssigned, ChunkFinished
<1> HIDE DEF cs
<1> QED BY <1>1, <1>2, <1>3, <1>4, <1>5, <1>6, StateFacts DEF cs

LEMMA StartWriteFacts ==
    ASSUME IInv, NEW t \in Threads, StartWrite(t), NEW c, c = Head(workq["write"])
    PROVE  /\ c \in Ids /\ c <= count /\ state[c] = ChunkWritable /\ WritesBlock(c)
           /\ c = finished + 1 /\ c \in Elems(workq["write"])
           /\ Removed(workq, workq', "write", c)
           /\ [ImageBlockOf(c) EXCEPT !.offset = size] \in ImageBlockType
           /\ SetImageBlock(c, [ImageBlockOf(c) EXCEPT !.offset = size])
           /\ size' = size + ImageBlockOf(c).size
           /\ pc'[t] = "write" /\ cur'[t] = c
           /\ \A u \in Threads \ {t} : pc'[u] = pc[u] /\ cur'[u] = cur[u]
<1>1. /\ pc[t] = "loop" /\ Serves("write") /\ "write" \in Stages /\ WritesBlock(c)
      /\ SetImageBlock(c, [ImageBlockOf(c) EXCEPT !.offset = size])
      /\ size' = size + ImageBlockOf(c).size
      /\ cur' = [cur EXCEPT ![t] = c] /\ pc' = [pc EXCEPT ![t] = "write"]
      /\ workq' = Pop(workq, "write")
  BY DEF StartWrite, Stages, Reserve
<1>2. /\ c \in Ids /\ c <= count /\ state[c] = ChunkWritable /\ c \in Elems(workq["write"])
      /\ Removed(workq, Pop(workq, "write"), "write", c)
  BY <1>1, PopHead DEF ExpectedState
<1>3. c = finished + 1
  BY <1>2 DEF IInv, WriteoutInOrder
<1>4. [ImageBlockOf(c) EXCEPT !.offset = size] \in ImageBlockType
  <2>1. size \in Nat /\ ImageBlockOf(c) \in ImageBlockType
    BY <1>1, <1>2, ImageBlockFacts DEF IInv, TypeOK
  <2> QED BY <2>1 DEF ImageBlockType
<1> QED BY <1>1, <1>2, <1>3, <1>4, StateFacts

\* What MarkFinished does, with the successor it may put into the write queue.
FinishQueue(q, c) ==
    IF c < count /\ state[c + 1] = ChunkWritable
    THEN c + 1 \in Ids /\ Added(q, workq', "write", c + 1)
    ELSE workq' = q

LEMMA FinishFacts ==
    ASSUME IInv, NEW t \in Threads, NEW c \in Ids, c <= count, NEW q, QueuesOK(q),
           \A d \in Elems(q["write"]) : d = c, MarkFinished(q, c, t)
    PROVE  StateStep(c, ChunkFinished) /\ FinishQueue(q, c)
<1>1. StateStep(c, ChunkFinished)
  BY StateStepFacts, ChunkStateValues DEF MarkFinished
<1>2. CASE c < count /\ state[c + 1] = ChunkWritable
  <2>1. c + 1 \in Ids /\ c + 1 # c
    BY <1>2, QueueFacts, BoundsAreNat DEF Ids
  <2>2. workq' = PushFront(q, "write", c + 1)
    BY <1>2 DEF MarkFinished
  <2> QED BY <1>1, <1>2, <2>1, <2>2, PushFrontFacts DEF FinishQueue, Stages
<1>3. CASE ~(c < count /\ state[c + 1] = ChunkWritable)
  BY <1>1, <1>3 DEF MarkFinished, FinishQueue
<1> QED BY <1>2, <1>3

LEMMA FinishPieceFacts ==
    ASSUME IInv, NEW t \in Threads, FinishPiece(t), NEW c, c = Head(workq["write"])
    PROVE  /\ c \in Ids /\ c <= count /\ state[c] = ChunkWritable /\ ~WritesBlock(c)
           /\ c = finished + 1 /\ finished' = c /\ c \in Elems(workq["write"])
           /\ StateStep(c, ChunkFinished)
           /\ Removed(workq, Pop(workq, "write"), "write", c)
           /\ FinishQueue(Pop(workq, "write"), c)
           /\ pc'[t] = "loop" /\ pc[t] = "loop" /\ cur' = cur
           /\ \A u \in Threads \ {t} : pc'[u] = pc[u] \/ (pc[u] = "wait" /\ pc'[u] = "enter")
<1> DEFINE q == Pop(workq, "write")
<1>1. /\ pc[t] = "loop" /\ Serves("write") /\ ~WritesBlock(c) /\ "write" \in Stages
      /\ MarkFinished(q, c, t) /\ cur' = cur
  BY DEF FinishPiece, Stages
<1>2. /\ QueuesOK(q) /\ c \in Ids /\ c <= count /\ Removed(workq, q, "write", c)
      /\ c \in Elems(workq["write"]) /\ state[c] = ChunkWritable
      /\ \A r \in Stages : c \notin Elems(q[r])
      /\ \A r \in Stages : \A d \in Elems(q[r]) : d \in Elems(workq[r])
  BY <1>1, PopHead DEF ExpectedState
<1>3. c = finished + 1 /\ \A d \in Elems(q["write"]) : d = c
  BY <1>1, <1>2 DEF IInv, WriteoutInOrder
<1> HIDE DEF q
<1>4. /\ finished' = c /\ pc'[t] = "loop"
      /\ \A u \in Threads \ {t} : pc'[u] = pc[u] \/ (pc[u] = "wait" /\ pc'[u] = "enter")
  BY <1>1, <1>2, <1>3, MarkFinishedFacts
<1>5. StateStep(c, ChunkFinished) /\ FinishQueue(q, c)
  BY <1>1, <1>2, <1>3, FinishFacts
<1> QED BY <1>1, <1>2, <1>3, <1>4, <1>5 DEF q

LEMMA WriteDoneFacts ==
    ASSUME IInv, NEW t \in Threads, WriteDone(t), NEW c, c = cur[t]
    PROVE  /\ c \in Ids /\ c <= count /\ state[c] = ChunkWritable /\ WritesBlock(c)
           /\ c = finished + 1 /\ finished' = c
           /\ \A s \in Stages : c \notin Elems(workq[s])
           /\ StateStep(c, ChunkFinished) /\ FinishQueue(workq, c)
           /\ [ImageBlockOf(c) EXCEPT !.content = <<>>] \in ImageBlockType
           /\ SetImageBlock(c, [ImageBlockOf(c) EXCEPT !.content = <<>>])
           /\ disk' = Append(disk, ImageBlockOf(c))
           /\ pc[t] = "write" /\ pc'[t] = "loop"
           /\ \A u \in Threads \ {t} : /\ cur'[u] = cur[u]
                                       /\ pc'[u] = pc[u] \/ (pc[u] = "wait" /\ pc'[u] = "enter")
<1>1. /\ pc[t] = "write" /\ Unlocked
      /\ disk' = Append(disk, ImageBlockOf(c))
      /\ SetImageBlock(c, [ImageBlockOf(c) EXCEPT !.content = <<>>])
      /\ MarkFinished(workq, c, t)
      /\ cur' = [cur EXCEPT ![t] = 0]
  BY DEF WriteDone
<1>2. /\ c \in Ids /\ c <= count /\ state[c] = ChunkWritable /\ WritesBlock(c)
      /\ \A s \in Stages : c \notin Elems(workq[s])
  BY <1>1, QueueFacts
     DEF IInv, StageInv, Holding, Stages, ExpectedState, ChunkNone, ChunkRead,
         ChunkDeduplicated, ChunkAssigned, ChunkWritable
<1>3. c = finished + 1 /\ \A d \in Elems(workq["write"]) : d = c
  BY <1>1, <1>2 DEF IInv, WriteoutInOrder
<1>4. /\ finished' = c /\ pc'[t] = "loop"
      /\ \A u \in Threads \ {t} : pc'[u] = pc[u] \/ (pc[u] = "wait" /\ pc'[u] = "enter")
  BY <1>1, <1>2, <1>3, QueueFacts, MarkFinishedFacts
<1>5. StateStep(c, ChunkFinished) /\ FinishQueue(workq, c)
  BY <1>1, <1>2, <1>3, QueueFacts, FinishFacts
<1>6. [ImageBlockOf(c) EXCEPT !.content = <<>>] \in ImageBlockType
  <2>1. ImageBlockOf(c) \in ImageBlockType /\ <<>> \in Seq(DataItems)
    BY <1>2, ImageBlockFacts
  <2> QED BY <2>1 DEF ImageBlockType
<1> QED BY <1>1, <1>2, <1>3, <1>4, <1>5, <1>6, StateFacts

\* Where a piece goes: alone into a new block, or to the end of its predecessor's.
PlacedIn(c, b) ==
    /\ fragments' \in Seq(FragmentType) /\ b \in DOMAIN fragments' /\ b \in Nat
    /\ \A k \in DOMAIN fragments : k # b => fragments'[k] = fragments[k]
    /\ \A d \in Ids : fragOf'[d] = IF d = c THEN b ELSE fragOf[d]
    /\ \A d \in Ids \ {c} : offsetOf'[d] = offsetOf[d]
PlacedNew(c, b) ==
    /\ PlacedIn(c, b) /\ Len(fragments') = Len(fragments) + 1
    /\ fragments'[b].size = desc[c].size /\ fragments'[b].pieces = <<c>> /\ offsetOf'[c] = 0
PlacedBehind(c, b) ==
    /\ PlacedIn(c, b) /\ Len(fragments') = Len(fragments)
    /\ b \in DOMAIN fragments /\ prevPiece[c] # 0
    /\ fragments'[b].size = fragments[b].size + desc[c].size
    /\ fragments'[b].pieces = Append(fragments[b].pieces, c)
    /\ fragments'[b].dst = fragments[b].dst
    /\ offsetOf'[c] = fragments[b].size

LEMMA PlaceShape ==
    ASSUME IInv, NEW c \in Ids, PredecessorAssigned(c), IsPiece(c), PlacePiece(c)
    PROVE  /\ NeedsFragmentBlock(c) => PlacedNew(c, Len(fragments) + 1)
           /\ ~NeedsFragmentBlock(c) => PlacedBehind(c, FlushedBlock(c))
<1>0. PICK b : b = IF NeedsFragmentBlock(c) THEN Len(fragments) + 1 ELSE FlushedBlock(c)
  OBVIOUS
<1>1. /\ fragments \in Seq(FragmentType)
      /\ fragOf \in [Ids -> Nat] /\ offsetOf \in [Ids -> Int]
  BY DEF IInv, TypeOK
<1>2. desc[c].size \in Nat /\ ~IsClosing(c)
  BY DescFacts DEF IsClosing, IsPiece
<1> DEFINE fs == IF NeedsFragmentBlock(c) THEN FragmentBlockCreate(fragments) ELSE fragments
           f0 == [size |-> 0, pieces |-> <<>>, dst |-> NoImageBlock]
<1>3. f0 \in FragmentType /\ f0.size = 0 /\ f0.pieces = <<>>
  BY DEF FragmentType, NoImageBlock, ImageBlockType
<1>4. NeedsFragmentBlock(c) => fs = Append(fragments, f0)
  BY DEF FragmentBlockCreate
<1>5. ~NeedsFragmentBlock(c) => fs = fragments
  OBVIOUS
<1>6. ~NeedsFragmentBlock(c) => prevPiece[c] # 0 /\ b \in DOMAIN fragments
  BY <1>0, PredecessorFacts DEF NeedsFragmentBlock, IsPiece
<1> HIDE DEF f0
<1>7. /\ fs \in Seq(FragmentType) /\ b \in DOMAIN fs /\ b \in Nat
      /\ NeedsFragmentBlock(c) => Len(fs) = b /\ fs[b] = f0
      /\ \A k \in DOMAIN fragments : fs[k] = fragments[k] /\ k \in DOMAIN fs
      /\ DOMAIN fs = 1 .. Len(fs)
  <2>1. CASE NeedsFragmentBlock(c)
    <3>1. fs = Append(fragments, f0) /\ b = Len(fragments) + 1
      BY <1>0, <1>4, <2>1
    <3> HIDE DEF fs
    <3> QED BY <1>1, <1>3, <3>1, AppendShape
  <2>2. CASE ~NeedsFragmentBlock(c)
    <3>1. fs = fragments
      BY <2>2
    <3> HIDE DEF fs
    <3> QED BY <1>1, <1>6, <2>2, <3>1
  <2> QED BY <2>1, <2>2
<1>8. /\ fragments' = AddPiece(fs, b, c)
      /\ fragOf' = [fragOf EXCEPT ![c] = b]
      /\ offsetOf' = [offsetOf EXCEPT ![c] = fs[b].size]
  <2>1. b = IF NeedsFragmentBlock(c) THEN Len(fs) ELSE fragOf[prevPiece[c]]
    BY <1>0, <1>7 DEF FlushedBlock
  <2> QED BY <1>2, <2>1 DEF PlacePiece
<1> HIDE DEF fs
<1>9. fs[b] \in FragmentType /\ fs[b].size \in Nat /\ fs[b].pieces \in Seq(Ids)
  <2>1. fs \in Seq(FragmentType) /\ b \in DOMAIN fs
    BY <1>7
  <2>2. \A q \in Seq(FragmentType) : \A k \in DOMAIN q : q[k] \in FragmentType
    OBVIOUS
  <2>3. fs[b] \in FragmentType
    BY <2>1, <2>2
  <2> QED BY <2>3 DEF FragmentType
<1> DEFINE f == [fs[b] EXCEPT !.size = @ + desc[c].size, !.pieces = Append(@, c)]
<1>10. /\ f \in FragmentType /\ f.size = fs[b].size + desc[c].size
       /\ f.pieces = Append(fs[b].pieces, c) /\ f.dst = fs[b].dst
  <2>1. fs[b].size + desc[c].size \in Nat /\ Append(fs[b].pieces, c) \in Seq(Ids)
    BY <1>2, <1>9
  <2> QED BY <1>9, <2>1 DEF FragmentType
<1>11. fragments' = [fs EXCEPT ![b] = f]
  BY <1>7, <1>8, <1>9 DEF AddPiece, FragmentType
<1> HIDE DEF f
<1>12. /\ fragments' \in Seq(FragmentType) /\ Len(fragments') = Len(fs)
       /\ \A k \in DOMAIN fs : fragments'[k] = IF k = b THEN f ELSE fs[k]
       /\ DOMAIN fragments' = DOMAIN fs
  <2>1. fs \in Seq(FragmentType) /\ b \in DOMAIN fs /\ f \in FragmentType
    BY <1>7, <1>10
  <2> QED BY <1>11, <2>1, ReplaceShape
<1>13. \A d \in Ids : fragOf'[d] = IF d = c THEN b ELSE fragOf[d]
  BY <1>1, <1>8
<1>14. /\ \A d \in Ids \ {c} : offsetOf'[d] = offsetOf[d]
       /\ offsetOf'[c] = fs[b].size
  BY <1>1, <1>8
<1>15. CASE NeedsFragmentBlock(c)
  <2>1. Append(f0.pieces, c) = <<c>>
    BY <1>3
  <2>2. b = Len(fragments) + 1 /\ Len(fs) = Len(fragments) + 1
    BY <1>0, <1>7, <1>15
  <2>3. fragments'[b].size = desc[c].size /\ fragments'[b].pieces = <<c>> /\ offsetOf'[c] = 0
    BY <1>2, <1>3, <1>7, <1>10, <1>12, <1>14, <1>15, <2>1
  <2>4. PlacedIn(c, b)
    BY <1>7, <1>12, <1>13, <1>14 DEF PlacedIn
  <2> QED BY <1>12, <1>15, <2>2, <2>3, <2>4 DEF PlacedNew
<1>16. CASE ~NeedsFragmentBlock(c)
  <2>1. fs = fragments /\ b = FlushedBlock(c)
    BY <1>0, <1>5, <1>16
  <2>2. PlacedIn(c, b)
    BY <1>7, <1>12, <1>13, <1>14 DEF PlacedIn
  <2>3. PlacedBehind(c, b)
    BY <1>6, <1>7, <1>10, <1>12, <1>14, <1>16, <2>1, <2>2 DEF PlacedBehind
  <2> QED BY <1>16, <2>1, <2>3
<1> QED BY <1>15, <1>16

\* The queues after the assignment of a piece.
AssignQueue(c) ==
    /\ \A s \in Stages : Elems(workq[s]) \ {c} \subseteq Elems(workq'[s])
    /\ \A s \in Stages : \A d \in Elems(workq'[s]) :
          \/ d # c /\ d \in Elems(workq[s])
          \/ d = c /\ s = "compress" /\ MustFlush(c)
          \/ d = c /\ s = "write" /\ ~MustFlush(c) /\ c = finished + 1
          \/ s = "assign" /\ d = nextPiece[c] /\ d \in Ids /\ d # c /\ prevPiece[d] = c
                          /\ state[d] = ChunkDeduplicated
    /\ MustFlush(c) => c \in Elems(workq'["compress"])
    /\ ~MustFlush(c) /\ (c = 1 \/ state[c - 1] = ChunkFinished) => c \in Elems(workq'["write"])
    /\ nextPiece[c] # 0 /\ state[nextPiece[c]] = ChunkDeduplicated =>
          nextPiece[c] \in Elems(workq'["assign"])

LEMMA AssignPieceFacts ==
    ASSUME IInv, NEW t \in Threads, AssignPiece(t), NEW c, c = Head(workq["assign"])
    PROVE  /\ c \in Ids /\ c <= count /\ state[c] = ChunkDeduplicated /\ ~IsBlock(c) /\ InList(c)
           /\ c \in Elems(workq["assign"]) /\ PredecessorAssigned(c) /\ PlacePiece(c)
           /\ StateStep(c, IF MustFlush(c) THEN ChunkAssigned ELSE ChunkWritable)
           /\ flush'[c] = MustFlush(c) /\ \A d \in Ids \ {c} : flush'[d] = flush[d]
           /\ AssignQueue(c)
           /\ UNCHANGED <<listVars, imageVars, finished, cached, dst, size, disk, mayAdd,
                          aborted, pc, cur, spurious>>
<1> DEFINE q == Pop(workq, "assign")
           q2 == IF MustFlush(c) THEN PushFront(q, "compress", c) ELSE TryWriteout(q, c)
           n == nextPiece[c]
<1>1. /\ pc[t] = "loop" /\ Serves("assign") /\ ~IsBlock(c) /\ PlacePiece(c)
      /\ flush' = [flush EXCEPT ![c] = MustFlush(c)]
      /\ state' = [state EXCEPT ![c] = IF MustFlush(c) THEN ChunkAssigned ELSE ChunkWritable]
      /\ workq' = AssignSuccessor(q2, c)
      /\ UNCHANGED <<listVars, imageVars, finished, cached, dst, size, disk, mayAdd, aborted,
                     pc, cur, spurious>>
  BY DEF AssignPiece
<1>2. /\ QueuesOK(q) /\ c \in Ids /\ c <= count /\ Removed(workq, q, "assign", c)
      /\ c \in Elems(workq["assign"]) /\ state[c] = ChunkDeduplicated
      /\ \A r \in Stages : c \notin Elems(q[r])
  BY <1>1, PopHead DEF Stages, ExpectedState
<1>3. PredecessorAssigned(c)
  BY <1>2 DEF IInv, PieceInv
<1>4. InList(c)
  BY <1>1, <1>2, DescFacts DEF InList, IsBlock
<1>5. StateStep(c, IF MustFlush(c) THEN ChunkAssigned ELSE ChunkWritable)
  BY <1>1, <1>2, StateStepFacts, ChunkStateValues
<1>6. flush'[c] = MustFlush(c) /\ \A d \in Ids \ {c} : flush'[d] = flush[d]
  <2>1. flush \in [Ids -> BOOLEAN]
    BY DEF IInv, TypeOK
  <2> QED BY <1>1, <1>2, <2>1
<1>7. /\ QueuesOK(q2)
      /\ \A s \in Stages : Elems(workq[s]) \ {c} \subseteq Elems(q2[s])
      /\ \A s \in Stages : \A d \in Elems(q2[s]) :
          \/ d # c /\ d \in Elems(workq[s])
          \/ d = c /\ s = "compress" /\ MustFlush(c)
          \/ d = c /\ s = "write" /\ ~MustFlush(c) /\ c = finished + 1
      /\ MustFlush(c) => c \in Elems(q2["compress"])
      /\ ~MustFlush(c) /\ (c = 1 \/ state[c - 1] = ChunkFinished) => c \in Elems(q2["write"])
  <2>0. "compress" \in Stages /\ "write" \in Stages
    BY DEF Stages
  <2>1. CASE MustFlush(c)
    <3>1. Added(q, q2, "compress", c)
      BY <1>2, <2>0, <2>1, PushFrontFacts
    <3> HIDE DEF q, q2
    <3> QED BY <1>2, <2>0, <2>1, <3>1 DEF Added, Removed
  <2>2. CASE ~MustFlush(c)
    <3>1. state[c] # ChunkFinished /\ c \notin Elems(q["write"])
      BY <1>2, <2>0 DEF ChunkDeduplicated, ChunkFinished
    <3>2. IF c = 1 \/ state[c - 1] = ChunkFinished
          THEN c = finished + 1 /\ Added(q, q2, "write", c) ELSE q2 = q
      BY <1>2, <2>2, <3>1, WriteoutFacts
    <3> HIDE DEF q, q2
    <3> QED BY <1>2, <2>0, <2>2, <3>2 DEF Added, Removed
  <2> QED BY <2>1, <2>2
<1> HIDE DEF q, q2
<1>8. CASE ~(n # 0 /\ state[n] = ChunkDeduplicated)
  <2>1. workq' = q2
    BY <1>1, <1>8 DEF AssignSuccessor
  <2>2. AssignQueue(c)
    BY <1>7, <1>8, <2>1 DEF AssignQueue
  <2> QED BY <1>1, <1>2, <1>3, <1>4, <1>5, <1>6, <2>2
<1>9. CASE n # 0 /\ state[n] = ChunkDeduplicated
  <2>1. n \in Ids
    <3>1. nextPiece \in [Ids -> Ids0]
      BY DEF IInv, TypeOK
    <3> QED BY <1>2, <1>9, <3>1, BoundsAreNat DEF Ids, Ids0
  <2>2. prevPiece[n] = c
    BY <1>2, <1>9 DEF IInv, PieceInv
  <2>3. ~PredecessorAssigned(n)
    BY <1>2, <2>2, BoundsAreNat DEF PredecessorAssigned, ChunkDeduplicated, ChunkAssigned, Ids
  <2>4. n # c /\ n \notin Elems(workq["assign"])
    BY <1>3, <2>3 DEF IInv, PieceInv
  <2>5. n \notin Elems(q2["assign"]) /\ "assign" \in Stages
    BY <1>7, <2>4 DEF Stages
  <2>6. Added(q2, workq', "assign", n)
    BY <1>1, <1>7, <1>9, <2>1, <2>5, PushFrontFacts DEF AssignSuccessor
  <2>7. AssignQueue(c)
    <3>1. \A s \in Stages : Elems(workq'[s]) = IF s = "assign" THEN {n} \cup Elems(q2[s])
                                               ELSE Elems(q2[s])
      BY <2>6 DEF Added
    <3>2. "compress" \in Stages /\ "write" \in Stages
      BY DEF Stages
    <3>3. \A s \in Stages : Elems(workq[s]) \ {c} \subseteq Elems(workq'[s])
      BY <1>7, <3>1
    <3>4. ASSUME NEW s \in Stages, NEW d \in Elems(workq'[s])
          PROVE  \/ d # c /\ d \in Elems(workq[s])
                 \/ d = c /\ s = "compress" /\ MustFlush(c)
                 \/ d = c /\ s = "write" /\ ~MustFlush(c) /\ c = finished + 1
                 \/ s = "assign" /\ d = nextPiece[c] /\ d \in Ids /\ d # c /\ prevPiece[d] = c
                                 /\ state[d] = ChunkDeduplicated
      <4>1. CASE d \in Elems(q2[s])
        BY <1>7, <4>1
      <4>2. CASE d = n /\ s = "assign"
        BY <1>9, <2>1, <2>2, <2>4, <4>2
      <4> QED BY <3>1, <4>1, <4>2
    <3>5. n \in Elems(workq'["assign"])
      BY <2>5, <3>1
    <3>6. MustFlush(c) => c \in Elems(workq'["compress"])
      BY <1>7, <3>1, <3>2
    <3>7. ~MustFlush(c) /\ (c = 1 \/ state[c - 1] = ChunkFinished) => c \in Elems(workq'["write"])
      BY <1>7, <3>1, <3>2
    <3> QED BY <3>3, <3>4, <3>5, <3>6, <3>7 DEF AssignQueue
  <2> QED BY <1>1, <1>2, <1>3, <1>4, <1>5, <1>6, <2>7
<1> QED BY <1>8, <1>9

LEMMA AssignFailFacts ==
    ASSUME IInv, NEW t \in Threads, AssignFail(t), NEW c, c = Head(workq["assign"])
    PROVE  /\ c \in Ids /\ c <= count /\ state[c] = ChunkDeduplicated /\ IsPiece(c)
           /\ c \in Elems(workq["assign"]) /\ PredecessorAssigned(c)
           /\ Removed(workq, workq', "assign", c)
           /\ flush'[c] = Overflows(c) /\ \A d \in Ids \ {c} : flush'[d] = flush[d]
           /\ UNCHANGED <<listVars, fragOf, offsetOf, finished, state, cached, fragments, dst,
                          size, disk, mayAdd, aborted, cur, spurious>>
           /\ imgState' = "fatal_error" /\ pc[t] = "loop" /\ pc'[t] = "abort_op"
           /\ \A u \in Threads \ {t} : pc'[u] = pc[u]
<1>1. /\ pc[t] = "loop" /\ Serves("assign") /\ NeedsFragmentBlock(c)
      /\ flush' = [flush EXCEPT ![c] = Overflows(c)]
      /\ workq' = Pop(workq, "assign")
      /\ imgState' = "fatal_error" /\ pc' = [pc EXCEPT ![t] = "abort_op"]
      /\ UNCHANGED <<listVars, fragOf, offsetOf, finished, state, cached, fragments, dst,
                     size, disk, mayAdd, aborted, cur, spurious>>
  BY DEF AssignFail, FlagError
<1>2. /\ c \in Ids /\ c <= count /\ Removed(workq, workq', "assign", c)
      /\ c \in Elems(workq["assign"]) /\ state[c] = ChunkDeduplicated
  BY <1>1, PopHead DEF Stages, ExpectedState
<1>3. PredecessorAssigned(c) /\ flush \in [Ids -> BOOLEAN]
  BY <1>2 DEF IInv, PieceInv, TypeOK
<1> QED BY <1>1, <1>2, <1>3, StateFacts DEF NeedsFragmentBlock, IsPiece

-----------------------------------------------------------------------------
(* Steps that assign no piece.                                             *)

PackInv == ListInv /\ AssignOrder /\ LayoutInv /\ FlushInv

\* The pieces of a block are chunks.
LEMMA PiecesFacts ==
    ASSUME IInv, NEW b \in DOMAIN fragments
    PROVE  /\ fragments[b] \in FragmentType
           /\ fragments[b].pieces \in Seq(Ids) /\ fragments[b].size \in Nat
           /\ \A i \in DOMAIN fragments[b].pieces : fragments[b].pieces[i] \in Ids
           /\ Len(fragments[b].pieces) \in Nat
           /\ DOMAIN fragments[b].pieces = 1 .. Len(fragments[b].pieces)
<1>1. fragments[b] \in FragmentType
  BY DEF IInv, TypeOK
<1>2. fragments[b].pieces \in Seq(Ids) /\ fragments[b].size \in Nat
  BY <1>1 DEF FragmentType
<1> QED BY <1>1, <1>2

LEMMA QuietLayout ==
    ASSUME IInv, PackInv, LayoutQuiet
    PROVE  PackInv'
<1>1. /\ UNCHANGED <<desc, count, prevPiece, nextPiece, lastPiece, flush, fragOf, offsetOf>>
      /\ DOMAIN fragments' = DOMAIN fragments /\ Len(fragments') = Len(fragments)
      /\ \A c \in Ids : /\ state'[c] \in Int /\ state'[c] >= state[c] /\ state[c] \in Int
                        /\ InList(c) => (IsAssigned(c)' <=> IsAssigned(c))
      /\ \A b \in DOMAIN fragments : /\ fragments'[b].pieces = fragments[b].pieces
                                     /\ fragments'[b].size = fragments[b].size
  <2>1. DOMAIN fragments' = DOMAIN fragments
    BY DEF LayoutQuiet, IInv, TypeOK
  <2> QED BY <2>1, StateFacts DEF LayoutQuiet, listVars, fragVars
<1>2. \A c \in Ids : /\ InList(c)' <=> InList(c)
                     /\ IsPiece(c)' <=> IsPiece(c)
                     /\ IsPiece(c) => InList(c)
                     /\ IsClosing(c)' <=> IsClosing(c)
                     /\ IsClosing(c) => InList(c)
                     /\ IsPiece(c) => (IsAssigned(c)' <=> IsAssigned(c))
                     /\ FlushedBlock(c)' = FlushedBlock(c)
  BY <1>1 DEF InList, IsPiece, IsClosing, FlushedBlock
<1>3. ListInv'
  BY <1>1, <1>2 DEF PackInv, ListInv
<1>4. AssignOrder'
  BY <1>1, <1>2 DEF PackInv, AssignOrder
<1>5. LayoutInv'
  <2>1. ASSUME NEW b \in DOMAIN fragments PROVE BlockLayout(b)'
    <3>1. PICK ps : ps = fragments[b].pieces
      OBVIOUS
    <3>2. /\ ps \in Seq(Ids) /\ ps = fragments'[b].pieces
          /\ fragments'[b].size = fragments[b].size
          /\ \A i \in DOMAIN ps : ps[i] \in Ids
      BY <1>1, <3>1, PiecesFacts
    <3>3. BlockLayout(b)
      BY DEF PackInv, LayoutInv
    <3>4. \A i \in DOMAIN ps : IsPiece(ps[i])' /\ IsAssigned(ps[i])' /\ fragOf'[ps[i]] = b
      BY <1>1, <1>2, <3>1, <3>2, <3>3 DEF BlockLayout
    <3> QED BY <1>1, <3>1, <3>2, <3>3, <3>4 DEF BlockLayout, LastOf
  <2>2. ASSUME NEW c \in Ids, IsPiece(c)', IsAssigned(c)'
        PROVE  \E i \in DOMAIN fragments'[fragOf'[c]].pieces : fragments'[fragOf'[c]].pieces[i] = c
    <3>1. IsPiece(c) /\ IsAssigned(c)
      BY <1>2, <2>2
    <3>2. fragOf[c] \in DOMAIN fragments
      BY <3>1 DEF IInv, FragmentInv, IsPiece, IsAssigned
    <3> QED BY <1>1, <3>1, <3>2 DEF PackInv, LayoutInv
  <2>3. ASSUME NEW c \in Ids, IsPiece(c)', IsAssigned(c)'
        PROVE  c <= LastOf(fragments'[Len(fragments')].pieces)
    <3>1. IsPiece(c) /\ IsAssigned(c)
      BY <1>2, <2>3
    <3>2. fragOf[c] \in DOMAIN fragments
      BY <3>1 DEF IInv, FragmentInv, IsPiece, IsAssigned
    <3>3. Len(fragments) \in DOMAIN fragments
      BY <3>2 DEF IInv, TypeOK
    <3> QED BY <1>1, <3>1, <3>3 DEF PackInv, LayoutInv
  <2> QED BY <1>1, <2>1, <2>2, <2>3 DEF LayoutInv
<1>6. FlushInv'
  <2>1. ASSUME NEW c \in Ids, flush[c]
        PROVE  FlushedBlock(c) \in DOMAIN fragments
    BY <2>1, PredecessorFacts DEF IInv, FragmentInv
  <2>2. \A c \in Ids : flush'[c] => state'[c] >= ChunkDeduplicated
    BY <1>1 DEF PackInv, FlushInv, ChunkDeduplicated
  <2>3. ASSUME NEW c \in Elems(workq'["assign"]) PROVE ~flush'[c]
    <3>1. CASE c \in Elems(workq["assign"])
      BY <1>1, <3>1 DEF PackInv, FlushInv
    <3>2. CASE c \in Ids /\ state[c] = ChunkRead
      BY <1>1, <3>2 DEF PackInv, FlushInv, ChunkDeduplicated, ChunkRead
    <3> QED BY <3>1, <3>2 DEF LayoutQuiet
  <2>4. \A c \in Ids : flush'[c] => LastOf(fragments'[FlushedBlock(c)'].pieces) = prevPiece'[c]
    BY <1>1, <1>2, <2>1 DEF PackInv, FlushInv
  <2>5. \A c \in Ids : flush'[c] /\ IsPiece(c)' =>
            fragments'[FlushedBlock(c)'].size + desc'[c].size > BlockSize
    BY <1>1, <1>2, <2>1 DEF PackInv, FlushInv
  <2>6. ASSUME NEW c \in Ids, IsPiece(c)', IsAssigned(c)'
        PROVE  IF flush'[c] \/ prevPiece'[c] = 0 THEN fragments'[fragOf'[c]].pieces[1] = c
               ELSE fragOf'[c] = FlushedBlock(c)'
    <3>1. IsPiece(c) /\ IsAssigned(c)
      BY <1>2, <2>6
    <3>2. fragOf[c] \in DOMAIN fragments
      BY <3>1 DEF IInv, FragmentInv, IsPiece, IsAssigned
    <3> QED BY <1>1, <1>2, <3>1, <3>2 DEF PackInv, FlushInv
  <2>7. \A c \in Ids : IsClosing(c)' /\ IsAssigned(c)' /\ prevPiece'[c] # 0 => flush'[c]
    BY <1>1, <1>2 DEF PackInv, FlushInv
  <2>8. ASSUME NEW b \in DOMAIN fragments', b < Len(fragments')
        PROVE  \E c \in Ids : flush'[c] /\ IsAssigned(c)' /\ FlushedBlock(c)' = b
    <3>1. PICK c \in Ids : flush[c] /\ IsAssigned(c) /\ FlushedBlock(c) = b
      BY <1>1, <2>8 DEF PackInv, FlushInv
    <3>2. IsAssigned(c)'
      BY <1>1, <3>1 DEF IsAssigned, ChunkAssigned
    <3> QED BY <1>1, <1>2, <3>1, <3>2
  <2> QED BY <2>2, <2>3, <2>4, <2>5, <2>6, <2>7, <2>8 DEF FlushInv
<1> QED BY <1>3, <1>4, <1>5, <1>6 DEF PackInv

\* A step that leaves the queues and the chunks alone.
LEMMA StillQuiet ==
    ASSUME IInv, UNCHANGED <<listVars, fragVars, fragments, state>>,
           \A c \in Elems(workq'["assign"]) : c \in Elems(workq["assign"])
    PROVE  LayoutQuiet
BY StateFacts DEF LayoutQuiet, IInv, TypeOK, listVars, InList, IsAssigned

\* A step that moves one chunk on, not across assignment unless it is a block.
LEMMA StateQuiet ==
    ASSUME IInv, UNCHANGED <<listVars, fragVars>>,
           fragments' \in Seq(FragmentType), Len(fragments') = Len(fragments),
           \A b \in DOMAIN fragments : /\ fragments'[b].pieces = fragments[b].pieces
                                       /\ fragments'[b].size = fragments[b].size,
           NEW c \in Ids, NEW v \in ChunkStates, StateStep(c, v), v >= state[c],
           IsBlock(c) \/ v < ChunkAssigned \/ state[c] >= ChunkAssigned,
           \A d \in Elems(workq'["assign"]) :
              d \in Elems(workq["assign"]) \/ (d = c /\ state[c] = ChunkRead)
    PROVE  LayoutQuiet
<1>1. \A d \in Ids : state'[d] \in Int /\ state[d] \in Int /\ state'[d] >= state[d]
  BY StateFacts DEF StateStep, ChunkStates, ChunkNone, ChunkFinished
<1>2. ASSUME NEW d \in Ids, InList(d) PROVE IsAssigned(d)' <=> IsAssigned(d)
  <2>1. CASE d = c
    <3>1. v < ChunkAssigned \/ state[c] >= ChunkAssigned
      BY <1>2, <2>1 DEF InList, IsBlock
    <3> QED BY <1>1, <2>1, <3>1 DEF IsAssigned, StateStep, ChunkAssigned
  <2>2. CASE d # c
    BY <2>2 DEF IsAssigned, StateStep
  <2> QED BY <2>1, <2>2
<1> QED BY <1>1, <1>2 DEF LayoutQuiet

\* The steps of a thread that assign no piece.
PackQuietStep(t) ==
    \/ FinishPiece(t) \/ StartWrite(t) \/ StartCompress(t) \/ AssignBlock(t)
    \/ Deduplicate(t) \/ StartRead(t) \/ ReadDone(t) \/ CompressDone(t) \/ WriteDone(t)
    \/ Abort(t) \/ QuietStep(t)

LEMMA ThreadQuiet ==
    ASSUME IInv, NEW t \in Threads, PackQuietStep(t)
    PROVE  LayoutQuiet
<1> USE DEF ChunkNone, ChunkRead, ChunkDeduplicated, ChunkAssigned, ChunkWritable, ChunkFinished,
            ChunkStates
<1>0. /\ fragments \in Seq(FragmentType)
      /\ \A s \in {"read", "dedup", "assign", "compress", "write"} : s \in Stages
  BY DEF IInv, TypeOK, Stages
<1>1. CASE FinishPiece(t)
  <2>1. PICK c : c = Head(workq["write"])
    OBVIOUS
  <2>2. /\ c \in Ids /\ state[c] = ChunkWritable /\ StateStep(c, ChunkFinished)
        /\ Removed(workq, Pop(workq, "write"), "write", c) /\ FinishQueue(Pop(workq, "write"), c)
    BY <1>1, <2>1, FinishPieceFacts
  <2>3. UNCHANGED <<listVars, fragVars, fragments>>
    BY <1>1 DEF FinishPiece
  <2>4. \A d \in Elems(workq'["assign"]) : d \in Elems(workq["assign"])
    BY <1>0, <2>2 DEF Removed, Added, FinishQueue
  <2> QED BY <1>0, <2>2, <2>3, <2>4, StateQuiet
<1>2. CASE StartWrite(t)
  <2>1. PICK c : c = Head(workq["write"])
    OBVIOUS
  <2>2. PICK blk \in ImageBlockType : SetImageBlock(c, blk)
    BY <1>2, <2>1, StartWriteFacts
  <2>3. c \in Ids /\ WritesBlock(c) /\ Removed(workq, workq', "write", c) /\ state[c] = ChunkWritable
    BY <1>2, <2>1, StartWriteFacts
  <2>4. UNCHANGED <<listVars, fragVars, state>>
    BY <1>2 DEF StartWrite
  <2>5. StateStep(c, ChunkWritable)
    BY <2>3, <2>4, StateFacts DEF StateStep
  <2>6. \A d \in Elems(workq'["assign"]) : d \in Elems(workq["assign"])
    BY <1>0, <2>3 DEF Removed
  <2> QED BY <2>2, <2>3, <2>4, <2>5, <2>6, ImageBlockFrame, StateQuiet
<1>3. CASE StartCompress(t)
  <2>1. PICK c : c = Head(workq["compress"])
    OBVIOUS
  <2>2. Removed(workq, workq', "compress", c)
    BY <1>3, <2>1, StartCompressFacts
  <2>3. UNCHANGED <<listVars, fragVars, state, fragments>>
    BY <1>3 DEF StartCompress
  <2>4. \A d \in Elems(workq'["assign"]) : d \in Elems(workq["assign"])
    BY <1>0, <2>2 DEF Removed
  <2> QED BY <2>3, <2>4, StillQuiet
<1>4. CASE AssignBlock(t)
  <2>1. PICK c : c = Head(workq["assign"])
    OBVIOUS
  <2>2. /\ c \in Ids /\ state[c] = ChunkDeduplicated /\ StateStep(c, ChunkAssigned) /\ IsBlock(c)
        /\ Removed(workq, Pop(workq, "assign"), "assign", c)
        /\ Added(Pop(workq, "assign"), workq', "compress", c)
    BY <1>4, <2>1, AssignBlockFacts
  <2>3. UNCHANGED <<listVars, fragVars, fragments>>
    BY <1>4 DEF AssignBlock
  <2>4. \A d \in Elems(workq'["assign"]) : d \in Elems(workq["assign"])
    BY <1>0, <2>2 DEF Removed, Added
  <2> QED BY <1>0, <2>2, <2>3, <2>4, StateQuiet
<1>5. CASE Deduplicate(t)
  <2>1. PICK c : c = Head(workq["dedup"])
    OBVIOUS
  <2>2. /\ c \in Ids /\ state[c] = ChunkRead /\ StateStep(c, ChunkDeduplicated)
        /\ Removed(workq, Pop(workq, "dedup"), "dedup", c)
        /\ workq' = Pop(workq, "dedup") \/ Added(Pop(workq, "dedup"), workq', "assign", c)
    BY <1>5, <2>1, DeduplicateFacts
  <2>3. UNCHANGED <<listVars, fragVars, fragments>>
    BY <1>5 DEF Deduplicate
  <2>4. \A d \in Elems(workq'["assign"]) : d \in Elems(workq["assign"]) \/ d = c
    BY <1>0, <2>2 DEF Removed, Added
  <2> QED BY <1>0, <2>2, <2>3, <2>4, StateQuiet
<1>6. CASE StartRead(t)
  <2>1. PICK c : c = Head(workq["read"])
    OBVIOUS
  <2>2. /\ c \in Ids /\ state[c] = ChunkNone /\ Removed(workq, Pop(workq, "read"), "read", c)
        /\ \/ StateStep(c, ChunkRead) /\ Added(Pop(workq, "read"), workq', "dedup", c)
           \/ state' = state /\ workq' = Pop(workq, "read")
    BY <1>6, <2>1, StartReadFacts
  <2>3. UNCHANGED <<listVars, fragVars, fragments>>
    BY <1>6 DEF StartRead
  <2>4. \A d \in Elems(workq'["assign"]) : d \in Elems(workq["assign"])
    BY <1>0, <2>2 DEF Removed, Added
  <2> QED BY <1>0, <2>2, <2>3, <2>4, StateQuiet, StillQuiet
<1>7. CASE ReadDone(t)
  <2>1. PICK c : c = cur[t]
    OBVIOUS
  <2>2. /\ c \in Ids /\ state[c] = ChunkNone /\ StateStep(c, ChunkRead)
        /\ Added(workq, workq', "dedup", c)
    BY <1>7, <2>1, ReadDoneFacts
  <2>3. UNCHANGED <<listVars, fragVars, fragments>>
    BY <1>7 DEF ReadDone
  <2>4. \A d \in Elems(workq'["assign"]) : d \in Elems(workq["assign"])
    BY <1>0, <2>2 DEF Added
  <2> QED BY <1>0, <2>2, <2>3, <2>4, StateQuiet
<1>8. CASE CompressDone(t)
  <2>1. PICK c : c = cur[t]
    OBVIOUS
  <2>2. PICK blk \in ImageBlockType : SetImageBlock(c, blk)
    BY <1>8, <2>1, CompressDoneFacts, CompressedFacts
  <2>3. /\ c \in Ids /\ WritesBlock(c) /\ state[c] = ChunkAssigned /\ StateStep(c, ChunkWritable)
        /\ workq' = workq \/ Added(workq, workq', "write", c)
    BY <1>8, <2>1, CompressDoneFacts
  <2>4. UNCHANGED <<listVars, fragVars>>
    BY <1>8 DEF CompressDone
  <2>5. \A d \in Elems(workq'["assign"]) : d \in Elems(workq["assign"])
    BY <1>0, <2>3 DEF Added
  <2> QED BY <2>2, <2>3, <2>4, <2>5, ImageBlockFrame, StateQuiet
<1>9. CASE WriteDone(t)
  <2>1. PICK c : c = cur[t]
    OBVIOUS
  <2>2. PICK blk \in ImageBlockType : SetImageBlock(c, blk)
    BY <1>9, <2>1, WriteDoneFacts
  <2>3. /\ c \in Ids /\ WritesBlock(c) /\ state[c] = ChunkWritable /\ StateStep(c, ChunkFinished)
        /\ FinishQueue(workq, c)
    BY <1>9, <2>1, WriteDoneFacts
  <2>4. UNCHANGED <<listVars, fragVars>>
    BY <1>9 DEF WriteDone
  <2>5. \A d \in Elems(workq'["assign"]) : d \in Elems(workq["assign"])
    BY <1>0, <2>3 DEF Added, FinishQueue
  <2> QED BY <2>2, <2>3, <2>4, <2>5, ImageBlockFrame, StateQuiet
<1>10. CASE Abort(t)
  <2>1. UNCHANGED <<listVars, fragVars, state, fragments>> /\ workq' = EmptyQueues
    BY <1>10 DEF Abort
  <2>2. \A d \in Elems(workq'["assign"]) : d \in Elems(workq["assign"])
    BY <1>0, <2>1, EmptyFacts
  <2> QED BY <2>1, <2>2, StillQuiet
<1>11. CASE QuietStep(t)
  <2>1. UNCHANGED bulkVars
    BY <1>11 DEF QuietStep, OpenCompressor, OpenFail, Enter, SpuriousWake, Exit, Wait, ReadFail,
                 WriteFail, ReturnFailed
  <2> QED BY <2>1, StillQuiet DEF bulkVars, listVars, fragVars
<1> QED BY <1>1, <1>2, <1>3, <1>4, <1>5, <1>6, <1>7, <1>8, <1>9, <1>10, <1>11 DEF PackQuietStep

-----------------------------------------------------------------------------
(* Submission.                                                             *)

LEMMA EnqueueLayout ==
    ASSUME IInv, PackInv, NEW d, EnqueueMove(d)
    PROVE  PackInv'
<1>0. PICK c : c = count + 1
  OBVIOUS
<1>1. /\ c \in Ids /\ c > count /\ count \in Nat /\ count' = c
      /\ d.kind \in {"block", "piece", "closing"}
      /\ desc'[c] = d /\ \A e \in Ids \ {c} : desc'[e] = desc[e]
      /\ lastPiece \in Ids0 /\ (lastPiece # 0 => lastPiece \in Ids)
      /\ state[c] = ChunkNone /\ desc[c].kind = "unused"
      /\ Added(workq, workq', "read", c)
      /\ \A e \in Ids \ {c} : prevPiece'[e] = prevPiece[e]
      /\ prevPiece'[c] = IF d.kind = "block" THEN 0 ELSE lastPiece
      /\ lastPiece' = IF d.kind = "block" THEN lastPiece ELSE c
      /\ \A e \in Ids : nextPiece'[e] = IF e = lastPiece /\ d.kind # "block" THEN c
                                        ELSE nextPiece[e]
  BY <1>0, EnqueueFacts
<1>2. UNCHANGED <<flush, fragOf, offsetOf, state, fragments>>
  BY <1>0, EnqueueFacts DEF fragVars
<1>3. /\ \A e \in Ids : e > count /\ e # c => ~InList(e)' /\ ~InList(e)
      /\ \A e \in Ids : InList(e) => e <= count /\ e # c
      /\ \A e \in Ids \ {c} : /\ InList(e)' <=> InList(e)
                              /\ IsPiece(e)' <=> IsPiece(e)
                              /\ IsClosing(e)' <=> IsClosing(e)
      /\ \A e \in Ids : IsPiece(e) => InList(e)
      /\ \A e \in Ids : e \in Int
  <2>1. UnusedDesc.kind = "unused"
    BY Zenon DEF UnusedDesc
  <2>2. \A e \in Ids : e > count => desc[e].kind = "unused"
    BY <2>1 DEF IInv, UnusedInv
  <2> QED BY <1>1, <2>2, BoundsAreNat DEF InList, IsPiece, IsClosing, Ids
<1>4. /\ prevPiece \in [Ids -> Ids0] /\ \A e \in Ids : prevPiece[e] \in Int
      /\ \A e \in Ids : prevPiece[e] # 0 => prevPiece[e] \in Ids
      /\ \A e \in Ids : state[e] \in Int
      /\ lastPiece \in Int
  <2>1. prevPiece \in [Ids -> Ids0] /\ lastPiece \in Ids0
    BY DEF IInv, TypeOK
  <2> QED BY <2>1, StateFacts, BoundsAreNat DEF Ids, Ids0
<1>5. ListInv'
  <2>1. \A e \in Ids : prevPiece'[e] < e
    BY <1>1, <1>3, <1>4, BoundsAreNat DEF PackInv, ListInv, Ids, Ids0
  <2>2. ASSUME NEW e \in Ids, prevPiece'[e] # 0 PROVE nextPiece'[prevPiece'[e]] = e
    <3>1. CASE e = c
      BY <1>1, <2>2, <3>1
    <3>2. CASE e # c
      <4>1. prevPiece[e] # 0 /\ prevPiece[e] \in Ids /\ nextPiece[prevPiece[e]] = e
        BY <1>1, <1>4, <2>2, <3>2 DEF PackInv, ListInv
      <4>2. e <= count /\ desc[e].kind # "unused" /\ desc[e].kind # "block"
        BY <1>3, <1>1, <4>1 DEF IInv, UnusedInv, PieceInv
      <4>3. InList(e)
        BY <4>2, DescFacts DEF InList
      <4>4. prevPiece[e] # lastPiece
        BY <1>3, <1>4, <4>1, <4>3 DEF PackInv, ListInv
      <4> QED BY <1>1, <3>2, <4>1, <4>4
    <3> QED BY <3>1, <3>2
  <2>3. ASSUME NEW p \in Ids, NEW e \in Ids, InList(p)', InList(e)', p < e
        PROVE  p <= prevPiece'[e]
    <3>1. CASE e = c
      <4>1. InList(p) /\ d.kind # "block"
        BY <1>1, <1>3, <2>3, <3>1 DEF InList
      <4> QED BY <1>1, <3>1, <4>1 DEF PackInv, ListInv
    <3>2. CASE e # c
      <4>1. InList(e) /\ InList(p)
        BY <1>1, <1>3, <2>3, <3>2
      <4> QED BY <1>1, <2>3, <3>2, <4>1 DEF PackInv, ListInv
    <3> QED BY <3>1, <3>2
  <2>4. ASSUME NEW e \in Ids, InList(e)' PROVE e <= lastPiece'
    <3>1. CASE e = c
      BY <1>1, <1>3, <2>4, <3>1 DEF InList
    <3>2. CASE e # c
      <4>1. InList(e) /\ e <= lastPiece /\ lastPiece <= count
        BY <1>3, <2>4, <3>2 DEF PackInv, ListInv
      <4> QED BY <1>1, <1>3, <1>4, <4>1
    <3> QED BY <3>1, <3>2
  <2>5. lastPiece' <= count'
    BY <1>1, <1>3, <1>4 DEF PackInv, ListInv
  <2> QED BY <2>1, <2>2, <2>3, <2>4, <2>5 DEF ListInv
<1>6. \A e \in Ids : /\ IsAssigned(e)' <=> IsAssigned(e)
                     /\ IsAssigned(e) => e # c
  BY <1>1, <1>2 DEF IsAssigned, ChunkNone, ChunkAssigned
<1>7. AssignOrder'
  <2>1. ASSUME NEW p \in Ids, NEW e \in Ids, InList(p)', InList(e)', p < e, IsAssigned(e)'
        PROVE  IsAssigned(p)'
    <3>1. e # c /\ InList(e) /\ e <= count /\ p # c
      BY <1>1, <1>3, <1>6, <2>1
    <3> QED BY <1>3, <1>6, <2>1, <3>1 DEF PackInv, AssignOrder
  <2> QED BY <2>1 DEF AssignOrder
<1>8. LayoutInv'
  <2>1. ASSUME NEW b \in DOMAIN fragments PROVE BlockLayout(b)'
    <3>1. PICK ps : ps = fragments[b].pieces
      OBVIOUS
    <3>2. BlockLayout(b) /\ ps \in Seq(Ids)
      BY <3>1, PiecesFacts DEF PackInv, LayoutInv
    <3>3. \A i \in DOMAIN ps : ps[i] \in Ids \ {c}
      BY <1>1, <3>1, <3>2 DEF BlockLayout, IsPiece
    <3>4. \A i \in DOMAIN ps : /\ IsPiece(ps[i])' <=> IsPiece(ps[i])
                               /\ IsAssigned(ps[i])' <=> IsAssigned(ps[i])
                               /\ desc'[ps[i]] = desc[ps[i]] /\ prevPiece'[ps[i]] = prevPiece[ps[i]]
      BY <1>1, <1>3, <1>6, <3>3
    <3>5. ps # <<>> => Len(ps) \in DOMAIN ps
      BY <3>2
    <3>6. \A i \in 1 .. Len(ps) - 1 : i \in DOMAIN ps /\ i + 1 \in DOMAIN ps
      BY <3>2
    <3> QED BY <1>2, <3>1, <3>2, <3>4, <3>5, <3>6, ZenonT(40) DEF BlockLayout, LastOf
  <2>2. ASSUME NEW e \in Ids, IsPiece(e)', IsAssigned(e)' PROVE IsPiece(e) /\ IsAssigned(e)
    BY <1>3, <1>6, <2>2
  <2> QED BY <1>2, <2>1, <2>2 DEF PackInv, LayoutInv, LastOf
<1>9. FlushInv'
  <2>1. \A e \in Ids : flush[e] => e # c /\ FlushedBlock(e)' = FlushedBlock(e)
    BY <1>1, <1>2 DEF PackInv, FlushInv, ChunkNone, ChunkDeduplicated, FlushedBlock
  <2>2. \A e \in Ids \ {c} : FlushedBlock(e)' = FlushedBlock(e) /\ prevPiece'[e] = prevPiece[e]
    BY <1>1, <1>2 DEF FlushedBlock
  <2>3. Elems(workq'["assign"]) = Elems(workq["assign"])
    BY <1>1 DEF Added, Stages
  <2>4. /\ \A e \in Ids : flush'[e] => state'[e] >= ChunkDeduplicated
        /\ \A e \in Elems(workq'["assign"]) : ~flush'[e]
    BY <1>2, <2>3 DEF PackInv, FlushInv
  <2>5. \A e \in Ids : flush'[e] => LastOf(fragments'[FlushedBlock(e)'].pieces) = prevPiece'[e]
    BY <1>2, <2>1, <2>2 DEF PackInv, FlushInv
  <2>6. \A e \in Ids : flush'[e] /\ IsPiece(e)' =>
          fragments'[FlushedBlock(e)'].size + desc'[e].size > BlockSize
    BY <1>1, <1>2, <1>3, <2>1 DEF PackInv, FlushInv
  <2>7. \A e \in Ids : IsPiece(e)' /\ IsAssigned(e)' =>
          IF flush'[e] \/ prevPiece'[e] = 0 THEN fragments'[fragOf'[e]].pieces[1] = e
          ELSE fragOf'[e] = FlushedBlock(e)'
    BY <1>2, <1>3, <1>6, <2>2 DEF PackInv, FlushInv
  <2>8. \A e \in Ids : IsClosing(e)' /\ IsAssigned(e)' /\ prevPiece'[e] # 0 => flush'[e]
    BY <1>2, <1>3, <1>6, <2>2 DEF PackInv, FlushInv
  <2>9. ASSUME NEW b \in DOMAIN fragments', b < Len(fragments')
        PROVE  \E e \in Ids : flush'[e] /\ IsAssigned(e)' /\ FlushedBlock(e)' = b
    <3>1. PICK e \in Ids : flush[e] /\ IsAssigned(e) /\ FlushedBlock(e) = b
      BY <1>2, <2>9 DEF PackInv, FlushInv
    <3> QED BY <1>2, <1>6, <2>1, <3>1
  <2> QED BY <2>4, <2>5, <2>6, <2>7, <2>8, <2>9 DEF FlushInv
<1> QED BY <1>5, <1>7, <1>8, <1>9 DEF PackInv

-----------------------------------------------------------------------------
(* Assignment of a piece.                                                  *)

\* The piece whose turn it is follows the last piece of the last block.
LEMMA PredecessorIsLast ==
    ASSUME IInv, PackInv, NEW c \in Ids, InList(c), ~IsAssigned(c), PredecessorAssigned(c)
    PROVE  /\ prevPiece[c] # 0 => /\ FlushedBlock(c) = Len(fragments)
                                  /\ FlushedBlock(c) \in DOMAIN fragments
                                  /\ LastOf(fragments[FlushedBlock(c)].pieces) = prevPiece[c]
                                  /\ prevPiece[c] \in Ids /\ prevPiece[c] < c
                                  /\ IsPiece(prevPiece[c]) /\ IsAssigned(prevPiece[c])
           /\ prevPiece[c] = 0 => fragments = <<>>
<1>1. fragments \in Seq(FragmentType) /\ prevPiece \in [Ids -> Ids0]
  BY DEF IInv, TypeOK
<1>2. ASSUME fragments # <<>>
      PROVE  LET z == LastOf(fragments[Len(fragments)].pieces)
             IN  z \in Ids /\ z <= prevPiece[c] /\ fragOf[z] = Len(fragments)
  <2>1. PICK b : b = Len(fragments)
    OBVIOUS
  <2>2. b \in DOMAIN fragments
    BY <1>1, <1>2, <2>1
  <2>3. PICK ps : ps = fragments[b].pieces
    OBVIOUS
  <2>4. ps \in Seq(Ids) /\ BlockLayout(b) /\ ps # <<>>
    BY <2>2, <2>3, PiecesFacts DEF PackInv, LayoutInv, BlockLayout
  <2>5. PICK z : z = LastOf(ps)
    OBVIOUS
  <2>6. z \in Ids /\ IsPiece(z) /\ IsAssigned(z) /\ fragOf[z] = b
    BY <2>3, <2>4, <2>5 DEF BlockLayout, LastOf
  <2>7. InList(z)
    BY <2>6 DEF InList, IsPiece
  <2>8. z < c
    BY <2>6, <2>7, BoundsAreNat DEF PackInv, AssignOrder, Ids
  <2>9. z <= prevPiece[c]
    BY <2>6, <2>7, <2>8 DEF PackInv, ListInv
  <2> QED BY <2>1, <2>3, <2>5, <2>6, <2>9
<1>3. CASE prevPiece[c] = 0
  BY <1>2, <1>3, BoundsAreNat DEF Ids
<1>4. CASE prevPiece[c] # 0
  <2>1. PICK p : p = prevPiece[c]
    OBVIOUS
  <2>2. p \in Ids /\ FlushedBlock(c) \in DOMAIN fragments /\ FlushedBlock(c) = fragOf[p]
    BY <1>4, <2>1, PredecessorFacts DEF FlushedBlock
  <2>3. IsPiece(p) /\ IsAssigned(p)
    BY <1>4, <2>1 DEF IInv, PieceInv, IsPiece, PredecessorAssigned, IsAssigned
  <2>4. p < c
    BY <2>1 DEF PackInv, ListInv
  <2>5. fragments # <<>>
    BY <2>2
  <2>6. PICK z : z = LastOf(fragments[Len(fragments)].pieces)
    OBVIOUS
  <2>7. z \in Ids /\ z <= p /\ fragOf[z] = Len(fragments)
    BY <1>2, <2>1, <2>5, <2>6
  <2>8. p <= z
    BY <2>2, <2>3, <2>6 DEF PackInv, LayoutInv
  <2>9. p = z
    BY <2>2, <2>7, <2>8, BoundsAreNat DEF Ids
  <2> QED BY <1>4, <2>1, <2>2, <2>3, <2>4, <2>6, <2>7, <2>9
<1> QED BY <1>3, <1>4

\* No other piece flushes the block that the piece whose turn it is follows.
LEMMA OnlySuccessorFlushes ==
    ASSUME IInv, PackInv, NEW c \in Ids, NEW d \in Ids, prevPiece[c] # 0,
           LastOf(fragments[FlushedBlock(c)].pieces) = prevPiece[c],
           flush[d], FlushedBlock(d) = FlushedBlock(c)
    PROVE  d = c
<1>1. prevPiece[d] = prevPiece[c]
  BY DEF PackInv, FlushInv
<1> QED BY <1>1 DEF PackInv, ListInv

LEMMA AssignFailLayout ==
    ASSUME IInv, PackInv, NEW t \in Threads, AssignFail(t)
    PROVE  PackInv'
<1>0. PICK c : c = Head(workq["assign"])
  OBVIOUS
<1>1. /\ c \in Ids /\ state[c] = ChunkDeduplicated /\ IsPiece(c) /\ PredecessorAssigned(c)
      /\ Removed(workq, workq', "assign", c)
      /\ flush'[c] = Overflows(c) /\ \A d \in Ids \ {c} : flush'[d] = flush[d]
  BY <1>0, AssignFailFacts
<1>2. UNCHANGED <<desc, count, prevPiece, nextPiece, lastPiece, fragOf, offsetOf, state, fragments>>
  BY <1>0, AssignFailFacts DEF listVars
<1>3. InList(c) /\ ~IsAssigned(c)
  BY <1>1 DEF InList, IsPiece, IsAssigned, ChunkDeduplicated, ChunkAssigned
<1>4. \A d \in Ids : /\ IsPiece(d)' <=> IsPiece(d)
                     /\ InList(d)' <=> InList(d)
                     /\ IsClosing(d)' <=> IsClosing(d)
                     /\ IsAssigned(d)' <=> IsAssigned(d)
                     /\ FlushedBlock(d)' = FlushedBlock(d)
  BY <1>2 DEF IsPiece, InList, IsClosing, IsAssigned, FlushedBlock
<1>5. ListInv' /\ AssignOrder'
  BY <1>2, <1>4 DEF PackInv, ListInv, AssignOrder
<1>6. LayoutInv'
  <2>1. ASSUME NEW b \in DOMAIN fragments PROVE BlockLayout(b)'
    <3>1. BlockLayout(b) /\ fragments[b].pieces \in Seq(Ids)
      BY PiecesFacts DEF PackInv, LayoutInv
    <3> QED BY <1>2, <1>4, <3>1 DEF BlockLayout
  <2> QED BY <1>2, <1>4, <2>1 DEF PackInv, LayoutInv
<1>7. flush'[c] => /\ prevPiece[c] # 0
                   /\ LastOf(fragments[FlushedBlock(c)].pieces) = prevPiece[c]
                   /\ fragments[FlushedBlock(c)].size + desc[c].size > BlockSize
  BY <1>1, <1>3, PredecessorIsLast DEF Overflows, FlushedBlock
<1>8. FlushInv'
  <2>1. \A d \in Ids : flush'[d] => state'[d] >= ChunkDeduplicated
    BY <1>1, <1>2 DEF PackInv, FlushInv, ChunkDeduplicated
  <2>2. ASSUME NEW d \in Elems(workq'["assign"]) PROVE ~flush'[d]
    <3>1. d \in Elems(workq["assign"]) /\ d # c
      BY <1>1 DEF Removed, Stages
    <3>2. d \in Ids
      BY <3>1, QueueFacts DEF Stages
    <3> QED BY <1>1, <3>1, <3>2 DEF PackInv, FlushInv
  <2>3. \A d \in Ids : flush'[d] => LastOf(fragments'[FlushedBlock(d)'].pieces) = prevPiece'[d]
    BY <1>1, <1>2, <1>4, <1>7 DEF PackInv, FlushInv
  <2>4. \A d \in Ids : flush'[d] /\ IsPiece(d)' =>
          fragments'[FlushedBlock(d)'].size + desc'[d].size > BlockSize
    BY <1>1, <1>2, <1>4, <1>7 DEF PackInv, FlushInv
  <2>5. \A d \in Ids : IsPiece(d)' /\ IsAssigned(d)' =>
          IF flush'[d] \/ prevPiece'[d] = 0 THEN fragments'[fragOf'[d]].pieces[1] = d
          ELSE fragOf'[d] = FlushedBlock(d)'
    BY <1>1, <1>2, <1>3, <1>4 DEF PackInv, FlushInv
  <2>6. \A d \in Ids : IsClosing(d)' /\ IsAssigned(d)' /\ prevPiece'[d] # 0 => flush'[d]
    BY <1>1, <1>2, <1>3, <1>4 DEF PackInv, FlushInv
  <2>7. ASSUME NEW b \in DOMAIN fragments', b < Len(fragments')
        PROVE  \E e \in Ids : flush'[e] /\ IsAssigned(e)' /\ FlushedBlock(e)' = b
    <3>1. PICK e \in Ids : flush[e] /\ IsAssigned(e) /\ FlushedBlock(e) = b
      BY <1>2, <2>7 DEF PackInv, FlushInv
    <3> QED BY <1>1, <1>3, <1>4, <3>1
  <2> QED BY <2>1, <2>2, <2>3, <2>4, <2>5, <2>6, <2>7 DEF FlushInv
<1> QED BY <1>5, <1>6, <1>8 DEF PackInv

\* What the assignment of c, in any of its three forms, does to the other chunks.
AssignMove(c) ==
    /\ c \in Ids /\ c <= count /\ InList(c) /\ ~IsAssigned(c) /\ PredecessorAssigned(c)
    /\ state[c] = ChunkDeduplicated
    /\ UNCHANGED <<desc, count, prevPiece, nextPiece, lastPiece>>
    /\ \A d \in Ids : state'[d] \in Int /\ state[d] \in Int
    /\ \A d \in Ids : /\ IsPiece(d)' <=> IsPiece(d)
                      /\ InList(d)' <=> InList(d)
                      /\ IsClosing(d)' <=> IsClosing(d)
                      /\ IsPiece(d) => InList(d)
                      /\ IsAssigned(d)' <=> IsAssigned(d) \/ d = c
    /\ \A d \in Ids \ {c} : state'[d] = state[d]
    /\ flush'[c] = MustFlush(c) /\ \A d \in Ids \ {c} : flush'[d] = flush[d]
    /\ AssignQueue(c)
    /\ \A d \in Ids : (flush[d] \/ (InList(d) /\ IsAssigned(d))) /\ prevPiece[d] # 0 => prevPiece[d] # c
    /\ \A d \in Ids : IsPiece(d) /\ IsAssigned(d) => d < c /\ fragOf[d] \in DOMAIN fragments
    /\ prevPiece[c] # c

LEMMA AssignMoveFacts ==
    ASSUME IInv, PackInv, NEW t \in Threads, AssignPiece(t), NEW c, c = Head(workq["assign"])
    PROVE  AssignMove(c) /\ PlacePiece(c)
<1>1. /\ c \in Ids /\ c <= count /\ InList(c) /\ state[c] = ChunkDeduplicated
      /\ PredecessorAssigned(c) /\ PlacePiece(c)
      /\ StateStep(c, IF MustFlush(c) THEN ChunkAssigned ELSE ChunkWritable)
      /\ flush'[c] = MustFlush(c) /\ \A d \in Ids \ {c} : flush'[d] = flush[d]
      /\ AssignQueue(c)
      /\ UNCHANGED <<desc, count, prevPiece, nextPiece, lastPiece>>
  BY AssignPieceFacts DEF listVars
<1>2. \A d \in Ids : state'[d] \in Int /\ state[d] \in Int
  BY <1>1, StateFacts DEF StateStep, ChunkStates, ChunkNone, ChunkFinished
<1>3. ~IsAssigned(c)
  BY <1>1 DEF IsAssigned, ChunkAssigned, ChunkDeduplicated
<1>4. \A d \in Ids : IsAssigned(d)' <=> IsAssigned(d) \/ d = c
  BY <1>1 DEF IsAssigned, StateStep, ChunkAssigned, ChunkWritable
<1>5. \A d \in Ids \ {c} : state'[d] = state[d]
  BY <1>1 DEF StateStep
<1>6. \A d \in Ids : flush[d] => PredecessorAssigned(d)
  BY DEF IInv, FragmentInv
<1>7. ASSUME NEW d \in Ids, InList(d), IsAssigned(d), prevPiece[d] # 0 PROVE prevPiece[d] # c
  <2>1. c < d => IsAssigned(c)
    BY <1>1, <1>7 DEF PackInv, AssignOrder
  <2> QED BY <1>1, <1>3, <2>1 DEF PackInv, ListInv
<1>8. \A d \in Ids : flush[d] /\ prevPiece[d] # 0 => prevPiece[d] # c
  BY <1>3, <1>6 DEF PredecessorAssigned, IsAssigned
<1>9. ASSUME NEW d \in Ids, IsPiece(d), IsAssigned(d) PROVE d < c /\ fragOf[d] \in DOMAIN fragments
  <2>1. c < d => IsAssigned(c)
    BY <1>1, <1>9 DEF PackInv, AssignOrder, InList, IsPiece
  <2>2. d < c
    BY <1>1, <1>3, <1>9, <2>1, BoundsAreNat DEF Ids
  <2> QED BY <1>9, <2>2 DEF IInv, FragmentInv, IsPiece, IsAssigned
<1>10. prevPiece[c] # c
  BY <1>1, BoundsAreNat DEF PackInv, ListInv, Ids
<1>11. \A d \in Ids : /\ IsPiece(d)' <=> IsPiece(d)
                      /\ InList(d)' <=> InList(d)
                      /\ IsClosing(d)' <=> IsClosing(d)
                      /\ IsPiece(d) => InList(d)
  BY <1>1 DEF IsPiece, InList, IsClosing
<1> QED BY <1>1, <1>2, <1>3, <1>4, <1>5, <1>7, <1>8, <1>9, <1>10, <1>11 DEF AssignMove

LEMMA AssignOrderStep ==
    ASSUME IInv, PackInv, NEW c, AssignMove(c)
    PROVE  ListInv' /\ AssignOrder'
<1>1. ListInv'
  BY DEF AssignMove, PackInv, ListInv
<1>2. ASSUME NEW p \in Ids, NEW e \in Ids, InList(p)', InList(e)', p < e, IsAssigned(e)'
      PROVE  IsAssigned(p)'
  <2>0. InList(p) /\ InList(e) /\ c \in Ids /\ InList(c) /\ PredecessorAssigned(c)
    BY <1>2 DEF AssignMove
  <2>1. CASE IsAssigned(e)
    BY <1>2, <2>0, <2>1 DEF AssignMove, PackInv, AssignOrder
  <2>2. CASE e = c
    <3>1. PICK x : x = prevPiece[c]
      OBVIOUS
    <3>2. p <= x /\ x \in Ids0
      BY <1>2, <2>0, <2>2, <3>1 DEF PackInv, ListInv, IInv, TypeOK
    <3>3. x \in Ids /\ x # 0
      BY <3>2, BoundsAreNat DEF Ids, Ids0
    <3>4. IsAssigned(x) /\ InList(x)
      BY <2>0, <3>1, <3>3 DEF PredecessorAssigned, IsAssigned, InList, IInv, PieceInv
    <3>5. p = x \/ p < x
      BY <3>2, <3>3, BoundsAreNat DEF Ids
    <3>6. IsAssigned(p)
      BY <2>0, <3>3, <3>4, <3>5 DEF PackInv, AssignOrder
    <3> QED BY <3>6 DEF AssignMove
  <2> QED BY <1>2, <2>1, <2>2 DEF AssignMove
<1> QED BY <1>1, <1>2 DEF AssignOrder

\* The parts of FlushInv that every assignment preserves in the same way.
LEMMA AssignQueueStep ==
    ASSUME IInv, PackInv, NEW c, AssignMove(c)
    PROVE  /\ \A d \in Ids : flush'[d] => state'[d] >= ChunkDeduplicated
           /\ \A d \in Elems(workq'["assign"]) : ~flush'[d]
<1>1. \A d \in Ids : flush'[d] => state'[d] >= ChunkDeduplicated
  <2>1. IsAssigned(c)'
    BY DEF AssignMove
  <2> QED BY <2>1 DEF AssignMove, PackInv, FlushInv, IsAssigned, ChunkDeduplicated, ChunkAssigned
<1>2. ASSUME NEW d \in Elems(workq'["assign"]) PROVE ~flush'[d]
  <2>0. AssignQueue(c) /\ "assign" \in Stages /\ c \in Ids /\ ~IsAssigned(c)
    BY DEF AssignMove, Stages
  <2>1. CASE d # c /\ d \in Elems(workq["assign"])
    <3>1. d \in Ids
      BY <2>0, <2>1, QueueFacts
    <3>2. ~flush[d]
      BY <2>1 DEF PackInv, FlushInv
    <3> QED BY <2>1, <3>1, <3>2 DEF AssignMove
  <2>2. CASE d \in Ids /\ d # c /\ prevPiece[d] = c
    <3>1. d \in Ids
      BY <2>2
    <3>2. ~PredecessorAssigned(d)
      BY <2>0, <2>2, BoundsAreNat DEF PredecessorAssigned, IsAssigned, Ids
    <3>3. ~flush[d]
      BY <3>1, <3>2 DEF IInv, FragmentInv
    <3> QED BY <2>2, <3>1, <3>3 DEF AssignMove
  <2> QED BY <2>0, <2>1, <2>2 DEF AssignQueue
<1> QED BY <1>1, <1>2

\* The closing piece gets no place, and flushes the last block if there is one.
LEMMA AssignClosingLayout ==
    ASSUME IInv, PackInv, NEW c, AssignMove(c), PlacePiece(c), IsClosing(c)
    PROVE  PackInv'
<1>1. c \in Ids /\ UNCHANGED <<desc, prevPiece, nextPiece, fragments, fragOf, offsetOf>>
  BY DEF PlacePiece, AssignMove
<1>2. \A d \in Ids : FlushedBlock(d)' = FlushedBlock(d)
  BY <1>1 DEF FlushedBlock
<1>3. ~IsPiece(c) /\ InList(c) /\ ~IsAssigned(c) /\ PredecessorAssigned(c)
  BY DEF AssignMove, IsPiece, IsClosing
<1>4. LayoutInv'
  <2>1. ASSUME NEW b \in DOMAIN fragments PROVE BlockLayout(b)'
    <3>1. BlockLayout(b) /\ fragments[b].pieces \in Seq(Ids)
      BY PiecesFacts DEF PackInv, LayoutInv
    <3> QED BY <1>1, <3>1 DEF BlockLayout, AssignMove
  <2>2. \A d \in Ids : IsPiece(d)' /\ IsAssigned(d)' => IsPiece(d) /\ IsAssigned(d)
    BY <1>3 DEF AssignMove
  <2> QED BY <1>1, <2>1, <2>2 DEF PackInv, LayoutInv
<1>5. FlushInv'
  <2>1. flush'[c] <=> prevPiece[c] # 0
    BY DEF AssignMove, MustFlush
  <2>2. prevPiece[c] # 0 => LastOf(fragments[FlushedBlock(c)].pieces) = prevPiece[c]
    BY <1>1, <1>3, PredecessorIsLast
  <2>3. \A d \in Ids : flush'[d] => LastOf(fragments'[FlushedBlock(d)'].pieces) = prevPiece'[d]
    BY <1>1, <1>2, <2>1, <2>2 DEF AssignMove, PackInv, FlushInv
  <2>4. \A d \in Ids : flush'[d] /\ IsPiece(d)' =>
          fragments'[FlushedBlock(d)'].size + desc'[d].size > BlockSize
    BY <1>1, <1>2, <1>3 DEF AssignMove, PackInv, FlushInv
  <2>5. \A d \in Ids : IsPiece(d)' /\ IsAssigned(d)' =>
          IF flush'[d] \/ prevPiece'[d] = 0 THEN fragments'[fragOf'[d]].pieces[1] = d
          ELSE fragOf'[d] = FlushedBlock(d)'
    BY <1>1, <1>2, <1>3 DEF AssignMove, PackInv, FlushInv
  <2>6. \A d \in Ids : IsClosing(d)' /\ IsAssigned(d)' /\ prevPiece'[d] # 0 => flush'[d]
    BY <1>1, <2>1 DEF AssignMove, PackInv, FlushInv
  <2>7. ASSUME NEW b \in DOMAIN fragments', b < Len(fragments')
        PROVE  \E e \in Ids : flush'[e] /\ IsAssigned(e)' /\ FlushedBlock(e)' = b
    <3>1. PICK e \in Ids : flush[e] /\ IsAssigned(e) /\ FlushedBlock(e) = b
      BY <1>1, <2>7 DEF PackInv, FlushInv
    <3>2. e # c
      BY <1>3, <3>1
    <3> QED BY <1>2, <3>1, <3>2 DEF AssignMove
  <2> QED BY <2>3, <2>4, <2>5, <2>6, <2>7, AssignQueueStep DEF FlushInv
<1> QED BY <1>4, <1>5, AssignOrderStep DEF PackInv

\* A block that the assignment of c does not touch keeps its layout.
LEMMA OtherBlockLayout ==
    ASSUME IInv, PackInv, NEW c, AssignMove(c), NEW b \in DOMAIN fragments,
           fragments'[b] = fragments[b],
           \A d \in Ids \ {c} : fragOf'[d] = fragOf[d] /\ offsetOf'[d] = offsetOf[d]
    PROVE  BlockLayout(b)'
<1>1. PICK ps : ps = fragments[b].pieces
  OBVIOUS
<1>2. BlockLayout(b) /\ ps \in Seq(Ids) /\ ps # <<>>
  BY <1>1, PiecesFacts DEF PackInv, LayoutInv, BlockLayout
<1>3. \A i \in DOMAIN ps : ps[i] \in Ids \ {c}
  BY <1>1, <1>2 DEF BlockLayout, AssignMove
<1>4. \A i \in DOMAIN ps : /\ IsPiece(ps[i])' /\ IsAssigned(ps[i])' /\ fragOf'[ps[i]] = b
                           /\ offsetOf'[ps[i]] = offsetOf[ps[i]]
  BY <1>1, <1>2, <1>3 DEF BlockLayout, AssignMove
<1>5. /\ 1 \in DOMAIN ps /\ Len(ps) \in DOMAIN ps
      /\ \A i \in 1 .. Len(ps) - 1 : i \in DOMAIN ps /\ i + 1 \in DOMAIN ps
  BY <1>2
<1>6. desc' = desc /\ prevPiece' = prevPiece
  BY DEF AssignMove
<1>7. /\ fragments[b].size <= BlockSize /\ offsetOf[ps[1]] = 0
      /\ fragments[b].size = offsetOf[LastOf(ps)] + desc[LastOf(ps)].size
      /\ \A i \in DOMAIN ps : offsetOf[ps[i]] + desc[ps[i]].size <= fragments[b].size
      /\ \A i \in 1 .. Len(ps) - 1 : /\ prevPiece[ps[i + 1]] = ps[i]
                                     /\ offsetOf[ps[i + 1]] = offsetOf[ps[i]] + desc[ps[i]].size
      /\ \A i, j \in DOMAIN ps : i < j => ps[i] < ps[j]
  BY <1>1, <1>2 DEF BlockLayout
<1>8. \A i \in 1 .. Len(ps) - 1 : /\ prevPiece'[ps[i + 1]] = ps[i]
                                  /\ offsetOf'[ps[i + 1]] = offsetOf'[ps[i]] + desc'[ps[i]].size
  BY <1>4, <1>5, <1>6, <1>7
<1>9. fragments[b].size = offsetOf'[LastOf(ps)] + desc'[LastOf(ps)].size
  BY <1>4, <1>5, <1>6, <1>7 DEF LastOf
<1>10. \A i \in DOMAIN ps : offsetOf'[ps[i]] + desc'[ps[i]].size <= fragments[b].size
  BY <1>4, <1>6, <1>7
<1> QED BY <1>1, <1>2, <1>4, <1>5, <1>7, <1>8, <1>9, <1>10 DEF BlockLayout

\* The sizes of pieces.
LEMMA PieceSize ==
    ASSUME IInv, NEW c \in Ids, IsPiece(c)
    PROVE  desc[c].size \in 1 .. BlockSize /\ desc[c].size \in Nat
<1>1. desc[c] \in Submissions \cup {ClosingDesc, UnusedDesc}
  BY DEF IInv, TypeOK
<1>2. ClosingDesc.kind = "closing" /\ UnusedDesc.kind = "unused"
  BY Zenon DEF ClosingDesc, UnusedDesc
<1> QED BY <1>1, <1>2, SubmissionsFit DEF IsPiece

\* The parts of FlushInv for a piece that gets a place in block b.
LEMMA AssignPlacedFlush ==
    ASSUME IInv, PackInv, NEW c, AssignMove(c), IsPiece(c), NEW b,
           \A d \in Ids : fragOf'[d] = IF d = c THEN b ELSE fragOf[d]
    PROVE  \A d \in Ids : /\ flush'[d] => FlushedBlock(d)' = FlushedBlock(d)
                          /\ InList(d) /\ IsAssigned(d)' /\ prevPiece[d] # 0
                                => FlushedBlock(d)' = FlushedBlock(d)
<1>1. SUFFICES ASSUME NEW d \in Ids, prevPiece[d] # 0,
                      flush'[d] \/ (InList(d) /\ IsAssigned(d)')
               PROVE  FlushedBlock(d)' = FlushedBlock(d)
  <2>1. \A d \in Ids : flush'[d] => prevPiece[d] # 0
    BY DEF AssignMove, MustFlush, Overflows, IInv, FragmentInv
  <2> QED BY <2>1
<1>2. prevPiece[d] \in Ids
  <2>1. prevPiece \in [Ids -> Ids0]
    BY DEF IInv, TypeOK
  <2> QED BY <1>1, <2>1, BoundsAreNat DEF Ids, Ids0
<1>3. prevPiece[d] # c
  BY <1>1 DEF AssignMove
<1> QED BY <1>2, <1>3 DEF FlushedBlock, AssignMove

LEMMA AssignNewLayout ==
    ASSUME IInv, PackInv, NEW c, AssignMove(c), PlacePiece(c), IsPiece(c), NeedsFragmentBlock(c)
    PROVE  PackInv'
<1>1. PICK b : b = Len(fragments) + 1
  OBVIOUS
<1>2. /\ fragments' \in Seq(FragmentType) /\ Len(fragments') = b
      /\ \A k \in DOMAIN fragments : k # b => fragments'[k] = fragments[k]
      /\ fragments'[b].size = desc[c].size /\ fragments'[b].pieces = <<c>> /\ offsetOf'[c] = 0
      /\ \A d \in Ids : fragOf'[d] = IF d = c THEN b ELSE fragOf[d]
      /\ \A d \in Ids \ {c} : offsetOf'[d] = offsetOf[d]
      /\ c \in Ids /\ PredecessorAssigned(c)
  <2>1. c \in Ids /\ PredecessorAssigned(c)
    BY DEF AssignMove
  <2>2. PlacedNew(c, b)
    BY <1>1, <2>1, PlaceShape
  <2> QED BY <1>1, <2>1, <2>2 DEF PlacedNew, PlacedIn
<1>3. /\ Len(fragments) \in Nat /\ DOMAIN fragments = 1 .. Len(fragments)
      /\ DOMAIN fragments' = 1 .. b /\ b \notin DOMAIN fragments
  <2>1. fragments \in Seq(FragmentType)
    BY DEF IInv, TypeOK
  <2> QED BY <1>1, <1>2, <2>1
<1>4. \A k \in DOMAIN fragments : fragments'[k] = fragments[k]
  BY <1>2, <1>3
<1>5. desc[c].size \in 1 .. BlockSize /\ desc[c].size \in Nat
  BY <1>2, PieceSize
<1>6. desc' = desc /\ prevPiece' = prevPiece
  BY DEF AssignMove
<1>7. LayoutInv'
  <2>1. BlockLayout(b)'
    <3>1. <<c>> # <<>> /\ Len(<<c>>) = 1 /\ DOMAIN <<c>> = 1 .. 1 /\ <<c>>[1] = c
      OBVIOUS
    <3>2. IsPiece(c)' /\ IsAssigned(c)'
      BY <1>2 DEF AssignMove
    <3>3. 1 .. Len(<<c>>) - 1 = {}
      BY <3>1
    <3> QED BY <1>2, <1>5, <1>6, <3>1, <3>2, <3>3, BlockSizePositive DEF BlockLayout, LastOf
  <2>2. \A k \in DOMAIN fragments' : BlockLayout(k)'
    <3>1. ASSUME NEW k \in DOMAIN fragments PROVE BlockLayout(k)'
      BY <1>2, <1>4, OtherBlockLayout
    <3> QED BY <1>1, <1>3, <2>1, <3>1
  <2>3. ASSUME NEW d \in Ids, IsPiece(d)', IsAssigned(d)'
        PROVE  /\ \E i \in DOMAIN fragments'[fragOf'[d]].pieces : fragments'[fragOf'[d]].pieces[i] = d
               /\ d <= LastOf(fragments'[Len(fragments')].pieces)
    <3>0. LastOf(fragments'[Len(fragments')].pieces) = c
      BY <1>2 DEF LastOf
    <3>1. CASE d = c
      <4>1. fragOf'[d] = b /\ fragments'[fragOf'[d]].pieces[1] = d
            /\ 1 \in DOMAIN fragments'[fragOf'[d]].pieces
        BY <1>2, <3>1
      <4> QED BY <1>2, <3>0, <3>1, <4>1, BoundsAreNat DEF Ids
    <3>2. CASE d # c
      <4>1. IsPiece(d) /\ IsAssigned(d) /\ d < c /\ fragOf[d] \in DOMAIN fragments
        BY <2>3, <3>2 DEF AssignMove
      <4>2. fragments'[fragOf'[d]] = fragments[fragOf[d]]
        BY <1>2, <1>4, <3>2, <4>1
      <4> QED BY <1>2, <3>0, <4>1, <4>2, BoundsAreNat DEF PackInv, LayoutInv, Ids
    <3> QED BY <3>1, <3>2
  <2> QED BY <2>2, <2>3 DEF LayoutInv
<1>8. FlushInv'
  <2>0. \A d \in Ids : /\ flush'[d] => FlushedBlock(d)' = FlushedBlock(d)
                       /\ InList(d) /\ IsAssigned(d)' /\ prevPiece[d] # 0
                             => FlushedBlock(d)' = FlushedBlock(d)
    <3>1. \A d \in Ids : fragOf'[d] = IF d = c THEN b ELSE fragOf[d]
      BY <1>2
    <3> QED BY <3>1, AssignPlacedFlush
  <2>1. InList(c) /\ ~IsAssigned(c) /\ ~IsClosing(c) /\ (flush'[c] <=> Overflows(c))
        /\ (prevPiece[c] = 0 \/ flush'[c])
    BY DEF AssignMove, MustFlush, IsClosing, IsPiece, NeedsFragmentBlock
  <2>2. prevPiece[c] # 0 => /\ FlushedBlock(c) = Len(fragments) /\ FlushedBlock(c) \in DOMAIN fragments
                            /\ LastOf(fragments[FlushedBlock(c)].pieces) = prevPiece[c]
    BY <1>2, <2>1, PredecessorIsLast
  <2>3. \A d \in Ids : flush'[d] => prevPiece[d] # 0 /\ FlushedBlock(d) \in DOMAIN fragments
    <3>1. ASSUME NEW d \in Ids, flush'[d] PROVE prevPiece[d] # 0 /\ FlushedBlock(d) \in DOMAIN fragments
      <4>1. CASE d = c
        BY <2>1, <2>2, <3>1, <4>1 DEF Overflows
      <4>2. CASE d # c
        <5>1. flush[d] /\ prevPiece[d] # 0 /\ PredecessorAssigned(d)
          BY <3>1, <4>2 DEF AssignMove, IInv, FragmentInv
        <5> QED BY <5>1, PredecessorFacts
      <4> QED BY <4>1, <4>2
    <3> QED BY <3>1
  <2>4. \A d \in Ids : flush'[d] => LastOf(fragments'[FlushedBlock(d)'].pieces) = prevPiece'[d]
    BY <1>4, <1>6, <2>0, <2>2, <2>3 DEF AssignMove, PackInv, FlushInv
  <2>5. \A d \in Ids : flush'[d] /\ IsPiece(d)' =>
          fragments'[FlushedBlock(d)'].size + desc'[d].size > BlockSize
    <3>1. flush'[c] => fragments[FlushedBlock(c)].size + desc[c].size > BlockSize
      BY <2>1 DEF Overflows, FlushedBlock
    <3> QED BY <1>4, <1>6, <2>0, <2>3, <3>1 DEF AssignMove, PackInv, FlushInv
  <2>6. ASSUME NEW d \in Ids, IsPiece(d)', IsAssigned(d)'
        PROVE  IF flush'[d] \/ prevPiece'[d] = 0 THEN fragments'[fragOf'[d]].pieces[1] = d
               ELSE fragOf'[d] = FlushedBlock(d)'
    <3>1. CASE d = c
      <4>1. fragments'[fragOf'[d]].pieces[1] = d
        BY <1>2, <3>1
      <4> QED BY <1>6, <2>1, <3>1, <4>1
    <3>2. CASE d # c
      <4>1. IsPiece(d) /\ IsAssigned(d) /\ fragOf[d] \in DOMAIN fragments /\ InList(d)
        BY <2>6, <3>2 DEF AssignMove
      <4>2. fragments'[fragOf'[d]] = fragments[fragOf[d]] /\ fragOf'[d] = fragOf[d]
        BY <1>2, <1>4, <3>2, <4>1
      <4>3. prevPiece[d] # 0 => FlushedBlock(d)' = FlushedBlock(d)
        BY <2>0, <2>6, <4>1
      <4>4. flush'[d] = flush[d]
        BY <3>2 DEF AssignMove
      <4> QED BY <1>6, <4>1, <4>2, <4>3, <4>4 DEF PackInv, FlushInv
    <3> QED BY <3>1, <3>2
  <2>7. \A d \in Ids : IsClosing(d)' /\ IsAssigned(d)' /\ prevPiece'[d] # 0 => flush'[d]
    BY <1>6, <2>1 DEF AssignMove, PackInv, FlushInv
  <2>8. ASSUME NEW k \in DOMAIN fragments', k < Len(fragments')
        PROVE  \E e \in Ids : flush'[e] /\ IsAssigned(e)' /\ FlushedBlock(e)' = k
    <3>1. CASE k = Len(fragments)
      <4>1. fragments # <<>>
        BY <1>3, <2>8, <3>1
      <4>2. prevPiece[c] # 0
        BY <1>2, <2>1, <4>1, PredecessorIsLast
      <4>3. flush'[c] /\ FlushedBlock(c)' = k
        BY <1>2, <2>0, <2>1, <2>2, <3>1, <4>2
      <4> QED BY <1>2, <4>3 DEF AssignMove
    <3>2. CASE k # Len(fragments)
      <4>1. k \in DOMAIN fragments /\ k < Len(fragments)
        BY <1>1, <1>2, <1>3, <2>8, <3>2
      <4>2. PICK e \in Ids : flush[e] /\ IsAssigned(e) /\ FlushedBlock(e) = k
        BY <4>1 DEF PackInv, FlushInv
      <4>3. e # c /\ flush'[e] /\ IsAssigned(e)'
        BY <2>1, <4>2 DEF AssignMove
      <4> QED BY <2>0, <4>2, <4>3
    <3> QED BY <3>1, <3>2
  <2> QED BY <2>4, <2>5, <2>6, <2>7, <2>8, AssignQueueStep DEF FlushInv
<1> QED BY <1>7, <1>8, AssignOrderStep DEF PackInv

LEMMA AssignBehindLayout ==
    ASSUME IInv, PackInv, NEW c, AssignMove(c), PlacePiece(c), IsPiece(c), ~NeedsFragmentBlock(c)
    PROVE  PackInv'
<1>1. PICK b : b = FlushedBlock(c)
  OBVIOUS
<1>2. c \in Ids /\ InList(c) /\ ~IsAssigned(c) /\ PredecessorAssigned(c)
  BY DEF AssignMove
<1>3. PlacedBehind(c, b)
  BY <1>1, <1>2, PlaceShape
<1>4. /\ b \in DOMAIN fragments /\ prevPiece[c] # 0 /\ Len(fragments') = Len(fragments)
      /\ fragments \in Seq(FragmentType) /\ fragments' \in Seq(FragmentType)
      /\ DOMAIN fragments' = DOMAIN fragments
      /\ \A k \in DOMAIN fragments : k # b => fragments'[k] = fragments[k]
      /\ \A d \in Ids : fragOf'[d] = IF d = c THEN b ELSE fragOf[d]
      /\ \A d \in Ids \ {c} : offsetOf'[d] = offsetOf[d]
      /\ fragments'[b].size = fragments[b].size + desc[c].size
      /\ fragments'[b].pieces = Append(fragments[b].pieces, c)
      /\ offsetOf'[c] = fragments[b].size
  BY <1>3 DEF PlacedBehind, PlacedIn, IInv, TypeOK
<1>5. /\ b = Len(fragments) /\ LastOf(fragments[b].pieces) = prevPiece[c]
      /\ prevPiece[c] \in Ids /\ prevPiece[c] < c
  BY <1>1, <1>2, <1>4, PredecessorIsLast
<1>6. ~IsClosing(c) /\ ~Overflows(c) /\ ~flush'[c]
  BY <1>4 DEF AssignMove, MustFlush, IsClosing, IsPiece, NeedsFragmentBlock
<1>7. desc' = desc /\ prevPiece' = prevPiece
  BY DEF AssignMove
<1>8. desc[c].size \in Nat /\ fragments[b].size \in Nat /\ BlockSize \in Nat
      /\ fragments[b].size + desc[c].size <= BlockSize
  <2>1. desc[c].size \in Nat /\ fragments[b].size \in Nat /\ BlockSize \in Nat
    BY <1>2, <1>4, PieceSize, PiecesFacts, BlockSizePositive
  <2> QED BY <1>1, <1>4, <1>6, <2>1 DEF Overflows, FlushedBlock
<1>9. PICK ps : ps = fragments[b].pieces
  OBVIOUS
<1>10. BlockLayout(b) /\ ps \in Seq(Ids) /\ ps # <<>>
  BY <1>4, <1>9, PiecesFacts DEF PackInv, LayoutInv, BlockLayout
<1>11. PICK n : n = Len(ps)
  OBVIOUS
<1>12. PICK ps2 : ps2 = Append(ps, c)
  OBVIOUS
<1>13. /\ ps2 \in Seq(Ids) /\ Len(ps2) = n + 1 /\ DOMAIN ps2 = 1 .. n + 1 /\ n \in Nat /\ n >= 1
       /\ DOMAIN ps = 1 .. n /\ ps2[n + 1] = c /\ \A i \in 1 .. n : ps2[i] = ps[i] /\ ps[i] \in Ids
       /\ ps2 = fragments'[b].pieces
  BY <1>2, <1>4, <1>9, <1>10, <1>11, <1>12, AppendShape
<1>14. \A i \in 1 .. n : /\ ps[i] \in Ids \ {c} /\ IsPiece(ps[i]) /\ IsAssigned(ps[i])
                         /\ fragOf[ps[i]] = b
                         /\ offsetOf[ps[i]] + desc[ps[i]].size <= fragments[b].size
                         /\ offsetOf[ps[i]] \in Int /\ desc[ps[i]].size \in Nat
                         /\ offsetOf'[ps[i]] = offsetOf[ps[i]]
  <2>1. \A i \in 1 .. n : /\ IsPiece(ps[i]) /\ IsAssigned(ps[i]) /\ fragOf[ps[i]] = b
                          /\ offsetOf[ps[i]] + desc[ps[i]].size <= fragments[b].size
    BY <1>9, <1>10, <1>13 DEF BlockLayout
  <2>2. \A i \in 1 .. n : ps[i] \in Ids \ {c}
    BY <1>2, <1>13, <2>1
  <2>3. offsetOf \in [Ids -> Int]
    BY DEF IInv, TypeOK
  <2>4. \A i \in 1 .. n : desc[ps[i]].size \in Nat
    BY <2>2, DescFacts
  <2> QED BY <1>4, <2>1, <2>2, <2>3, <2>4
<1>15. /\ offsetOf[ps[1]] = 0 /\ ps[n] = prevPiece[c]
       /\ fragments[b].size = offsetOf[ps[n]] + desc[ps[n]].size
       /\ \A i \in 1 .. n - 1 : /\ prevPiece[ps[i + 1]] = ps[i]
                                /\ offsetOf[ps[i + 1]] = offsetOf[ps[i]] + desc[ps[i]].size
       /\ \A i, j \in 1 .. n : i < j => ps[i] < ps[j]
  BY <1>5, <1>9, <1>10, <1>11, <1>13, ZenonT(40) DEF BlockLayout, LastOf
<1>16. BlockLayout(b)'
  <2>1. /\ ps2 # <<>> /\ fragments'[b].size <= BlockSize /\ offsetOf'[ps2[1]] = 0
        /\ LastOf(ps2) = c
        /\ fragments'[b].size = offsetOf'[LastOf(ps2)] + desc'[LastOf(ps2)].size
    <3>1. 1 \in 1 .. n
      BY <1>13
    <3>2. LastOf(ps2) = c /\ ps2 # <<>>
      BY <1>13 DEF LastOf
    <3>3. offsetOf'[ps2[1]] = 0
      BY <1>13, <1>14, <1>15, <3>1
    <3> QED BY <1>4, <1>7, <1>8, <3>2, <3>3
  <2>2. ASSUME NEW i \in DOMAIN ps2
        PROVE  /\ IsPiece(ps2[i])' /\ IsAssigned(ps2[i])' /\ fragOf'[ps2[i]] = b
               /\ offsetOf'[ps2[i]] + desc'[ps2[i]].size <= fragments'[b].size
    <3>1. CASE i = n + 1
      <4>1. ps2[i] = c
        BY <1>13, <3>1
      <4>2. IsPiece(c)' /\ IsAssigned(c)' /\ fragOf'[c] = b
        BY <1>2, <1>4 DEF AssignMove
      <4> QED BY <1>4, <1>7, <1>8, <4>1, <4>2
    <3>2. CASE i # n + 1
      <4>1. PICK x : x = ps[i]
        OBVIOUS
      <4>2. i \in 1 .. n /\ ps2[i] = x
        BY <1>13, <3>2, <4>1
      <4>3. /\ x \in Ids \ {c} /\ IsPiece(x) /\ IsAssigned(x) /\ fragOf[x] = b
            /\ offsetOf[x] + desc[x].size <= fragments[b].size
            /\ offsetOf[x] \in Int /\ desc[x].size \in Nat /\ offsetOf'[x] = offsetOf[x]
        BY <1>14, <4>1, <4>2
      <4>4. IsPiece(x)' /\ IsAssigned(x)' /\ fragOf'[x] = b
        BY <1>4, <4>3 DEF AssignMove
      <4> QED BY <1>4, <1>7, <1>8, <4>2, <4>3, <4>4
    <3> QED BY <3>1, <3>2
  <2>3. ASSUME NEW i \in 1 .. Len(ps2) - 1
        PROVE  /\ prevPiece'[ps2[i + 1]] = ps2[i]
               /\ offsetOf'[ps2[i + 1]] = offsetOf'[ps2[i]] + desc'[ps2[i]].size
    <3>1. i \in 1 .. n /\ ps2[i] = ps[i] /\ offsetOf'[ps[i]] = offsetOf[ps[i]]
      BY <1>13, <1>14, <2>3
    <3>2. CASE i = n
      BY <1>4, <1>7, <1>13, <1>15, <3>1, <3>2, ZenonT(40)
    <3>3. CASE i # n
      <4>1. i \in 1 .. n - 1 /\ i + 1 \in 1 .. n /\ ps2[i + 1] = ps[i + 1]
            /\ offsetOf'[ps[i + 1]] = offsetOf[ps[i + 1]]
        BY <1>13, <1>14, <3>1, <3>3
      <4> QED BY <1>7, <1>15, <3>1, <4>1
    <3> QED BY <3>2, <3>3
  <2>4. ASSUME NEW i \in DOMAIN ps2, NEW j \in DOMAIN ps2, i < j PROVE ps2[i] < ps2[j]
    <3>1. i \in 1 .. n /\ ps2[i] = ps[i] /\ ps[i] \in Ids
      BY <1>13, <2>4
    <3>2. CASE j = n + 1
      <4>1. ps[i] = ps[n] \/ ps[i] < ps[n]
        BY <1>13, <1>15, <3>1
      <4>2. ps[i] < c
        BY <1>2, <1>5, <1>15, <3>1, <4>1, BoundsAreNat DEF Ids
      <4> QED BY <1>13, <3>1, <3>2, <4>2
    <3>3. CASE j # n + 1
      BY <1>13, <1>15, <2>4, <3>1, <3>3
    <3> QED BY <3>2, <3>3
  <2> QED BY <1>13, <2>1, <2>2, <2>3, <2>4 DEF BlockLayout
<1>17. LayoutInv'
  <2>1. ASSUME NEW k \in DOMAIN fragments' PROVE BlockLayout(k)'
    <3>1. CASE k = b
      BY <1>16, <3>1
    <3>2. CASE k # b
      <4>1. fragments'[k] = fragments[k] /\ k \in DOMAIN fragments
        BY <1>4, <3>2
      <4>2. \A d \in Ids \ {c} : fragOf'[d] = fragOf[d] /\ offsetOf'[d] = offsetOf[d]
        BY <1>4
      <4> QED BY <4>1, <4>2, OtherBlockLayout
    <3> QED BY <3>1, <3>2
  <2>2. ASSUME NEW d \in Ids, IsPiece(d)', IsAssigned(d)'
        PROVE  /\ \E i \in DOMAIN fragments'[fragOf'[d]].pieces : fragments'[fragOf'[d]].pieces[i] = d
               /\ d <= LastOf(fragments'[Len(fragments')].pieces)
    <3>0. LastOf(fragments'[Len(fragments')].pieces) = c
      BY <1>4, <1>5, <1>13 DEF LastOf
    <3>1. CASE d = c
      <4>1. fragments'[fragOf'[d]].pieces = ps2 /\ n + 1 \in DOMAIN ps2 /\ ps2[n + 1] = d
        BY <1>2, <1>4, <1>13, <3>1
      <4>2. d <= c
        BY <1>2, <3>1, BoundsAreNat DEF Ids
      <4> QED BY <3>0, <4>1, <4>2
    <3>2. CASE d # c
      <4>1. IsPiece(d) /\ IsAssigned(d) /\ d < c /\ fragOf[d] \in DOMAIN fragments
        BY <2>2, <3>2 DEF AssignMove
      <4>2. d <= c /\ fragOf'[d] = fragOf[d]
        BY <1>2, <1>4, <3>2, <4>1, BoundsAreNat DEF Ids
      <4>3. PICK i \in DOMAIN fragments[fragOf[d]].pieces : fragments[fragOf[d]].pieces[i] = d
        BY <4>1 DEF PackInv, LayoutInv
      <4>4. CASE fragOf[d] # b
        BY <1>4, <3>0, <4>1, <4>2, <4>3, <4>4
      <4>5. CASE fragOf[d] = b
        <5>1. i \in 1 .. n /\ ps[i] = d
          BY <1>9, <1>13, <4>3, <4>5
        <5>2. i \in DOMAIN ps2 /\ ps2[i] = d
          BY <1>13, <5>1
        <5> QED BY <1>13, <3>0, <4>2, <4>5, <5>2
      <4> QED BY <4>4, <4>5
    <3> QED BY <3>1, <3>2
  <2> QED BY <2>1, <2>2 DEF LayoutInv
<1>18. FlushInv'
  <2>0. \A d \in Ids : /\ flush'[d] => FlushedBlock(d)' = FlushedBlock(d)
                       /\ InList(d) /\ IsAssigned(d)' /\ prevPiece[d] # 0
                             => FlushedBlock(d)' = FlushedBlock(d)
    <3>1. \A d \in Ids : fragOf'[d] = IF d = c THEN b ELSE fragOf[d]
      BY <1>4
    <3> QED BY <3>1, AssignPlacedFlush
  <2>1. ASSUME NEW d \in Ids, flush'[d]
        PROVE  /\ d # c /\ flush[d] /\ prevPiece[d] # 0 /\ FlushedBlock(d) \in DOMAIN fragments
               /\ FlushedBlock(d) # b
    <3>1. d # c /\ flush[d]
      BY <1>6, <2>1 DEF AssignMove
    <3>2. prevPiece[d] # 0 /\ PredecessorAssigned(d)
      BY <3>1 DEF IInv, FragmentInv
    <3>3. FlushedBlock(d) \in DOMAIN fragments
      BY <3>2, PredecessorFacts
    <3>4. FlushedBlock(d) # b
      BY <1>1, <1>2, <1>4, <1>5, <3>1, OnlySuccessorFlushes
    <3> QED BY <3>1, <3>2, <3>3, <3>4
  <2>2. \A d \in Ids : flush'[d] => fragments'[FlushedBlock(d)'] = fragments[FlushedBlock(d)]
    BY <1>4, <2>0, <2>1
  <2>3. \A d \in Ids : flush'[d] => LastOf(fragments'[FlushedBlock(d)'].pieces) = prevPiece'[d]
    BY <1>7, <2>1, <2>2 DEF PackInv, FlushInv
  <2>4. \A d \in Ids : flush'[d] /\ IsPiece(d)' =>
          fragments'[FlushedBlock(d)'].size + desc'[d].size > BlockSize
    BY <1>7, <2>1, <2>2 DEF PackInv, FlushInv, AssignMove
  <2>5. ASSUME NEW d \in Ids, IsPiece(d)', IsAssigned(d)'
        PROVE  IF flush'[d] \/ prevPiece'[d] = 0 THEN fragments'[fragOf'[d]].pieces[1] = d
               ELSE fragOf'[d] = FlushedBlock(d)'
    <3>1. CASE d = c
      <4>1. fragOf'[c] = b /\ FlushedBlock(c)' = FlushedBlock(c)
        BY <1>2, <1>4, <2>0, <2>5, <3>1
      <4> QED BY <1>1, <1>4, <1>6, <1>7, <3>1, <4>1
    <3>2. CASE d # c
      <4>1. IsPiece(d) /\ IsAssigned(d) /\ fragOf[d] \in DOMAIN fragments /\ InList(d)
        BY <2>5, <3>2 DEF AssignMove
      <4>2. fragOf'[d] = fragOf[d] /\ flush'[d] = flush[d]
        BY <1>4, <3>2 DEF AssignMove
      <4>3. prevPiece[d] # 0 => FlushedBlock(d)' = FlushedBlock(d)
        BY <2>0, <2>5, <4>1
      <4>4. fragments'[fragOf[d]].pieces[1] = fragments[fragOf[d]].pieces[1]
        <5>1. CASE fragOf[d] = b
          <6>1. 1 \in 1 .. n
            BY <1>13
          <6> QED BY <1>9, <1>13, <5>1, <6>1
        <5>2. CASE fragOf[d] # b
          BY <1>4, <4>1, <5>2
        <5> QED BY <5>1, <5>2
      <4> QED BY <1>7, <4>1, <4>2, <4>3, <4>4 DEF PackInv, FlushInv
    <3> QED BY <3>1, <3>2
  <2>6. \A d \in Ids : IsClosing(d)' /\ IsAssigned(d)' /\ prevPiece'[d] # 0 => flush'[d]
    BY <1>6, <1>7 DEF AssignMove, PackInv, FlushInv
  <2>7. ASSUME NEW k \in DOMAIN fragments', k < Len(fragments')
        PROVE  \E e \in Ids : flush'[e] /\ IsAssigned(e)' /\ FlushedBlock(e)' = k
    <3>1. PICK e \in Ids : flush[e] /\ IsAssigned(e) /\ FlushedBlock(e) = k
      BY <1>4, <2>7 DEF PackInv, FlushInv
    <3>2. e # c /\ flush'[e] /\ IsAssigned(e)'
      BY <1>2, <3>1 DEF AssignMove
    <3> QED BY <2>0, <3>1, <3>2
  <2> QED BY <2>3, <2>4, <2>5, <2>6, <2>7, AssignQueueStep DEF FlushInv
<1> QED BY <1>17, <1>18, AssignOrderStep DEF PackInv

-----------------------------------------------------------------------------
(* The theorems.                                                           *)

LEMMA InitPack == Init => PackInv
<1> SUFFICES ASSUME Init PROVE PackInv
  OBVIOUS
<1>1. /\ desc = [c \in Ids |-> UnusedDesc] /\ count = 0
      /\ state = [c \in Ids |-> ChunkNone] /\ workq = EmptyQueues
      /\ prevPiece = [c \in Ids |-> 0] /\ lastPiece = 0 /\ flush = [c \in Ids |-> FALSE]
      /\ fragments = <<>>
  BY Zenon DEF Init
<1>2. \A c \in Ids : ~InList(c) /\ ~IsPiece(c) /\ ~IsClosing(c)
  <2>1. UnusedDesc.kind = "unused"
    BY Zenon DEF UnusedDesc
  <2> QED BY <1>1, <2>1 DEF InList, IsPiece, IsClosing
<1>3. ListInv /\ AssignOrder
  BY <1>1, <1>2, BoundsAreNat DEF ListInv, AssignOrder, Ids
<1>4. DOMAIN fragments = {}
  BY <1>1
<1>5. LayoutInv
  BY <1>2, <1>4 DEF LayoutInv
<1>6. FlushInv
  BY <1>1, <1>2, <1>4, EmptyFacts DEF FlushInv, Stages
<1> QED BY <1>3, <1>5, <1>6 DEF PackInv

LEMMA NextPack == IInv /\ PackInv /\ [Next]_vars => PackInv'
<1> SUFFICES ASSUME IInv, PackInv, [Next]_vars PROVE PackInv'
  OBVIOUS
<1>1. ASSUME NEW d \in Submissions, Submit(d) PROVE PackInv'
  BY <1>1, SubmitMove, EnqueueLayout
<1>2. CASE SealEnqueue
  BY <1>2, SealEnqueueMove, EnqueueLayout
<1>3. CASE \/ UserAbort \/ Finalize \/ SealCheck \/ SealFail \/ \E w \in Workers : Spawn(w)
           \/ UNCHANGED vars
  <2>1. UNCHANGED bulkVars
    BY <1>3 DEF UserAbort, Finalize, SealCheck, SealFail, Spawn, vars
  <2>2. LayoutQuiet
    BY <2>1, StillQuiet DEF bulkVars, listVars, fragVars
  <2> QED BY <2>2, QuietLayout
<1>4. ASSUME NEW t \in Threads, ThreadStep(t) \/ SpuriousWake(t) PROVE PackInv'
  <2>1. CASE PackQuietStep(t)
    BY <2>1, ThreadQuiet, QuietLayout
  <2>2. CASE AssignFail(t)
    BY <2>2, AssignFailLayout
  <2>3. CASE AssignPiece(t)
    <3>1. PICK c : c = Head(workq["assign"])
      OBVIOUS
    <3>2. AssignMove(c) /\ PlacePiece(c)
      BY <2>3, <3>1, AssignMoveFacts
    <3>3. IsPiece(c) \/ IsClosing(c)
      BY <3>2 DEF AssignMove, InList, IsPiece, IsClosing
    <3> QED BY <3>2, <3>3, AssignClosingLayout, AssignNewLayout, AssignBehindLayout
  <2> QED BY <1>4, <2>1, <2>2, <2>3 DEF ThreadStep, LoopStep, PackQuietStep, QuietStep
<1> QED BY <1>1, <1>2, <1>3, <1>4 DEF Next, PipelineStep, SealStep

\* Pieces are assigned in the order of the list, whichever thread assigns them; each
\* block holds neighbours of the list, and is flushed by the piece behind its last one.
THEOREM PackingInvariant == Spec => []PackInv
<1>1. Init => PackInv
  BY InitPack
<1>2. IInv /\ PackInv /\ [Next]_vars => PackInv'
  BY NextPack
<1> QED BY <1>1, <1>2, PipelineInvariant, PTL DEF Spec

\* Fragment blocks are filled by their pieces in order, without gap, within the block
\* size, for any number of threads, pieces and sizes.
THEOREM FragmentBlocksPacked == Spec => []FragmentsPacked
<1>1. IInv /\ PackInv => FragmentsPacked
  <2> SUFFICES ASSUME IInv, PackInv PROVE FragmentsPacked
    OBVIOUS
  <2>1. ASSUME NEW b \in DOMAIN fragments
        PROVE  LET ps == fragments[b].pieces IN
               /\ fragments[b].size <= BlockSize /\ ps # <<>> /\ offsetOf[ps[1]] = 0
               /\ \A i \in 1 .. Len(ps) - 1 :
                     /\ nextPiece[ps[i]] = ps[i + 1]
                     /\ offsetOf[ps[i + 1]] = offsetOf[ps[i]] + desc[ps[i]].size
               /\ fragments[b].size = offsetOf[ps[Len(ps)]] + desc[ps[Len(ps)]].size
               /\ \A i \in DOMAIN ps : fragOf[ps[i]] = b
    <3>1. PICK ps : ps = fragments[b].pieces
      OBVIOUS
    <3>2. BlockLayout(b) /\ ps \in Seq(Ids)
      BY <3>1, PiecesFacts DEF PackInv, LayoutInv
    <3>3. ASSUME NEW i \in 1 .. Len(ps) - 1 PROVE nextPiece[ps[i]] = ps[i + 1]
      <4>1. PICK x, y : x = ps[i] /\ y = ps[i + 1]
        OBVIOUS
      <4>2. x \in Ids /\ y \in Ids /\ prevPiece[y] = x
        BY <3>1, <3>2, <4>1 DEF BlockLayout
      <4>3. x # 0
        BY <4>2, BoundsAreNat DEF Ids
      <4> QED BY <4>1, <4>2, <4>3 DEF PackInv, ListInv
    <3> QED BY <3>1, <3>2, <3>3 DEF BlockLayout, LastOf
  <2> QED BY <2>1 DEF FragmentsPacked
<1> QED BY <1>1, PipelineInvariant, PackingInvariant, PTL
=============================================================================

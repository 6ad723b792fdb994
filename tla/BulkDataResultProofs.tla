------------------------- MODULE BulkDataResultProofs -------------------------
(***************************************************************************)
(* What the pipeline achieves.  The bytes of the image come first: the     *)
(* invariants CachedInv, ContentInv, PlaceInv and EndInv of                *)
(* BulkDataInvariants, proved on top of IInv and of the layout of the      *)
(* fragment blocks; no byte is freed before it is compressed or changed    *)
(* meanwhile, and blocks lie one behind the other.  Then the results: no   *)
(* chunk is lost on its way, everything is on disk when                    *)
(* libsqfs_bulkdata_finish returns without error, files are read back, and *)
(* the image is the one that OrderedImage describes.                       *)
(***************************************************************************)
EXTENDS BulkDataProofs, SequenceTheorems, WellFoundedInduction

-----------------------------------------------------------------------------
(* A block is flushed by one chunk.                                        *)

LEMMA FlushOnce ==
    ASSUME IInv, PackInv, NEW c \in Ids, NEW d \in Ids, flush[c], flush[d],
           FlushedBlock(c) = FlushedBlock(d)
    PROVE  c = d
<1>1. prevPiece[c] # 0 /\ LastOf(fragments[FlushedBlock(c)].pieces) = prevPiece[c]
  BY DEF IInv, FragmentInv, PackInv, FlushInv
<1> QED BY <1>1, OnlySuccessorFlushes

\* The block that a chunk flushes: its pieces, and its size.
LEMMA FlushedFacts ==
    ASSUME IInv, PackInv, NEW c \in Ids, flush[c]
    PROVE  /\ FlushedBlock(c) \in DOMAIN fragments /\ prevPiece[c] # 0 /\ ~IsBlock(c)
           /\ fragments[FlushedBlock(c)].pieces \in Seq(Ids)
           /\ fragments[FlushedBlock(c)].pieces # <<>>
           /\ \A i \in DOMAIN fragments[FlushedBlock(c)].pieces :
                 /\ fragments[FlushedBlock(c)].pieces[i] \in Ids
                 /\ IsPiece(fragments[FlushedBlock(c)].pieces[i])
                 /\ IsAssigned(fragments[FlushedBlock(c)].pieces[i])
                 /\ fragOf[fragments[FlushedBlock(c)].pieces[i]] = FlushedBlock(c)
           /\ fragments[FlushedBlock(c)].size \in Nat /\ fragments[FlushedBlock(c)].size > 0
<1>1. prevPiece[c] # 0 /\ PredecessorAssigned(c)
  BY DEF IInv, FragmentInv
<1>2. FlushedBlock(c) \in DOMAIN fragments
  BY <1>1, PredecessorFacts
<1>3. PICK b : b = FlushedBlock(c)
  OBVIOUS
<1>4. PICK ps : ps = fragments[b].pieces
  OBVIOUS
<1>5. /\ BlockLayout(b) /\ ps \in Seq(Ids) /\ ps # <<>> /\ fragments[b].size \in Nat
      /\ \A i \in DOMAIN ps : ps[i] \in Ids
  BY <1>2, <1>3, <1>4, PiecesFacts DEF PackInv, LayoutInv, BlockLayout
<1>6. /\ \A i \in DOMAIN ps : /\ IsPiece(ps[i]) /\ IsAssigned(ps[i]) /\ fragOf[ps[i]] = b
                              /\ offsetOf[ps[i]] + desc[ps[i]].size <= fragments[b].size
      /\ offsetOf[ps[1]] = 0
  BY <1>4, <1>5 DEF BlockLayout
<1>7. 1 \in DOMAIN ps
  BY <1>5
<1>8. desc[ps[1]].size \in 1 .. BlockSize /\ desc[ps[1]].size \in Nat
  BY <1>5, <1>6, <1>7, PieceSize
<1>9. fragments[b].size > 0
  BY <1>5, <1>6, <1>7, <1>8, BlockSizePositive
<1>10. ~IsBlock(c)
  BY <1>1 DEF IInv, PieceInv, IsBlock
<1> QED BY <1>1, <1>2, <1>3, <1>4, <1>5, <1>6, <1>9, <1>10

\* The chunks whose bytes a chunk writes.
LEMMA SourcesFacts ==
    ASSUME IInv, PackInv, NEW c \in Ids, WritesBlock(c)
    PROVE  /\ IsBlock(c) => SourcesOf(c) = <<c>> /\ Elems(SourcesOf(c)) = {c}
           /\ ~IsBlock(c) => /\ flush[c] /\ SourcesOf(c) = fragments[FlushedBlock(c)].pieces
                             /\ \A e \in Elems(SourcesOf(c)) :
                                   /\ IsPiece(e) /\ IsAssigned(e) /\ fragOf[e] = FlushedBlock(c)
           /\ SourcesOf(c) \in Seq(Ids) /\ SourcesOf(c) # <<>>
           /\ \A e \in Elems(SourcesOf(c)) : e \in Ids
           /\ c <= count => Compressed(c).size > 0
<1>1. CASE IsBlock(c)
  <2>1. SourcesOf(c) = <<c>>
    BY <1>1 DEF SourcesOf
  <2>2. c <= count => Compressed(c).size > 0
    BY <1>1, CompressedFacts DEF IsClosing, IsBlock
  <2> QED BY <1>1, <2>1, <2>2 DEF Elems
<1>2. CASE ~IsBlock(c)
  <2>1. flush[c] /\ SourcesOf(c) = fragments[FlushedBlock(c)].pieces
    BY <1>2 DEF WritesBlock, SourcesOf
  <2>2. Compressed(c).size > 0
    BY <1>2, <2>1, FlushedFacts, CompressedFacts
  <2> QED BY <1>2, <2>1, <2>2, FlushedFacts DEF Elems
<1> QED BY <1>1, <1>2

-----------------------------------------------------------------------------
(* Blocks are left alone by the steps of other chunks.                     *)

\* Chunk d keeps what it writes, and the bytes it writes it from.
KeepsBlock(d) ==
    /\ WritesBlock(d)' /\ state'[d] = state[d] /\ (IsBlock(d)' <=> IsBlock(d))
    /\ SourcesOf(d)' = SourcesOf(d) /\ Compressed(d)' = Compressed(d)
    /\ ImageBlockOf(d)' = ImageBlockOf(d)

\* What it writes stays the same while its place and content may change.
KeepsSources(d) ==
    /\ WritesBlock(d)' /\ (IsBlock(d)' <=> IsBlock(d))
    /\ SourcesOf(d)' = SourcesOf(d) /\ Compressed(d)' = Compressed(d)

\* The steps leave every chunk but c alone once it is assigned, and no other chunk
\* becomes writable with a block.
KeepsBlocks(c) ==
    /\ \A d \in Ids \ {c} : WritesBlock(d) /\ IsAssigned(d) => KeepsBlock(d)
    /\ \A d \in Ids \ {c} : WritesBlock(d)' /\ state'[d] >= ChunkWritable =>
          WritesBlock(d) /\ state[d] >= ChunkWritable

LEMMA KeepsSourcesFacts ==
    ASSUME IInv, PackInv, NEW d \in Ids, WritesBlock(d), desc'[d] = desc[d],
           NEW k, k = FlushedBlock(d),
           ~IsBlock(d) =>
              /\ flush'[d] /\ FlushedBlock(d)' = k
              /\ fragments'[k].pieces = fragments[k].pieces /\ fragments'[k].size = fragments[k].size,
           \A e \in Ids : IsPiece(e) /\ IsAssigned(e) => desc'[e] = desc[e]
    PROVE  KeepsSources(d)
<1>1. CASE IsBlock(d)
  <2>1. IsBlock(d)' /\ WritesBlock(d)' /\ SourcesOf(d)' = <<d>> /\ SourcesOf(d) = <<d>>
    BY <1>1 DEF IsBlock, WritesBlock, SourcesOf
  <2>2. BytesOf(<<d>>)' = BytesOf(<<d>>)
    <3>1. \A i \in DOMAIN <<d>> : <<d>>[i] = d
      OBVIOUS
    <3> QED BY <3>1 DEF BytesOf
  <2>3. Compressed(d) = ImageBlock(BytesOf(<<d>>), desc[d].size, CompressBlocks)
    BY <1>1, <2>1 DEF Compressed
  <2>4. Compressed(d)' = ImageBlock(BytesOf(<<d>>)', desc'[d].size, CompressBlocks)
    BY <1>1, <2>1 DEF Compressed
  <2> QED BY <1>1, <2>1, <2>2, <2>3, <2>4 DEF KeepsSources
<1>2. CASE ~IsBlock(d)
  <2>1. PICK ps : ps = fragments[k].pieces
    OBVIOUS
  <2>2. /\ flush[d] /\ flush'[d] /\ ~IsBlock(d)' /\ WritesBlock(d)'
        /\ FlushedBlock(d)' = k /\ fragments'[k].pieces = ps /\ fragments'[k].size = fragments[k].size
    BY <1>2, <2>1 DEF WritesBlock, IsBlock
  <2>3. SourcesOf(d) = ps /\ SourcesOf(d)' = ps
    BY <1>2, <2>1, <2>2 DEF SourcesOf
  <2>4. \A i \in DOMAIN ps : ps[i] \in Ids /\ desc'[ps[i]] = desc[ps[i]]
    BY <2>1, <2>2, FlushedFacts
  <2>5. BytesOf(ps)' = BytesOf(ps)
    BY <2>4 DEF BytesOf
  <2>6. Compressed(d) = ImageBlock(BytesOf(ps), fragments[k].size, CompressFragments)
    BY <1>2, <2>3 DEF Compressed
  <2>7. Compressed(d)' = ImageBlock(BytesOf(ps)', fragments'[k].size, CompressFragments)
    BY <2>2, <2>3 DEF Compressed
  <2> QED BY <1>2, <2>2, <2>3, <2>5, <2>6, <2>7 DEF KeepsSources
<1> QED BY <1>1, <1>2

LEMMA KeepsBlockFacts ==
    ASSUME IInv, PackInv, NEW d \in Ids, WritesBlock(d), KeepsSources(d), state'[d] = state[d],
           IsBlock(d) => dst'[d] = dst[d],
           ~IsBlock(d) => /\ FlushedBlock(d)' = FlushedBlock(d)
                          /\ fragments'[FlushedBlock(d)].dst = fragments[FlushedBlock(d)].dst
    PROVE  KeepsBlock(d)
<1>1. ImageBlockOf(d)' = ImageBlockOf(d)
  BY DEF ImageBlockOf, KeepsSources
<1> QED BY <1>1 DEF KeepsBlock, KeepsSources

\* A step that changes no link, no flag and no place: only the image block of c, if any.
LEMMA QuietKeeps ==
    ASSUME IInv, PackInv, LayoutQuiet, NEW c,
           \A d \in Ids \ {c} : WritesBlock(d) /\ IsAssigned(d) => state'[d] = state[d],
           \A d \in Ids \ {c} : state'[d] >= ChunkWritable /\ WritesBlock(d)
              => state[d] >= ChunkWritable,
           \A d \in Ids \ {c} : dst'[d] = dst[d],
           \A b \in DOMAIN fragments :
              fragments'[b].dst = fragments[b].dst \/ (c \in Ids /\ flush[c] /\ FlushedBlock(c) = b)
    PROVE  KeepsBlocks(c) /\ \A d \in Ids : WritesBlock(d) => KeepsSources(d)
<1>1. /\ UNCHANGED <<desc, prevPiece, flush, fragOf>>
      /\ \A b \in DOMAIN fragments : /\ fragments'[b].pieces = fragments[b].pieces
                                     /\ fragments'[b].size = fragments[b].size
  BY DEF LayoutQuiet, listVars, fragVars
<1>2. \A d \in Ids : FlushedBlock(d)' = FlushedBlock(d) /\ (WritesBlock(d)' <=> WritesBlock(d))
  BY <1>1 DEF FlushedBlock, WritesBlock, IsBlock
<1>3. ASSUME NEW d \in Ids, WritesBlock(d) PROVE KeepsSources(d)
  <2>1. ~IsBlock(d) => flush[d] /\ FlushedBlock(d) \in DOMAIN fragments
    BY <1>3, FlushedFacts DEF WritesBlock
  <2>2. \A e \in Ids : desc'[e] = desc[e]
    BY <1>1
  <2>3. desc'[d] = desc[d]
    BY <2>2
  <2>4. ~IsBlock(d) => /\ flush'[d] /\ FlushedBlock(d)' = FlushedBlock(d)
                       /\ fragments'[FlushedBlock(d)].pieces = fragments[FlushedBlock(d)].pieces
                       /\ fragments'[FlushedBlock(d)].size = fragments[FlushedBlock(d)].size
    BY <1>1, <1>2, <2>1
  <2> QED BY <1>3, <2>2, <2>3, <2>4, KeepsSourcesFacts
<1>4. ASSUME NEW d \in Ids \ {c}, WritesBlock(d), IsAssigned(d) PROVE KeepsBlock(d)
  <2>1. IsBlock(d) => dst'[d] = dst[d]
    BY <1>4
  <2>2. ~IsBlock(d) => /\ FlushedBlock(d)' = FlushedBlock(d)
                       /\ fragments'[FlushedBlock(d)].dst = fragments[FlushedBlock(d)].dst
    <3>1. ASSUME ~IsBlock(d) PROVE fragments'[FlushedBlock(d)].dst = fragments[FlushedBlock(d)].dst
      <4>1. flush[d] /\ FlushedBlock(d) \in DOMAIN fragments
        BY <1>4, <3>1, FlushedFacts DEF WritesBlock
      <4>2. ~(c \in Ids /\ flush[c] /\ FlushedBlock(c) = FlushedBlock(d))
        BY <1>4, <4>1, FlushOnce
      <4> QED BY <4>1, <4>2
    <3> QED BY <1>2, <3>1
  <2>3. KeepsSources(d) /\ state'[d] = state[d]
    BY <1>3, <1>4
  <2> QED BY <1>4, <2>1, <2>2, <2>3, KeepsBlockFacts
<1> QED BY <1>2, <1>3, <1>4 DEF KeepsBlocks

\* The steps of a thread that change no image block.
NoBlockStep(t) ==
    \/ FinishPiece(t) \/ StartCompress(t) \/ AssignBlock(t) \/ Deduplicate(t)
    \/ StartRead(t) \/ ReadDone(t) \/ Abort(t) \/ QuietStep(t)

LEMMA NoBlockKeeps ==
    ASSUME IInv, PackInv, NEW t \in Threads, NoBlockStep(t)
    PROVE  KeepsBlocks(0) /\ UNCHANGED <<dst, fragments, disk, size>>
<1> USE DEF ChunkNone, ChunkRead, ChunkDeduplicated, ChunkAssigned, ChunkWritable, ChunkFinished,
            ChunkStates
<1>1. LayoutQuiet
  BY ThreadQuiet DEF NoBlockStep, PackQuietStep
<1>2. UNCHANGED <<dst, fragments, disk, size>>
  BY DEF NoBlockStep, QuietStep, FinishPiece, StartCompress, AssignBlock, Deduplicate, StartRead,
         ReadDone, Abort, OpenCompressor, OpenFail, Enter, SpuriousWake, Exit, Wait, ReadFail,
         WriteFail, ReturnFailed, bulkVars
<1>3. \/ state' = state
      \/ \E c \in Ids, v \in ChunkStates :
            /\ StateStep(c, v)
            /\ ~WritesBlock(c) \/ (v < ChunkWritable /\ state[c] < ChunkAssigned)
  <2>1. CASE FinishPiece(t)
    BY <2>1, FinishPieceFacts
  <2>2. CASE AssignBlock(t)
    BY <2>2, AssignBlockFacts
  <2>3. CASE Deduplicate(t)
    BY <2>3, DeduplicateFacts
  <2>4. CASE StartRead(t)
    BY <2>4, StartReadFacts
  <2>5. CASE ReadDone(t)
    <3>1. PICK c : c = cur[t]
      OBVIOUS
    <3>2. c \in Ids /\ state[c] = ChunkNone /\ StateStep(c, ChunkRead)
      BY <2>5, <3>1, ReadDoneFacts
    <3> QED BY <3>2
  <2>6. CASE StartCompress(t) \/ Abort(t) \/ QuietStep(t)
    <3>1. state' = state
      BY <2>6 DEF StartCompress, Abort, QuietStep, OpenCompressor, OpenFail, Enter, SpuriousWake,
                  Exit, Wait, ReadFail, WriteFail, ReturnFailed, bulkVars
    <3> QED BY <3>1
  <2> QED BY <2>1, <2>2, <2>3, <2>4, <2>5, <2>6 DEF NoBlockStep
<1>4. /\ \A d \in Ids : WritesBlock(d) /\ IsAssigned(d) => state'[d] = state[d]
      /\ \A d \in Ids : state'[d] >= ChunkWritable /\ WritesBlock(d) => state[d] >= ChunkWritable
  <2>1. CASE state' = state
    BY <2>1
  <2>2. ASSUME NEW c \in Ids, NEW v \in ChunkStates, StateStep(c, v),
               ~WritesBlock(c) \/ (v < ChunkWritable /\ state[c] < ChunkAssigned)
        PROVE  /\ \A d \in Ids : WritesBlock(d) /\ IsAssigned(d) => state'[d] = state[d]
               /\ \A d \in Ids : state'[d] >= ChunkWritable /\ WritesBlock(d)
                     => state[d] >= ChunkWritable
    <3>1. state[c] \in Int /\ v \in Int
      BY StateFacts
    <3>2. \A d \in Ids : d # c => state'[d] = state[d]
      BY <2>2 DEF StateStep
    <3>3. state'[c] = v
      BY <2>2 DEF StateStep
    <3> QED BY <2>2, <3>1, <3>2, <3>3 DEF IsAssigned
  <2> QED BY <1>3, <2>1, <2>2
<1>5. \A d \in Ids \ {0} : d \in Ids
  OBVIOUS
<1> QED BY <1>1, <1>2, <1>4, <1>5, QuietKeeps

LEMMA StutterKeeps ==
    ASSUME IInv, PackInv, UNCHANGED bulkVars
    PROVE  KeepsBlocks(0)
<1>1. UNCHANGED <<state, dst, fragments, workq>> /\ UNCHANGED <<listVars, fragVars>>
  BY DEF bulkVars, listVars, fragVars
<1>2. LayoutQuiet
  BY <1>1, StillQuiet
<1> QED BY <1>1, <1>2, QuietKeeps

\* A block that has been flushed gets no further piece.
LEMMA AssignKeeps ==
    ASSUME IInv, PackInv, NEW t \in Threads, AssignPiece(t)
    PROVE  KeepsBlocks(0) /\ UNCHANGED <<dst, disk, size>>
<1> USE DEF ChunkNone, ChunkRead, ChunkDeduplicated, ChunkAssigned, ChunkWritable, ChunkFinished
<1>1. PICK c : c = Head(workq["assign"])
  OBVIOUS
<1>2. AssignMove(c) /\ PlacePiece(c)
  BY <1>1, AssignMoveFacts
<1>3. /\ c \in Ids /\ ~IsBlock(c) /\ flush'[c] = MustFlush(c)
      /\ StateStep(c, IF MustFlush(c) THEN ChunkAssigned ELSE ChunkWritable)
      /\ UNCHANGED <<dst, disk, size>>
  BY <1>1, AssignPieceFacts
<1>4. /\ desc' = desc /\ prevPiece' = prevPiece /\ ~IsAssigned(c) /\ PredecessorAssigned(c)
      /\ InList(c)
      /\ \A d \in Ids \ {c} : flush'[d] = flush[d] /\ state'[d] = state[d]
      /\ \A d \in Ids : flush[d] /\ prevPiece[d] # 0 => prevPiece[d] # c
  BY <1>2 DEF AssignMove
<1>5. ASSUME NEW d \in Ids, d # c, flush[d]
      PROVE  /\ FlushedBlock(d)' = FlushedBlock(d)
             /\ fragments'[FlushedBlock(d)] = fragments[FlushedBlock(d)]
  <2>1. PICK k : k = FlushedBlock(d)
    OBVIOUS
  <2>2. k \in DOMAIN fragments /\ prevPiece[d] # 0
    BY <1>5, <2>1, FlushedFacts
  <2>3. prevPiece[d] \in Ids /\ prevPiece[d] # c
    BY <1>4, <1>5, <2>2, PredecessorFacts DEF IInv, FragmentInv
  <2>4. CASE IsClosing(c)
    BY <1>2, <1>4, <2>4 DEF PlacePiece, FlushedBlock
  <2>5. CASE IsPiece(c) /\ NeedsFragmentBlock(c)
    <3>1. PICK b : b = Len(fragments) + 1
      OBVIOUS
    <3>2. PlacedIn(c, b)
      BY <1>2, <1>3, <1>4, <2>5, <3>1, PlaceShape DEF PlacedNew
    <3>3. k # b
      BY <2>2, <3>1 DEF IInv, TypeOK
    <3> QED BY <1>4, <2>1, <2>2, <2>3, <3>2, <3>3 DEF PlacedIn, FlushedBlock
  <2>6. CASE IsPiece(c) /\ ~NeedsFragmentBlock(c)
    <3>1. PICK b : b = FlushedBlock(c)
      OBVIOUS
    <3>2. PlacedIn(c, b) /\ prevPiece[c] # 0
      BY <1>2, <1>3, <1>4, <2>6, <3>1, PlaceShape DEF PlacedBehind
    <3>3. LastOf(fragments[FlushedBlock(c)].pieces) = prevPiece[c]
      BY <1>3, <1>4, <3>2, PredecessorIsLast
    <3>4. k # b
      BY <1>3, <1>5, <2>1, <3>1, <3>2, <3>3, OnlySuccessorFlushes
    <3> QED BY <1>4, <2>1, <2>2, <2>3, <3>2, <3>4 DEF PlacedIn, FlushedBlock
  <2> QED BY <1>4, <2>4, <2>5, <2>6 DEF InList, IsPiece, IsClosing
<1>6. ASSUME NEW d \in Ids \ {0}, WritesBlock(d), IsAssigned(d) PROVE KeepsBlock(d)
  <2>1. d # c /\ desc'[d] = desc[d] /\ state'[d] = state[d]
    BY <1>4, <1>6
  <2>2. PICK k : k = FlushedBlock(d)
    OBVIOUS
  <2>3. ~IsBlock(d) => flush[d] /\ flush'[d]
    BY <1>4, <1>6, <2>1 DEF WritesBlock
  <2>4. ~IsBlock(d) => FlushedBlock(d)' = k /\ fragments'[k] = fragments[k]
    BY <1>5, <2>1, <2>2, <2>3
  <2>5. \A e \in Ids : IsPiece(e) /\ IsAssigned(e) => desc'[e] = desc[e]
    BY <1>4
  <2>6. KeepsSources(d)
    BY <1>6, <2>1, <2>2, <2>3, <2>4, <2>5, KeepsSourcesFacts
  <2>7. IsBlock(d) => dst'[d] = dst[d]
    BY <1>3
  <2>8. ~IsBlock(d) => /\ FlushedBlock(d)' = FlushedBlock(d)
                       /\ fragments'[FlushedBlock(d)].dst = fragments[FlushedBlock(d)].dst
    BY <2>2, <2>4
  <2> QED BY <1>6, <2>1, <2>6, <2>7, <2>8, KeepsBlockFacts
<1>7. ASSUME NEW d \in Ids \ {0}, WritesBlock(d)', state'[d] >= ChunkWritable
      PROVE  WritesBlock(d) /\ state[d] >= ChunkWritable
  <2>1. d # c
    <3>1. SUFFICES ASSUME d = c PROVE FALSE
      OBVIOUS
    <3>2. flush'[c] /\ MustFlush(c)
      BY <1>3, <1>4, <1>7, <3>1 DEF WritesBlock, IsBlock
    <3>3. state'[c] = ChunkAssigned
      BY <1>3, <3>2 DEF StateStep
    <3> QED BY <1>7, <3>1, <3>3
  <2> QED BY <1>4, <1>7, <2>1 DEF WritesBlock, IsBlock
<1> QED BY <1>3, <1>6, <1>7 DEF KeepsBlocks

LEMMA AssignFailKeeps ==
    ASSUME IInv, PackInv, NEW t \in Threads, AssignFail(t)
    PROVE  KeepsBlocks(0) /\ UNCHANGED <<dst, disk, size, state, cached, desc, prevPiece, fragOf>>
<1> USE DEF ChunkNone, ChunkRead, ChunkDeduplicated, ChunkAssigned, ChunkWritable, ChunkFinished
<1>1. PICK c : c = Head(workq["assign"])
  OBVIOUS
<1>2. /\ c \in Ids /\ state[c] = ChunkDeduplicated
      /\ \A d \in Ids \ {c} : flush'[d] = flush[d]
      /\ UNCHANGED <<listVars, fragOf, fragments, dst, disk, size, state, cached>>
  BY <1>1, AssignFailFacts
<1>3. UNCHANGED <<desc, prevPiece>>
  BY <1>2 DEF listVars
<1>4. \A d \in Ids : FlushedBlock(d)' = FlushedBlock(d)
  BY <1>2, <1>3 DEF FlushedBlock
<1>5. ASSUME NEW d \in Ids \ {0}, WritesBlock(d), IsAssigned(d) PROVE KeepsBlock(d)
  <2>1. d # c
    BY <1>2, <1>5 DEF IsAssigned
  <2>2. ~IsBlock(d) => flush[d] /\ flush'[d]
    BY <1>2, <1>5, <2>1 DEF WritesBlock
  <2>3. KeepsSources(d)
    <3>1. PICK k : k = FlushedBlock(d)
      OBVIOUS
    <3>2. FlushedBlock(d)' = k /\ fragments' = fragments /\ desc' = desc
      BY <1>2, <1>3, <1>4, <3>1
    <3> QED BY <1>5, <2>2, <3>1, <3>2, KeepsSourcesFacts
  <2>4. fragments' = fragments /\ dst' = dst /\ state' = state
    BY <1>2
  <2> QED BY <1>4, <1>5, <2>3, <2>4, KeepsBlockFacts
<1>6. \A d \in Ids \ {0} : WritesBlock(d)' /\ state'[d] >= ChunkWritable =>
          WritesBlock(d) /\ state[d] >= ChunkWritable
  BY <1>2, <1>3 DEF WritesBlock, IsBlock
<1> QED BY <1>2, <1>3, <1>5, <1>6 DEF KeepsBlocks

LEMMA EnqueueKeeps ==
    ASSUME IInv, PackInv, NEW d, EnqueueMove(d)
    PROVE  /\ KeepsBlocks(0) /\ UNCHANGED <<dst, disk, size, state, cached, flush, fragOf>>
           /\ \A e \in Ids : state[e] # ChunkNone => desc'[e] = desc[e]
           /\ \A e \in Ids : flush[e] => FlushedBlock(e)' = FlushedBlock(e)
<1> USE DEF ChunkNone, ChunkRead, ChunkDeduplicated, ChunkAssigned, ChunkWritable, ChunkFinished
<1>1. PICK c : c = count + 1
  OBVIOUS
<1>2. /\ c \in Ids /\ state[c] = ChunkNone
      /\ UNCHANGED <<fragVars, state, cached, fragments, dst, disk, size>>
      /\ \A e \in Ids \ {c} : desc'[e] = desc[e] /\ prevPiece'[e] = prevPiece[e]
  BY <1>1, EnqueueFacts
<1>3. UNCHANGED <<flush, fragOf>>
  BY <1>2 DEF fragVars
<1>4. ~flush[c]
  BY <1>2 DEF PackInv, FlushInv
<1>5. \A e \in Ids : flush[e] => FlushedBlock(e)' = FlushedBlock(e)
  BY <1>2, <1>3, <1>4 DEF FlushedBlock
<1>6. ASSUME NEW e \in Ids \ {0}, WritesBlock(e), IsAssigned(e) PROVE KeepsBlock(e)
  <2>1. desc'[e] = desc[e] /\ \A f \in Ids : IsPiece(f) /\ IsAssigned(f) => desc'[f] = desc[f]
    BY <1>2, <1>6 DEF IsAssigned
  <2>2. ~IsBlock(e) => flush[e] /\ flush'[e]
    BY <1>3, <1>6 DEF WritesBlock
  <2>3. PICK k : k = FlushedBlock(e)
    OBVIOUS
  <2>4. /\ ~IsBlock(e) => FlushedBlock(e)' = k
        /\ fragments' = fragments /\ dst' = dst /\ state' = state
    BY <1>2, <1>5, <2>2, <2>3
  <2>5. KeepsSources(e)
    BY <1>6, <2>1, <2>2, <2>3, <2>4, KeepsSourcesFacts
  <2> QED BY <1>6, <2>3, <2>4, <2>5, KeepsBlockFacts
<1>7. ASSUME NEW e \in Ids \ {0}, WritesBlock(e)', state'[e] >= ChunkWritable
      PROVE  WritesBlock(e) /\ state[e] >= ChunkWritable
  <2>1. e # c
    BY <1>2, <1>7
  <2> QED BY <1>2, <1>3, <1>7, <2>1 DEF WritesBlock, IsBlock
<1> QED BY <1>2, <1>3, <1>5, <1>6, <1>7 DEF KeepsBlocks

\* The steps that do change an image block change that of one chunk.
LEMMA BlockStepKeeps ==
    ASSUME IInv, PackInv, LayoutQuiet, NEW c \in Ids, WritesBlock(c), NEW blk \in ImageBlockType,
           SetImageBlock(c, blk), \A d \in Ids \ {c} : state'[d] = state[d]
    PROVE  KeepsBlocks(c) /\ KeepsSources(c) /\ ImageBlockOf(c)' = blk
<1>1. /\ \A b \in DOMAIN fragments :
            fragments'[b].dst = IF ~IsBlock(c) /\ b = FlushedBlock(c) THEN blk
                                ELSE fragments[b].dst
      /\ \A d \in Ids : dst'[d] = IF IsBlock(c) /\ d = c THEN blk ELSE dst[d]
  BY ImageBlockFrame
<1>2. \A d \in Ids \ {c} : dst'[d] = dst[d]
  BY <1>1
<1>3. ~IsBlock(c) => flush[c] /\ FlushedBlock(c) \in DOMAIN fragments
  BY FlushedFacts DEF WritesBlock
<1>4. \A b \in DOMAIN fragments :
         fragments'[b].dst = fragments[b].dst \/ (c \in Ids /\ flush[c] /\ FlushedBlock(c) = b)
  BY <1>1, <1>3
<1>5. KeepsBlocks(c) /\ KeepsSources(c)
  BY <1>2, <1>4, QuietKeeps
<1>6. FlushedBlock(c)' = FlushedBlock(c) /\ (IsBlock(c)' <=> IsBlock(c))
  BY DEF LayoutQuiet, listVars, fragVars, FlushedBlock, IsBlock
<1>7. ImageBlockOf(c)' = blk
  BY <1>1, <1>3, <1>6 DEF ImageBlockOf
<1> QED BY <1>5, <1>7

-----------------------------------------------------------------------------
(* CachedInv.                                                              *)

LEMMA CachedFrame ==
    ASSUME IInv, CachedInv,
           \A c \in Ids : state[c] # ChunkNone => desc'[c] = desc[c],
           \A c \in Ids : state'[c] \in Int /\ state'[c] >= state[c],
           \A c \in Ids : state[c] = ChunkNone /\ state'[c] # ChunkNone => cached'[c] \/ IsClosing(c)',
           \A c \in Ids : cached[c] => cached'[c],
           \A d \in Ids : flush[d] /\ state[d] >= ChunkWritable
              => flush'[d] /\ FlushedBlock(d)' = FlushedBlock(d),
           \A c \in Ids : IsPiece(c) /\ IsAssigned(c) => fragOf'[c] = fragOf[c]
    PROVE  CachedInv'
<1> USE DEF ChunkNone, ChunkRead, ChunkAssigned, ChunkWritable
<1>1. \A c \in Ids : state[c] \in Int /\ state[c] >= 0
  BY StateFacts DEF ChunkStates, ChunkFinished
<1>2. ASSUME NEW c \in Ids, IsBlock(c)', state'[c] \in ChunkRead .. ChunkAssigned
      PROVE  cached'[c]
  BY <1>1, <1>2 DEF CachedInv, IsBlock, IsClosing
<1>3. ASSUME NEW c \in Ids, IsPiece(c)', state'[c] >= ChunkRead, ~cached'[c]
      PROVE  /\ IsAssigned(c)'
             /\ \E d \in Ids : flush'[d] /\ FlushedBlock(d)' = fragOf'[c] /\ state'[d] >= ChunkWritable
  <2>1. state[c] # ChunkNone /\ desc'[c] = desc[c] /\ ~cached[c]
    BY <1>1, <1>3 DEF IsPiece, IsClosing
  <2>2. IsPiece(c) /\ state[c] >= ChunkRead
    BY <1>1, <1>3, <2>1 DEF IsPiece
  <2>3. IsAssigned(c) /\ fragOf'[c] = fragOf[c]
    BY <2>1, <2>2 DEF CachedInv
  <2>4. PICK d \in Ids : flush[d] /\ FlushedBlock(d) = fragOf[c] /\ state[d] >= ChunkWritable
    BY <2>1, <2>2 DEF CachedInv
  <2>5. state'[d] >= ChunkWritable
    BY <1>1, <2>4
  <2> QED BY <1>1, <2>3, <2>4, <2>5 DEF IsAssigned
<1> QED BY <1>2, <1>3 DEF CachedInv

\* Bytes are freed by the chunk whose block they are compressed into.
LEMMA CompressDoneCached ==
    ASSUME IInv, PackInv, CachedInv, NEW t \in Threads, CompressDone(t)
    PROVE  CachedInv'
<1> USE DEF ChunkNone, ChunkRead, ChunkAssigned, ChunkWritable
<1>1. PICK c : c = cur[t]
  OBVIOUS
<1>2. /\ c \in Ids /\ c <= count /\ state[c] = ChunkAssigned /\ WritesBlock(c)
      /\ StateStep(c, ChunkWritable)
      /\ \A d \in Ids : cached'[d] <=> cached[d] /\ d \notin Elems(SourcesOf(c))
  BY <1>1, CompressDoneFacts
<1>3. UNCHANGED <<desc, prevPiece, flush, fragOf>>
  BY DEF CompressDone, listVars, fragVars
<1>4. \A d \in Ids : /\ state[d] \in Int /\ (d # c => state'[d] = state[d])
                     /\ IsBlock(d)' <=> IsBlock(d)
                     /\ IsPiece(d)' <=> IsPiece(d)
                     /\ FlushedBlock(d)' = FlushedBlock(d)
  BY <1>2, <1>3, StateFacts DEF StateStep, IsBlock, IsPiece, FlushedBlock
<1>5. state'[c] = ChunkWritable
  BY <1>2 DEF StateStep
<1>6. ASSUME NEW e \in Ids, e \in Elems(SourcesOf(c))
      PROVE  \/ e = c /\ IsBlock(c)
             \/ IsPiece(e) /\ IsAssigned(e) /\ flush[c] /\ FlushedBlock(c) = fragOf[e]
  <2>1. CASE IsBlock(c)
    BY <1>2, <1>6, <2>1, SourcesFacts
  <2>2. CASE ~IsBlock(c)
    BY <1>2, <1>6, <2>2, SourcesFacts
  <2> QED BY <2>1, <2>2
<1>7. ASSUME NEW e \in Ids, IsBlock(e)', state'[e] \in ChunkRead .. ChunkAssigned
      PROVE  cached'[e]
  <2>1. e # c /\ cached[e]
    BY <1>4, <1>5, <1>7 DEF CachedInv
  <2>2. e \notin Elems(SourcesOf(c))
    BY <1>4, <1>6, <1>7, <2>1 DEF IsBlock, IsPiece
  <2> QED BY <1>2, <2>1, <2>2
<1>8. ASSUME NEW e \in Ids, IsPiece(e)', state'[e] >= ChunkRead, ~cached'[e]
      PROVE  /\ IsAssigned(e)'
             /\ \E d \in Ids : flush'[d] /\ FlushedBlock(d)' = fragOf'[e] /\ state'[d] >= ChunkWritable
  <2>1. CASE ~cached[e]
    <3>1. IsPiece(e) /\ state[e] >= ChunkRead
      BY <1>2, <1>4, <1>8
    <3>2. IsAssigned(e)
      BY <2>1, <3>1 DEF CachedInv
    <3>3. PICK d \in Ids : flush[d] /\ FlushedBlock(d) = fragOf[e] /\ state[d] >= ChunkWritable
      BY <2>1, <3>1 DEF CachedInv
    <3>4. flush'[d] /\ FlushedBlock(d)' = fragOf'[e] /\ state'[d] >= ChunkWritable
      BY <1>3, <1>4, <1>5, <3>3
    <3> QED BY <1>4, <1>5, <3>2, <3>4 DEF IsAssigned
  <2>2. CASE e \in Elems(SourcesOf(c))
    <3>1. IsPiece(e) /\ IsAssigned(e) /\ flush[c] /\ FlushedBlock(c) = fragOf[e]
      BY <1>4, <1>6, <1>8, <2>2 DEF IsBlock, IsPiece
    <3>2. flush'[c] /\ FlushedBlock(c)' = fragOf'[e] /\ state'[c] >= ChunkWritable
      BY <1>2, <1>3, <1>4, <1>5, <3>1
    <3> QED BY <1>2, <1>4, <1>5, <3>1, <3>2 DEF IsAssigned
  <2> QED BY <1>2, <1>8, <2>1, <2>2
<1> QED BY <1>7, <1>8 DEF CachedInv

LEMMA QuietCached ==
    ASSUME IInv, CachedInv, LayoutQuiet,
           \A c \in Ids : state[c] = ChunkNone /\ state'[c] # ChunkNone => cached'[c] \/ IsClosing(c),
           \A c \in Ids : cached[c] => cached'[c]
    PROVE  CachedInv'
<1>1. /\ UNCHANGED <<desc, prevPiece, flush, fragOf>>
      /\ \A c \in Ids : state'[c] \in Int /\ state'[c] >= state[c]
  BY DEF LayoutQuiet, listVars, fragVars
<1>2. \A c \in Ids : FlushedBlock(c)' = FlushedBlock(c) /\ (IsClosing(c)' <=> IsClosing(c))
  BY <1>1 DEF FlushedBlock, IsClosing
<1>3. /\ \A c \in Ids : desc'[c] = desc[c] /\ flush'[c] = flush[c] /\ fragOf'[c] = fragOf[c]
      /\ \A c \in Ids : state[c] = ChunkNone /\ state'[c] # ChunkNone => cached'[c] \/ IsClosing(c)'
  BY <1>1, <1>2
<1> QED BY <1>1, <1>2, <1>3, CachedFrame

LEMMA NextCached == IInv /\ PackInv /\ CachedInv /\ [Next]_vars => CachedInv'
<1> SUFFICES ASSUME IInv, PackInv, CachedInv, [Next]_vars PROVE CachedInv'
  OBVIOUS
<1> USE DEF ChunkNone, ChunkRead, ChunkDeduplicated, ChunkAssigned, ChunkWritable, ChunkFinished
<1>0. \A c \in Ids : state[c] \in Int
  BY StateFacts
<1>1. ASSUME NEW d, EnqueueMove(d) PROVE CachedInv'
  <2>1. /\ UNCHANGED <<state, cached, flush, fragOf>>
        /\ \A e \in Ids : state[e] # ChunkNone => desc'[e] = desc[e]
        /\ \A e \in Ids : flush[e] => FlushedBlock(e)' = FlushedBlock(e)
    BY <1>1, EnqueueKeeps
  <2> QED BY <1>0, <2>1, CachedFrame
<1>2. CASE UNCHANGED bulkVars
  <2>1. UNCHANGED <<state, cached, fragments, workq>> /\ UNCHANGED <<listVars, fragVars>>
    BY <1>2 DEF bulkVars, listVars, fragVars
  <2>2. LayoutQuiet
    BY <2>1, StillQuiet
  <2> QED BY <2>1, <2>2, QuietCached
<1>3. ASSUME NEW t \in Threads, ThreadStep(t) \/ SpuriousWake(t) PROVE CachedInv'
  <2>1. CASE QuietStep(t)
    <3>1. UNCHANGED bulkVars
      BY <2>1 DEF QuietStep, OpenCompressor, OpenFail, Enter, SpuriousWake, Exit, Wait, ReadFail,
                  WriteFail, ReturnFailed
    <3> QED BY <1>2, <3>1
  <2>2. CASE FinishPiece(t) \/ StartWrite(t) \/ StartCompress(t) \/ AssignBlock(t)
             \/ Deduplicate(t) \/ StartRead(t) \/ WriteDone(t) \/ Abort(t)
    <3>1. cached' = cached
      BY <2>2 DEF FinishPiece, StartWrite, StartCompress, AssignBlock, Deduplicate, StartRead,
                  WriteDone, Abort
    <3>2. LayoutQuiet
      BY <2>2, ThreadQuiet DEF PackQuietStep
    <3>3. \A c \in Ids : state[c] = ChunkNone /\ state'[c] # ChunkNone => IsClosing(c)
      <4>1. CASE FinishPiece(t)
        BY <4>1, FinishPieceFacts DEF StateStep
      <4>2. CASE StartWrite(t) \/ StartCompress(t) \/ Abort(t)
        BY <4>2 DEF StartWrite, StartCompress, Abort
      <4>3. CASE AssignBlock(t)
        BY <4>3, AssignBlockFacts DEF StateStep
      <4>4. CASE Deduplicate(t)
        BY <4>4, DeduplicateFacts DEF StateStep
      <4>5. CASE StartRead(t)
        BY <4>5, StartReadFacts DEF StateStep
      <4>6. CASE WriteDone(t)
        <5>1. PICK c : c = cur[t]
          OBVIOUS
        <5>2. state[c] = ChunkWritable /\ StateStep(c, ChunkFinished)
          BY <4>6, <5>1, WriteDoneFacts
        <5> QED BY <5>2 DEF StateStep
      <4> QED BY <2>2, <4>1, <4>2, <4>3, <4>4, <4>5, <4>6
    <3> QED BY <3>1, <3>2, <3>3, QuietCached
  <2>3. CASE ReadDone(t)
    <3>1. PICK c : c = cur[t]
      OBVIOUS
    <3>2. StateStep(c, ChunkRead)
      BY <2>3, <3>1, ReadDoneFacts
    <3>3. cached' = [cached EXCEPT ![c] = TRUE] /\ cached \in [Ids -> BOOLEAN]
      BY <2>3, <3>1 DEF ReadDone, IInv, TypeOK
    <3>4. LayoutQuiet
      BY <2>3, ThreadQuiet DEF PackQuietStep
    <3>5. \A d \in Ids : cached[d] => cached'[d]
      BY <3>3
    <3>6. \A d \in Ids : state[d] = ChunkNone /\ state'[d] # ChunkNone => cached'[d]
      BY <3>2, <3>3 DEF StateStep
    <3> QED BY <3>4, <3>5, <3>6, QuietCached
  <2>4. CASE CompressDone(t)
    BY <2>4, CompressDoneCached
  <2>5. CASE AssignFail(t)
    <3>1. PICK c : c = Head(workq["assign"])
      OBVIOUS
    <3>2. state[c] = ChunkDeduplicated /\ \A d \in Ids \ {c} : flush'[d] = flush[d]
      BY <2>5, <3>1, AssignFailFacts
    <3>3. UNCHANGED <<state, cached, desc, prevPiece, fragOf>>
      BY <2>5, AssignFailKeeps
    <3>4. \A d \in Ids : FlushedBlock(d)' = FlushedBlock(d)
      BY <3>3 DEF FlushedBlock
    <3> QED BY <1>0, <3>2, <3>3, <3>4, CachedFrame
  <2>6. CASE AssignPiece(t)
    <3>1. PICK c : c = Head(workq["assign"])
      OBVIOUS
    <3>2. AssignMove(c)
      BY <2>6, <3>1, AssignMoveFacts
    <3>3. /\ c \in Ids /\ state[c] = ChunkDeduplicated /\ ~IsBlock(c) /\ cached' = cached
          /\ c <= count /\ PredecessorAssigned(c) /\ PlacePiece(c)
          /\ StateStep(c, IF MustFlush(c) THEN ChunkAssigned ELSE ChunkWritable)
      BY <2>6, <3>1, AssignPieceFacts
    <3>4. \A d \in Ids \ {c} : fragOf'[d] = fragOf[d]
      BY <3>3, PlaceFacts
    <3>5. /\ UNCHANGED <<desc, prevPiece>> /\ ~IsAssigned(c)
          /\ \A d \in Ids \ {c} : flush'[d] = flush[d] /\ state'[d] = state[d]
          /\ \A d \in Ids : flush[d] /\ prevPiece[d] # 0 => prevPiece[d] # c
      BY <3>2 DEF AssignMove
    <3>6. ASSUME NEW d \in Ids, flush[d], state[d] >= ChunkWritable
          PROVE  flush'[d] /\ FlushedBlock(d)' = FlushedBlock(d)
      <4>1. prevPiece[d] \in Ids /\ prevPiece[d] # c
        BY <3>5, <3>6, PredecessorFacts DEF IInv, FragmentInv
      <4> QED BY <3>3, <3>4, <3>5, <3>6, <4>1 DEF FlushedBlock
    <3>7. \A d \in Ids : state'[d] \in Int /\ state'[d] >= state[d]
      BY <1>0, <3>3 DEF StateStep
    <3>8. \A d \in Ids : state[d] = ChunkNone => state'[d] = ChunkNone
      BY <3>3, <3>5
    <3>9. \A d \in Ids : IsPiece(d) /\ IsAssigned(d) => fragOf'[d] = fragOf[d]
      BY <3>4, <3>5
    <3> QED BY <3>3, <3>5, <3>6, <3>7, <3>8, <3>9, CachedFrame
  <2> QED BY <1>3, <2>1, <2>2, <2>3, <2>4, <2>5, <2>6 DEF ThreadStep, LoopStep, QuietStep
<1>4. CASE \/ UserAbort \/ Finalize \/ SealCheck \/ SealFail \/ \E w \in Workers : Spawn(w)
           \/ UNCHANGED vars
  BY <1>2, <1>4 DEF UserAbort, Finalize, SealCheck, SealFail, Spawn, vars
<1>5. CASE SealEnqueue \/ \E d \in Submissions : Submit(d)
  BY <1>1, <1>5, SubmitMove, SealEnqueueMove
<1> QED BY <1>3, <1>4, <1>5 DEF Next, PipelineStep, SealStep

-----------------------------------------------------------------------------
(* ContentInv.                                                             *)

LEMMA OffsetReplaced ==
    ASSUME NEW blk \in ImageBlockType, NEW x \in Int, NEW y \in Int
    PROVE  /\ [[blk EXCEPT !.offset = x] EXCEPT !.offset = y] = [blk EXCEPT !.offset = y]
           /\ [blk EXCEPT !.offset = blk.offset] = blk
           /\ [blk EXCEPT !.offset = x].size = blk.size /\ [blk EXCEPT !.offset = x].offset = x
           /\ [blk EXCEPT !.offset = x].content = blk.content
BY DEF ImageBlockType

\* What is on disk stays there.
DiskGrows == \A i \in DOMAIN disk : i \in DOMAIN disk' /\ disk'[i] = disk[i]

LEMMA ContentKept ==
    ASSUME IInv, ContentInv, NEW c, KeepsBlocks(c), DiskGrows, NEW d \in Ids \ {c}, WritesBlock(d)'
    PROVE  WrittenContent(d)'
<1> USE DEF ChunkAssigned, ChunkWritable, ChunkFinished
<1>1. SUFFICES ASSUME state'[d] \in {ChunkWritable, ChunkFinished} PROVE WrittenContent(d)'
  BY DEF WrittenContent
<1>2. WritesBlock(d) /\ state[d] >= ChunkWritable
  BY <1>1 DEF KeepsBlocks
<1>3. KeepsBlock(d)
  BY <1>2, StateFacts DEF KeepsBlocks, IsAssigned
<1>4. /\ state'[d] = state[d] /\ Compressed(d)' = Compressed(d)
      /\ ImageBlockOf(d)' = ImageBlockOf(d)
  BY <1>3 DEF KeepsBlock
<1>5. WrittenContent(d)
  BY <1>2 DEF ContentInv
<1>6. state'[d] = ChunkWritable => [ImageBlockOf(d)' EXCEPT !.offset = -1] = Compressed(d)'
  BY <1>4, <1>5 DEF WrittenContent
<1>7. ASSUME state'[d] = ChunkFinished
      PROVE  \E i \in DOMAIN disk' :
                /\ disk'[i] = [Compressed(d)' EXCEPT !.offset = disk'[i].offset]
                /\ ImageBlockOf(d)' = [disk'[i] EXCEPT !.content = <<>>]
  <2>1. PICK i \in DOMAIN disk : /\ disk[i] = [Compressed(d) EXCEPT !.offset = disk[i].offset]
                                 /\ ImageBlockOf(d) = [disk[i] EXCEPT !.content = <<>>]
    BY <1>4, <1>5, <1>7 DEF WrittenContent
  <2>2. i \in DOMAIN disk' /\ disk'[i] = disk[i]
    BY DEF DiskGrows
  <2> QED BY <1>4, <2>1, <2>2
<1> QED BY <1>6, <1>7 DEF WrittenContent

LEMMA CompressDoneBlocks ==
    ASSUME IInv, PackInv, NEW t \in Threads, CompressDone(t), NEW c, c = cur[t]
    PROVE  KeepsBlocks(c) /\ KeepsSources(c) /\ ImageBlockOf(c)' = Compressed(c)
<1>1. /\ c \in Ids /\ WritesBlock(c) /\ SetImageBlock(c, Compressed(c))
      /\ StateStep(c, ChunkWritable)
  BY CompressDoneFacts
<1>2. Compressed(c) \in ImageBlockType
  BY <1>1, CompressedFacts
<1>3. LayoutQuiet
  BY ThreadQuiet DEF PackQuietStep
<1>4. \A d \in Ids \ {c} : state'[d] = state[d]
  BY <1>1 DEF StateStep
<1> QED BY <1>1, <1>2, <1>3, <1>4, BlockStepKeeps

LEMMA StartWriteBlocks ==
    ASSUME IInv, PackInv, NEW t \in Threads, StartWrite(t), NEW c, c = Head(workq["write"])
    PROVE  /\ KeepsBlocks(c) /\ KeepsSources(c)
           /\ ImageBlockOf(c)' = [ImageBlockOf(c) EXCEPT !.offset = size]
           /\ state' = state /\ disk' = disk
<1>1. PICK blk : blk = [ImageBlockOf(c) EXCEPT !.offset = size]
  OBVIOUS
<1>2. c \in Ids /\ WritesBlock(c) /\ blk \in ImageBlockType /\ SetImageBlock(c, blk)
  BY <1>1, StartWriteFacts
<1>3. LayoutQuiet
  BY ThreadQuiet DEF PackQuietStep
<1>4. state' = state /\ disk' = disk
  BY DEF StartWrite
<1> QED BY <1>1, <1>2, <1>3, <1>4, BlockStepKeeps

LEMMA WriteDoneBlocks ==
    ASSUME IInv, PackInv, NEW t \in Threads, WriteDone(t), NEW c, c = cur[t]
    PROVE  /\ KeepsBlocks(c) /\ KeepsSources(c)
           /\ ImageBlockOf(c)' = [ImageBlockOf(c) EXCEPT !.content = <<>>]
<1>1. PICK blk : blk = [ImageBlockOf(c) EXCEPT !.content = <<>>]
  OBVIOUS
<1>2. /\ c \in Ids /\ WritesBlock(c) /\ blk \in ImageBlockType /\ SetImageBlock(c, blk)
      /\ StateStep(c, ChunkFinished)
  BY <1>1, WriteDoneFacts
<1>3. LayoutQuiet
  BY ThreadQuiet DEF PackQuietStep
<1>4. \A d \in Ids \ {c} : state'[d] = state[d]
  BY <1>2 DEF StateStep
<1> QED BY <1>1, <1>2, <1>3, <1>4, BlockStepKeeps

LEMMA DiskAppend ==
    ASSUME IInv, NEW c \in Ids, WritesBlock(c), disk' = Append(disk, ImageBlockOf(c))
    PROVE  /\ DiskGrows /\ Len(disk') = Len(disk) + 1 /\ Len(disk) \in Nat
           /\ DOMAIN disk' = 1 .. Len(disk) + 1 /\ DOMAIN disk = 1 .. Len(disk)
           /\ disk'[Len(disk) + 1] = ImageBlockOf(c) /\ Len(disk) + 1 \in DOMAIN disk'
<1>1. ImageBlockOf(c) \in ImageBlockType /\ disk \in Seq(ImageBlockType)
  BY ImageBlockFacts DEF IInv, TypeOK
<1> QED BY <1>1, AppendShape DEF DiskGrows

\* A writable chunk has its block in memory with nothing but the place to be found.
LEMMA NextContent == IInv /\ PackInv /\ ContentInv /\ [Next]_vars => ContentInv'
<1> SUFFICES ASSUME IInv, PackInv, ContentInv, [Next]_vars PROVE ContentInv'
  OBVIOUS
<1> USE DEF ChunkAssigned, ChunkWritable, ChunkFinished
<1>0. 0 \notin Ids
  BY BoundsAreNat DEF Ids
<1>1. CASE KeepsBlocks(0) /\ disk' = disk
  <2>1. DiskGrows
    BY <1>1 DEF DiskGrows
  <2> QED BY <1>0, <1>1, <2>1, ContentKept DEF ContentInv
<1>2. ASSUME NEW t \in Threads, CompressDone(t) PROVE ContentInv'
  <2>1. PICK c : c = cur[t]
    OBVIOUS
  <2>2. KeepsBlocks(c) /\ KeepsSources(c) /\ ImageBlockOf(c)' = Compressed(c)
    BY <1>2, <2>1, CompressDoneBlocks
  <2>3. /\ c \in Ids /\ StateStep(c, ChunkWritable)
        /\ Compressed(c) \in ImageBlockType /\ Compressed(c).offset = -1
    BY <1>2, <2>1, CompressDoneFacts, CompressedFacts
  <2>4. DiskGrows
    BY <1>2 DEF CompressDone, DiskGrows
  <2>5. Compressed(c)' = Compressed(c) /\ state'[c] = ChunkWritable
    BY <2>2, <2>3 DEF KeepsSources, StateStep
  <2>6. [Compressed(c) EXCEPT !.offset = -1] = Compressed(c)
    BY <2>3 DEF ImageBlockType
  <2>7. WrittenContent(c)'
    BY <2>2, <2>5, <2>6 DEF WrittenContent
  <2> QED BY <2>2, <2>4, <2>7, ContentKept DEF ContentInv
<1>3. ASSUME NEW t \in Threads, StartWrite(t) PROVE ContentInv'
  <2>1. PICK c : c = Head(workq["write"])
    OBVIOUS
  <2>2. PICK blk : blk = ImageBlockOf(c)
    OBVIOUS
  <2>3. /\ KeepsBlocks(c) /\ KeepsSources(c) /\ ImageBlockOf(c)' = [blk EXCEPT !.offset = size]
        /\ state' = state /\ disk' = disk
    BY <1>3, <2>1, <2>2, StartWriteBlocks
  <2>4. c \in Ids /\ WritesBlock(c) /\ state[c] = ChunkWritable
    BY <1>3, <2>1, StartWriteFacts
  <2>5. blk \in ImageBlockType /\ size \in Int
    BY <2>2, <2>4, ImageBlockFacts DEF IInv, TypeOK
  <2>6. [[blk EXCEPT !.offset = size] EXCEPT !.offset = -1] = [blk EXCEPT !.offset = -1]
    BY <2>5 DEF ImageBlockType
  <2>7. [blk EXCEPT !.offset = -1] = Compressed(c)
    BY <2>2, <2>4 DEF ContentInv, WrittenContent
  <2>8. Compressed(c)' = Compressed(c)
    BY <2>3 DEF KeepsSources
  <2>9. WrittenContent(c)'
    BY <2>3, <2>4, <2>6, <2>7, <2>8 DEF WrittenContent
  <2>10. DiskGrows
    BY <2>3 DEF DiskGrows
  <2> QED BY <2>3, <2>9, <2>10, ContentKept DEF ContentInv
<1>4. ASSUME NEW t \in Threads, WriteDone(t) PROVE ContentInv'
  <2>1. PICK c : c = cur[t]
    OBVIOUS
  <2>2. PICK blk : blk = ImageBlockOf(c)
    OBVIOUS
  <2>3. KeepsBlocks(c) /\ KeepsSources(c) /\ ImageBlockOf(c)' = [blk EXCEPT !.content = <<>>]
    BY <1>4, <2>1, <2>2, WriteDoneBlocks
  <2>4. /\ c \in Ids /\ WritesBlock(c) /\ state[c] = ChunkWritable /\ StateStep(c, ChunkFinished)
        /\ disk' = Append(disk, blk)
    BY <1>4, <2>1, <2>2, WriteDoneFacts
  <2>5. DiskGrows /\ Len(disk) + 1 \in DOMAIN disk' /\ disk'[Len(disk) + 1] = blk
    BY <2>2, <2>4, DiskAppend
  <2>6. blk \in ImageBlockType /\ blk.offset \in Int
    BY <2>2, <2>4, ImageBlockFacts DEF ImageBlockType
  <2>7. [blk EXCEPT !.offset = -1] = Compressed(c)
    BY <2>2, <2>4 DEF ContentInv, WrittenContent
  <2>8. blk = [Compressed(c) EXCEPT !.offset = blk.offset]
    <3>1. [[blk EXCEPT !.offset = -1] EXCEPT !.offset = blk.offset] = [blk EXCEPT !.offset = blk.offset]
      BY <2>6, OffsetReplaced
    <3>2. [blk EXCEPT !.offset = blk.offset] = blk
      BY <2>6, OffsetReplaced
    <3> QED BY <2>7, <3>1, <3>2
  <2>9. Compressed(c)' = Compressed(c) /\ state'[c] = ChunkFinished
    BY <2>3, <2>4 DEF KeepsSources, StateStep
  <2>10. WrittenContent(c)'
    BY <2>3, <2>5, <2>8, <2>9 DEF WrittenContent
  <2> QED BY <2>3, <2>5, <2>10, ContentKept DEF ContentInv
<1>5. ASSUME NEW t \in Threads, ThreadStep(t) \/ SpuriousWake(t) PROVE ContentInv'
  <2>1. CASE NoBlockStep(t)
    BY <1>1, <2>1, NoBlockKeeps
  <2>2. CASE AssignPiece(t)
    BY <1>1, <2>2, AssignKeeps
  <2>3. CASE AssignFail(t)
    BY <1>1, <2>3, AssignFailKeeps
  <2> QED BY <1>2, <1>3, <1>4, <1>5, <2>1, <2>2, <2>3
          DEF ThreadStep, LoopStep, NoBlockStep, QuietStep
<1>6. CASE \/ UserAbort \/ Finalize \/ SealCheck \/ SealFail \/ \E w \in Workers : Spawn(w)
           \/ UNCHANGED vars
  <2>1. UNCHANGED bulkVars
    BY <1>6 DEF UserAbort, Finalize, SealCheck, SealFail, Spawn, vars
  <2> QED BY <1>1, <2>1, StutterKeeps DEF bulkVars
<1>7. CASE SealEnqueue \/ \E d \in Submissions : Submit(d)
  BY <1>1, <1>7, SubmitMove, SealEnqueueMove, EnqueueKeeps
<1> QED BY <1>5, <1>6, <1>7 DEF Next, PipelineStep, SealStep

-----------------------------------------------------------------------------
(* PlaceInv.                                                               *)

LEMMA DiskEndFacts ==
    ASSUME IInv, DiskShape
    PROVE  DiskEnd \in Int /\ DiskEnd >= DataStart /\ size \in Nat
<1>1. disk \in Seq(ImageBlockType) /\ size \in Nat
  BY DEF IInv, TypeOK
<1>2. CASE disk = <<>>
  BY <1>1, <1>2, BoundsAreNat DEF DiskEnd
<1>3. CASE disk # <<>>
  <2>1. PICK i : i = Len(disk)
    OBVIOUS
  <2>2. i \in DOMAIN disk
    BY <1>1, <1>3, <2>1
  <2>3. disk[i] \in ImageBlockType
    BY <1>1, <2>2
  <2>4. disk[i].offset \in Int /\ disk[i].size \in Nat
    BY <2>3 DEF ImageBlockType
  <2>5. disk[i].offset >= DataStart
    BY <2>2 DEF DiskShape
  <2>6. DiskEnd = disk[i].offset + disk[i].size
    BY <1>3, <2>1 DEF DiskEnd, LastOf
  <2> QED BY <1>1, <2>4, <2>5, <2>6, BoundsAreNat
<1> QED BY <1>2, <1>3

\* The chunk being written: there is one writer, and its chunk is the next one.
LEMMA WriterFacts ==
    ASSUME IInv, NEW t \in Threads, pc[t] = "write"
    PROVE  /\ cur[t] = finished + 1 /\ cur[t] \in Ids /\ cur[t] <= count
           /\ WritesBlock(cur[t]) /\ state[cur[t]] = ChunkWritable
           /\ cur[t] \notin Elems(workq["write"])
           /\ \A u \in Threads : pc[u] = "write" => u = t
<1>1. cur[t] = finished + 1 /\ \A u \in Threads : pc[u] = "write" => cur[u] = finished + 1
  BY DEF IInv, WriteoutInOrder
<1>2. cur[t] \in Ids /\ cur[t] <= count /\ state[cur[t]] = ChunkWritable
  BY QueueFacts DEF Holding, ExpectedState
<1>3. WritesBlock(cur[t]) /\ cur[t] \notin Elems(workq["write"])
  BY DEF IInv, StageInv, Holding
<1>4. \A u \in Threads : pc[u] = "write" => u = t
  BY <1>1 DEF IInv, StageInv, Holding
<1> QED BY <1>1, <1>2, <1>3, <1>4

\* No writer while the next chunk is in the write queue: nothing is reserved.
LEMMA NothingReserved ==
    ASSUME IInv, PlaceInv, finished + 1 \in Elems(workq["write"])
    PROVE  (\A t \in Threads : pc[t] # "write") /\ size = DiskEnd
<1>1. \A t \in Threads : pc[t] # "write"
  BY WriterFacts
<1> QED BY <1>1 DEF PlaceInv, DiskShape

\* Steps that neither begin nor end a write.
NoWriteStep(c) ==
    /\ KeepsBlocks(c) /\ UNCHANGED <<disk, size, finished>>
    /\ \A t \in Threads : pc'[t] = "write" <=> pc[t] = "write"
    /\ \A t \in Threads : pc[t] = "write" => cur'[t] = cur[t] /\ cur[t] # c
    /\ imgState # "building" => imgState' # "building"
    /\ finished < count => finished < count'
    /\ finished < count /\ state[finished + 1] = ChunkWritable
                        /\ finished + 1 \notin Elems(workq["write"])
          => state'[finished + 1] = ChunkWritable /\ finished + 1 \notin Elems(workq'["write"])

LEMMA PlaceFrame ==
    ASSUME IInv, PlaceInv, NEW c, NoWriteStep(c)
    PROVE  PlaceInv'
<1>1. UNCHANGED <<disk, size, finished, DiskEnd>>
  BY DEF NoWriteStep, DiskEnd
<1>2. ASSUME NEW t \in Threads, pc'[t] = "write"
      PROVE  /\ ImageBlockOf(cur[t])'.offset = DiskEnd'
             /\ size' = DiskEnd' + ImageBlockOf(cur[t])'.size
  <2>1. pc[t] = "write" /\ cur'[t] = cur[t] /\ cur[t] # c
    BY <1>2 DEF NoWriteStep
  <2>2. PICK d : d = cur[t]
    OBVIOUS
  <2>3. d \in Ids /\ d # c /\ WritesBlock(d) /\ IsAssigned(d)
    BY <2>1, <2>2, WriterFacts DEF IsAssigned, ChunkWritable, ChunkAssigned
  <2>4. ImageBlockOf(d)' = ImageBlockOf(d)
    BY <2>3 DEF NoWriteStep, KeepsBlocks, KeepsBlock
  <2>5. ImageBlockOf(cur[t])' = ImageBlockOf(d)'
    BY <2>1, <2>2 DEF ImageBlockOf, IsBlock, FlushedBlock
  <2>6. ImageBlockOf(d).offset = DiskEnd /\ size = DiskEnd + ImageBlockOf(d).size
    BY <2>1, <2>2 DEF PlaceInv, DiskShape
  <2> QED BY <1>1, <2>4, <2>5, <2>6
<1>3. ASSUME \A t \in Threads : pc'[t] # "write", size' # DiskEnd'
      PROVE  /\ imgState' # "building" /\ finished' < count' /\ state'[finished' + 1] = ChunkWritable
             /\ finished' + 1 \notin Elems(workq'["write"])
  <2>1. \A t \in Threads : pc[t] # "write"
    BY <1>3 DEF NoWriteStep
  <2>2. /\ imgState # "building" /\ finished < count /\ state[finished + 1] = ChunkWritable
        /\ finished + 1 \notin Elems(workq["write"])
    BY <1>1, <1>3, <2>1 DEF PlaceInv, DiskShape
  <2> QED BY <1>1, <2>2 DEF NoWriteStep
<1>4. \A i \in DOMAIN disk' :
          /\ disk'[i].size > 0 /\ disk'[i].offset >= DataStart
          /\ disk'[i].offset = IF i = 1 THEN DataStart ELSE disk'[i - 1].offset + disk'[i - 1].size
  BY <1>1 DEF PlaceInv, DiskShape
<1> QED BY <1>2, <1>3, <1>4 DEF PlaceInv, DiskShape

\* Steps that leave the pipeline alone, and do not end a write.
CalmStep ==
    \/ \E t \in Threads : QuietStep(t) /\ ~WriteFail(t)
    \/ UserAbort \/ Finalize \/ SealCheck \/ SealFail \/ \E w \in Workers : Spawn(w)
    \/ UNCHANGED vars

LEMMA CalmFacts ==
    ASSUME IInv, CalmStep
    PROVE  /\ UNCHANGED bulkVars
           /\ \A u \in Threads : (pc'[u] = "write" <=> pc[u] = "write")
           /\ \A u \in Threads : pc[u] = "write" => cur'[u] = cur[u]
           /\ imgState # "building" => imgState' # "building"
<1>1. pc \in [Threads -> PcValues] /\ cur \in [Threads -> Ids0] /\ Main \in Threads
      /\ Workers \subseteq Threads
  BY DEF IInv, TypeOK, Threads
<1>2. CASE UNCHANGED vars
  BY <1>2 DEF vars, bulkVars, imageVars
<1>3. ASSUME NEW t \in Threads, QuietStep(t), ~WriteFail(t)
      PROVE  /\ UNCHANGED bulkVars /\ pc[t] # "write"
             /\ \E v \in PcValues \ {"write"} : pc' = [pc EXCEPT ![t] = v]
             /\ cur' = cur \/ cur' = [cur EXCEPT ![t] = 0]
             /\ imgState # "building" => imgState' # "building"
  <2>1. CASE OpenCompressor(t) \/ Enter(t) \/ SpuriousWake(t) \/ Wait(t)
    BY <2>1 DEF OpenCompressor, Enter, SpuriousWake, Wait, PcValues, imageVars
  <2>2. CASE Exit(t) \/ ReturnFailed(t)
    BY <2>2 DEF Exit, ReturnFailed, Leave, PcValues, imageVars
  <2>3. CASE OpenFail(t) \/ ReadFail(t)
    BY <2>3 DEF OpenFail, ReadFail, FlagError, PcValues
  <2> QED BY <1>3, <2>1, <2>2, <2>3 DEF QuietStep
<1>4. CASE UserAbort \/ Finalize \/ SealCheck \/ SealFail \/ \E w \in Workers : Spawn(w)
  <2>1. \E t \in Threads :
             /\ UNCHANGED bulkVars /\ pc[t] # "write"
             /\ \E v \in PcValues \ {"write"} : pc' = [pc EXCEPT ![t] = v]
             /\ cur' = cur \/ cur' = [cur EXCEPT ![t] = 0]
             /\ imgState # "building" => imgState' # "building"
    <3>1. CASE UserAbort \/ SealFail
      BY <1>1, <3>1 DEF UserAbort, SealFail, FlagError, PcValues
    <3>2. CASE Finalize
      BY <1>1, <3>2 DEF Finalize, PcValues, imageVars
    <3>3. CASE SealCheck
      BY <1>1, <3>3 DEF SealCheck, PcValues, imageVars
    <3>4. ASSUME NEW w \in Workers, Spawn(w)
          PROVE  /\ UNCHANGED bulkVars /\ pc[w] # "write"
                 /\ \E v \in PcValues \ {"write"} : pc' = [pc EXCEPT ![w] = v]
                 /\ cur' = cur
                 /\ imgState # "building" => imgState' # "building"
      BY <3>4 DEF Spawn, PcValues, imageVars
    <3> QED BY <1>1, <1>4, <3>1, <3>2, <3>3, <3>4
  <2> QED BY <1>1, <2>1
<1> QED BY <1>1, <1>2, <1>3, <1>4 DEF CalmStep

LEMMA CalmPlace ==
    ASSUME IInv, PackInv, CalmStep
    PROVE  NoWriteStep(0)
<1>1. /\ UNCHANGED bulkVars
      /\ \A u \in Threads : (pc'[u] = "write" <=> pc[u] = "write")
      /\ \A u \in Threads : pc[u] = "write" => cur'[u] = cur[u]
      /\ imgState # "building" => imgState' # "building"
  BY CalmFacts
<1>2. UNCHANGED <<disk, size, finished, count, state, workq>>
  BY <1>1 DEF bulkVars
<1>3. \A u \in Threads : pc[u] = "write" => cur[u] # 0
  BY WriterFacts, BoundsAreNat DEF Ids
<1> QED BY <1>1, <1>2, <1>3, StutterKeeps DEF NoWriteStep

\* Steps of thread t that hold no write: t is not a writer before or after, and the
\* others stay where they are or are woken.
LEMMA ThreadPlace ==
    ASSUME IInv, NEW t \in Threads, NEW c, KeepsBlocks(c), UNCHANGED <<disk, size, finished, count>>,
           pc[t] # "write", pc'[t] # "write",
           \A u \in Threads \ {t} : cur'[u] = cur[u]
              /\ (pc'[u] = pc[u] \/ (pc[u] = "wait" /\ pc'[u] = "enter")),
           \A u \in Threads \ {t} : pc[u] = "write" => cur[u] # c,
           imgState # "building" => imgState' # "building",
           \A d \in Ids : state[d] = ChunkWritable => state'[d] = ChunkWritable,
           \A d \in Ids : state[d] = ChunkWritable /\ d \in Elems(workq'["write"])
              => d \in Elems(workq["write"])
    PROVE  NoWriteStep(c)
<1>1. /\ \A u \in Threads : pc'[u] = "write" <=> pc[u] = "write"
      /\ \A u \in Threads : pc[u] = "write" => cur'[u] = cur[u] /\ cur[u] # c
  OBVIOUS
<1>2. finished < count => finished + 1 \in Ids
  BY QueueFacts, BoundsAreNat DEF Ids
<1> QED BY <1>1, <1>2 DEF NoWriteStep

\* The chunk that moves on is not yet writable, and may only enter the write queue itself.
LEMMA EarlyMovePlace ==
    ASSUME IInv, PackInv, NEW t \in Threads,
           StartRead(t) \/ ReadDone(t) \/ Deduplicate(t) \/ AssignBlock(t) \/ StartCompress(t)
    PROVE  NoWriteStep(0)
<1> USE DEF ChunkNone, ChunkRead, ChunkDeduplicated, ChunkAssigned, ChunkWritable
<1>0. \A s \in {"read", "dedup", "assign", "compress", "write"} : s \in Stages
  BY DEF Stages
<1>1. KeepsBlocks(0)
  BY NoBlockKeeps DEF NoBlockStep
<1>2. UNCHANGED <<disk, size, finished, count, imgState>>
  BY DEF StartRead, ReadDone, Deduplicate, AssignBlock, StartCompress, listVars, imageVars
<1>3. \A u \in Threads : pc[u] = "write" => cur[u] # 0
  BY WriterFacts, BoundsAreNat DEF Ids
<1>4. /\ pc[t] # "write" /\ pc'[t] # "write"
      /\ \A u \in Threads \ {t} : cur'[u] = cur[u] /\ pc'[u] = pc[u]
  <2>1. CASE StartRead(t)
    BY <2>1, StartReadFacts DEF StartRead
  <2>2. CASE ReadDone(t)
    BY <2>2, StateFacts DEF ReadDone
  <2>3. CASE Deduplicate(t) \/ AssignBlock(t)
    BY <2>3 DEF Deduplicate, AssignBlock
  <2>4. CASE StartCompress(t)
    BY <2>4, StateFacts DEF StartCompress
  <2> QED BY <2>1, <2>2, <2>3, <2>4
<1>5. /\ \A d \in Ids : state[d] = ChunkWritable => state'[d] = ChunkWritable
      /\ \A d \in Elems(workq'["write"]) : d \in Elems(workq["write"])
  <2>1. CASE StartRead(t)
    <3>1. PICK c : c = Head(workq["read"])
      OBVIOUS
    <3>2. /\ c \in Ids /\ state[c] = ChunkNone /\ Removed(workq, Pop(workq, "read"), "read", c)
          /\ \/ StateStep(c, ChunkRead) /\ Added(Pop(workq, "read"), workq', "dedup", c)
             \/ state' = state /\ workq' = Pop(workq, "read")
      BY <2>1, <3>1, StartReadFacts
    <3>3. \A d \in Ids : state[d] = ChunkWritable => state'[d] = ChunkWritable
      BY <3>2 DEF StateStep
    <3>4. \A d \in Elems(workq'["write"]) : d \in Elems(workq["write"])
      BY <1>0, <3>2 DEF Removed, Added
    <3> QED BY <3>3, <3>4
  <2>2. CASE ReadDone(t)
    <3>1. PICK c : c = cur[t]
      OBVIOUS
    <3>2. /\ state[c] = ChunkNone /\ StateStep(c, ChunkRead) /\ Added(workq, workq', "dedup", c)
      BY <2>2, <3>1, ReadDoneFacts
    <3>3. \A d \in Ids : state[d] = ChunkWritable => state'[d] = ChunkWritable
      BY <3>2 DEF StateStep
    <3>4. \A d \in Elems(workq'["write"]) : d \in Elems(workq["write"])
      BY <1>0, <3>2 DEF Added
    <3> QED BY <3>3, <3>4
  <2>3. CASE Deduplicate(t)
    <3>1. PICK c : c = Head(workq["dedup"])
      OBVIOUS
    <3>2. /\ state[c] = ChunkRead /\ StateStep(c, ChunkDeduplicated)
          /\ Removed(workq, Pop(workq, "dedup"), "dedup", c)
          /\ workq' = Pop(workq, "dedup") \/ Added(Pop(workq, "dedup"), workq', "assign", c)
      BY <2>3, <3>1, DeduplicateFacts
    <3>3. \A d \in Ids : state[d] = ChunkWritable => state'[d] = ChunkWritable
      BY <3>2 DEF StateStep
    <3>4. \A d \in Elems(workq'["write"]) : d \in Elems(workq["write"])
      BY <1>0, <3>2 DEF Removed, Added
    <3> QED BY <3>3, <3>4
  <2>4. CASE AssignBlock(t)
    <3>1. PICK c : c = Head(workq["assign"])
      OBVIOUS
    <3>2. /\ state[c] = ChunkDeduplicated /\ StateStep(c, ChunkAssigned)
          /\ Removed(workq, Pop(workq, "assign"), "assign", c)
          /\ Added(Pop(workq, "assign"), workq', "compress", c)
      BY <2>4, <3>1, AssignBlockFacts
    <3>3. \A d \in Ids : state[d] = ChunkWritable => state'[d] = ChunkWritable
      BY <3>2 DEF StateStep
    <3>4. \A d \in Elems(workq'["write"]) : d \in Elems(workq["write"])
      BY <1>0, <3>2 DEF Removed, Added
    <3> QED BY <3>3, <3>4
  <2>5. CASE StartCompress(t)
    <3>1. PICK c : c = Head(workq["compress"])
      OBVIOUS
    <3>2. Removed(workq, workq', "compress", c) /\ state' = state
      BY <2>5, <3>1, StartCompressFacts DEF StartCompress
    <3> QED BY <1>0, <3>2 DEF Removed
  <2> QED BY <2>1, <2>2, <2>3, <2>4, <2>5
<1> QED BY <1>1, <1>2, <1>3, <1>4, <1>5, ThreadPlace

LEMMA LateMovePlace ==
    ASSUME IInv, PackInv, NEW t \in Threads,
           AssignPiece(t) \/ AssignFail(t) \/ CompressDone(t) \/ Abort(t)
    PROVE  \E c : NoWriteStep(c)
<1> USE DEF ChunkNone, ChunkRead, ChunkDeduplicated, ChunkAssigned, ChunkWritable
<1>0. \A s \in {"read", "dedup", "assign", "compress", "write"} : s \in Stages
  BY DEF Stages
<1>1. \A u \in Threads : pc[u] = "write" => cur[u] # 0 /\ state[cur[u]] = ChunkWritable
  BY WriterFacts, BoundsAreNat DEF Ids
<1>2. CASE AssignPiece(t)
  <2>1. PICK c : c = Head(workq["assign"])
    OBVIOUS
  <2>2. /\ c \in Ids /\ state[c] = ChunkDeduplicated /\ AssignQueue(c)
        /\ StateStep(c, IF MustFlush(c) THEN ChunkAssigned ELSE ChunkWritable)
        /\ UNCHANGED <<listVars, imageVars, finished, disk, size, pc, cur>>
    BY <1>2, <2>1, AssignPieceFacts
  <2>3. KeepsBlocks(0)
    BY <1>2, AssignKeeps
  <2>4. UNCHANGED <<count, imgState>> /\ pc[t] = "loop"
    BY <1>2, <2>2 DEF listVars, imageVars, AssignPiece
  <2>5. \A d \in Ids : state[d] = ChunkWritable => state'[d] = ChunkWritable
    BY <2>2 DEF StateStep
  <2>6. \A d \in Ids : state[d] = ChunkWritable /\ d \in Elems(workq'["write"])
           => d \in Elems(workq["write"])
    BY <1>0, <2>2 DEF AssignQueue
  <2> QED BY <1>1, <2>2, <2>3, <2>4, <2>5, <2>6, ThreadPlace
<1>3. CASE AssignFail(t)
  <2>1. PICK c : c = Head(workq["assign"])
    OBVIOUS
  <2>2. /\ Removed(workq, workq', "assign", c) /\ imgState' = "fatal_error"
        /\ UNCHANGED <<listVars, finished, state, disk, size, cur>>
        /\ pc[t] = "loop" /\ pc'[t] = "abort_op" /\ \A u \in Threads \ {t} : pc'[u] = pc[u]
    BY <1>3, <2>1, AssignFailFacts
  <2>3. KeepsBlocks(0)
    BY <1>3, AssignFailKeeps
  <2>4. count' = count
    BY <2>2 DEF listVars
  <2>5. \A d \in Elems(workq'["write"]) : d \in Elems(workq["write"])
    BY <1>0, <2>2 DEF Removed
  <2> QED BY <1>1, <2>2, <2>3, <2>4, <2>5, ThreadPlace
<1>4. CASE CompressDone(t)
  <2>1. PICK c : c = cur[t]
    OBVIOUS
  <2>2. /\ c \in Ids /\ state[c] = ChunkAssigned /\ StateStep(c, ChunkWritable)
        /\ workq' = workq \/ Added(workq, workq', "write", c)
        /\ pc'[t] = "loop" /\ \A u \in Threads \ {t} : pc'[u] = pc[u] /\ cur'[u] = cur[u]
    BY <1>4, <2>1, CompressDoneFacts
  <2>3. KeepsBlocks(c)
    BY <1>4, <2>1, CompressDoneBlocks
  <2>4. UNCHANGED <<disk, size, finished, count, imgState>> /\ pc[t] = "compress"
    BY <1>4 DEF CompressDone, listVars, imageVars
  <2>5. \A d \in Ids : state[d] = ChunkWritable => state'[d] = ChunkWritable
    BY <2>2 DEF StateStep
  <2>6. \A d \in Ids : state[d] = ChunkWritable /\ d \in Elems(workq'["write"])
           => d \in Elems(workq["write"])
    <3>1. \A d \in Elems(workq'["write"]) : d = c \/ d \in Elems(workq["write"])
      BY <1>0, <2>2 DEF Added
    <3>2. state[c] # ChunkWritable
      BY <2>2
    <3> QED BY <3>1, <3>2
  <2>7. \A u \in Threads \ {t} : pc[u] = "write" => cur[u] # c
    BY <1>1, <2>2
  <2> QED BY <2>2, <2>3, <2>4, <2>5, <2>6, <2>7, ThreadPlace
<1>5. CASE Abort(t)
  <2>1. UNCHANGED <<disk, size, finished, count, imgState, state, cur>> /\ workq' = EmptyQueues
    BY <1>5 DEF Abort, listVars, imageVars
  <2>2. KeepsBlocks(0)
    BY <1>5, NoBlockKeeps DEF NoBlockStep
  <2>3. /\ pc[t] # "write" /\ pc'[t] # "write"
        /\ \A u \in Threads \ {t} : pc'[u] = pc[u] \/ (pc[u] = "wait" /\ pc'[u] = "enter")
    <3>1. pc[t] \in {"abort_op", "abort_exit", "abort_app", "abort_root", "abort_finalize"}
      BY <1>5 DEF Abort, AfterAbort
    <3>2. AfterAbort[pc[t]] \in PcValues /\ AfterAbort[pc[t]] # "write" /\ AfterAbort[pc[t]] # "wait"
      BY <3>1 DEF AfterAbort, PcValues
    <3>3. PICK v : v = AfterAbort[pc[t]]
      OBVIOUS
    <3>4. pc' = Broadcast([pc EXCEPT ![t] = v])
      BY <1>5, <3>3 DEF Abort
    <3> QED BY <3>1, <3>2, <3>3, <3>4, StateFacts DEF Broadcast
  <2>4. Elems(workq'["write"]) = {}
    BY <1>0, <2>1, EmptyFacts
  <2> QED BY <1>1, <2>1, <2>2, <2>3, <2>4, ThreadPlace
<1> QED BY <1>2, <1>3, <1>4, <1>5

LEMMA EnqueuePlace ==
    ASSUME IInv, PackInv, NEW d, EnqueueMove(d)
    PROVE  NoWriteStep(0)
<1>1. PICK c : c = count + 1
  OBVIOUS
<1>2. /\ UNCHANGED <<imageVars, finished, state, disk, size, cur>> /\ count' = c /\ count \in Nat
      /\ Added(workq, workq', "read", c)
  BY <1>1, EnqueueFacts
<1>3. KeepsBlocks(0)
  BY EnqueueKeeps
<1>4. Elems(workq'["write"]) = Elems(workq["write"]) /\ imgState' = imgState
  BY <1>2 DEF Added, Stages, imageVars
<1>5. \A u \in Threads : pc'[u] = "write" <=> pc[u] = "write"
  BY DEF EnqueueMove, BeforeClosing
<1>6. \A u \in Threads : pc[u] = "write" => cur[u] # 0
  BY WriterFacts, BoundsAreNat DEF Ids
<1>7. finished < count => finished < count'
  BY <1>1, <1>2, QueueFacts
<1> QED BY <1>2, <1>3, <1>4, <1>5, <1>6, <1>7 DEF NoWriteStep

\* A failed write leaves a hole, and nothing can be written behind it.
LEMMA WriteFailPlace ==
    ASSUME IInv, PlaceInv, NEW t \in Threads, WriteFail(t)
    PROVE  PlaceInv'
<1>1. /\ pc[t] = "write" /\ imgState' = "fatal_error" /\ pc' = [pc EXCEPT ![t] = "abort_op"]
      /\ UNCHANGED bulkVars
  BY DEF WriteFail, FlagError
<1>2. UNCHANGED <<disk, size, finished, count, state, workq, DiskEnd>>
  BY <1>1 DEF bulkVars, DiskEnd
<1>3. PICK c : c = cur[t]
  OBVIOUS
<1>4. /\ c = finished + 1 /\ c \in Ids /\ c <= count /\ state[c] = ChunkWritable
      /\ c \notin Elems(workq["write"]) /\ \A u \in Threads : pc[u] = "write" => u = t
  BY <1>1, <1>3, WriterFacts
<1>5. \A u \in Threads : pc'[u] # "write"
  BY <1>1, <1>4, StateFacts
<1>6. finished < count
  BY <1>4, QueueFacts
<1>7. \A i \in DOMAIN disk' :
          /\ disk'[i].size > 0 /\ disk'[i].offset >= DataStart
          /\ disk'[i].offset = IF i = 1 THEN DataStart ELSE disk'[i - 1].offset + disk'[i - 1].size
  BY <1>2 DEF PlaceInv, DiskShape
<1> QED BY <1>1, <1>2, <1>4, <1>5, <1>6, <1>7 DEF PlaceInv, DiskShape

LEMMA FinishPiecePlace ==
    ASSUME IInv, PlaceInv, NEW t \in Threads, FinishPiece(t)
    PROVE  PlaceInv'
<1>1. PICK c : c = Head(workq["write"])
  OBVIOUS
<1>2. /\ c = finished + 1 /\ c \in Elems(workq["write"])
      /\ pc'[t] = "loop"
      /\ \A u \in Threads \ {t} : pc'[u] = pc[u] \/ (pc[u] = "wait" /\ pc'[u] = "enter")
  BY <1>1, FinishPieceFacts
<1>3. (\A u \in Threads : pc[u] # "write") /\ size = DiskEnd
  BY <1>2, NothingReserved
<1>4. \A u \in Threads : pc'[u] # "write"
  BY <1>2, <1>3
<1>5. UNCHANGED <<disk, size, DiskEnd>>
  BY DEF FinishPiece, DiskEnd
<1>6. \A i \in DOMAIN disk' :
          /\ disk'[i].size > 0 /\ disk'[i].offset >= DataStart
          /\ disk'[i].offset = IF i = 1 THEN DataStart ELSE disk'[i - 1].offset + disk'[i - 1].size
  BY <1>5 DEF PlaceInv, DiskShape
<1> QED BY <1>3, <1>4, <1>5, <1>6 DEF PlaceInv, DiskShape

\* A writer begins at the end of what has been written.
LEMMA StartWritePlace ==
    ASSUME IInv, PackInv, PlaceInv, NEW t \in Threads, StartWrite(t)
    PROVE  PlaceInv'
<1>1. PICK c : c = Head(workq["write"])
  OBVIOUS
<1>2. /\ c \in Ids /\ WritesBlock(c) /\ c = finished + 1 /\ c \in Elems(workq["write"])
      /\ size' = size + ImageBlockOf(c).size
      /\ pc'[t] = "write" /\ cur'[t] = c
      /\ \A u \in Threads \ {t} : pc'[u] = pc[u] /\ cur'[u] = cur[u]
  BY <1>1, StartWriteFacts
<1>3. (\A u \in Threads : pc[u] # "write") /\ size = DiskEnd
  BY <1>2, NothingReserved
<1>4. UNCHANGED <<disk, DiskEnd>>
  BY DEF StartWrite, DiskEnd
<1>5. PICK blk : blk = ImageBlockOf(c)
  OBVIOUS
<1>6. blk \in ImageBlockType /\ size \in Int
  BY <1>2, <1>5, ImageBlockFacts DEF IInv, TypeOK
<1>7. ImageBlockOf(c)' = [blk EXCEPT !.offset = size]
  BY <1>1, <1>5, StartWriteBlocks
<1>8. ImageBlockOf(c)'.offset = size /\ ImageBlockOf(c)'.size = blk.size
  BY <1>6, <1>7 DEF ImageBlockType
<1>9. ASSUME NEW u \in Threads, pc'[u] = "write"
      PROVE  /\ ImageBlockOf(cur[u])'.offset = DiskEnd'
             /\ size' = DiskEnd' + ImageBlockOf(cur[u])'.size
  <2>1. u = t
    BY <1>2, <1>3, <1>9
  <2>2. ImageBlockOf(cur[u])' = ImageBlockOf(c)'
    BY <1>2, <2>1 DEF ImageBlockOf, IsBlock, FlushedBlock
  <2> QED BY <1>2, <1>3, <1>4, <1>5, <1>8, <2>2
<1>10. \A i \in DOMAIN disk' :
          /\ disk'[i].size > 0 /\ disk'[i].offset >= DataStart
          /\ disk'[i].offset = IF i = 1 THEN DataStart ELSE disk'[i - 1].offset + disk'[i - 1].size
  BY <1>4 DEF PlaceInv, DiskShape
<1> QED BY <1>2, <1>9, <1>10 DEF PlaceInv, DiskShape

LEMMA WriteDonePlace ==
    ASSUME IInv, PackInv, ContentInv, PlaceInv, NEW t \in Threads, WriteDone(t)
    PROVE  PlaceInv' /\ size' = DiskEnd'
<1>1. PICK c : c = cur[t]
  OBVIOUS
<1>2. PICK blk : blk = ImageBlockOf(c)
  OBVIOUS
<1>3. /\ c \in Ids /\ c <= count /\ WritesBlock(c) /\ state[c] = ChunkWritable
      /\ disk' = Append(disk, blk) /\ pc[t] = "write" /\ pc'[t] = "loop"
      /\ \A u \in Threads \ {t} : pc'[u] = pc[u] \/ (pc[u] = "wait" /\ pc'[u] = "enter")
  BY <1>1, <1>2, WriteDoneFacts
<1>4. PICK n : n = Len(disk)
  OBVIOUS
<1>5. /\ n \in Nat /\ DOMAIN disk' = 1 .. n + 1 /\ DOMAIN disk = 1 .. n /\ disk'[n + 1] = blk
      /\ Len(disk') = n + 1 /\ \A i \in 1 .. n : disk'[i] = disk[i]
  BY <1>2, <1>3, <1>4, DiskAppend DEF DiskGrows
<1>6. blk \in ImageBlockType /\ blk.size \in Nat /\ blk.offset \in Int
  BY <1>2, <1>3, ImageBlockFacts DEF ImageBlockType
<1>7. blk.size > 0
  <2>1. [blk EXCEPT !.offset = -1] = Compressed(c) /\ ChunkWritable = ChunkWritable
    BY <1>2, <1>3 DEF ContentInv, WrittenContent
  <2>2. [blk EXCEPT !.offset = -1].size = blk.size
    BY <1>6 DEF ImageBlockType
  <2>3. Compressed(c).size > 0
    BY <1>3, SourcesFacts
  <2> QED BY <2>1, <2>2, <2>3
<1>8. DiskShape /\ DiskEnd \in Int /\ DiskEnd >= DataStart
  <2>1. DiskShape
    BY DEF PlaceInv, DiskShape
  <2> QED BY <2>1, DiskEndFacts
<1>9. blk.offset = DiskEnd /\ size = DiskEnd + blk.size /\ size' = size
  BY <1>1, <1>2, <1>3 DEF PlaceInv, DiskShape, WriteDone
<1>10. n # 0 => DiskEnd = disk[n].offset + disk[n].size
  BY <1>4, <1>5 DEF DiskEnd, LastOf
<1>11. n = 0 => DiskEnd = DataStart
  <2>1. disk \in Seq(ImageBlockType)
    BY DEF IInv, TypeOK
  <2>2. ASSUME disk # <<>> PROVE n # 0
    <3>1. Len(disk) \in DOMAIN disk
      BY <2>1, <2>2
    <3> QED BY <1>4, <1>5, <3>1
  <2> QED BY <2>2 DEF DiskEnd
<1>12. DiskEnd' = blk.offset + blk.size
  <2>1. disk' # <<>>
    BY <1>5
  <2> QED BY <1>5, <2>1 DEF DiskEnd, LastOf
<1>13. \A u \in Threads : pc'[u] # "write"
  BY <1>3, WriterFacts
<1>14. ASSUME NEW i \in DOMAIN disk'
       PROVE  /\ disk'[i].size > 0 /\ disk'[i].offset >= DataStart
              /\ disk'[i].offset = IF i = 1 THEN DataStart
                                   ELSE disk'[i - 1].offset + disk'[i - 1].size
  <2>1. CASE i = n + 1
    <3>1. disk'[i] = blk /\ disk'[i].offset >= DataStart
      BY <1>5, <1>8, <1>9, <2>1
    <3>2. i = 1 => blk.offset = DataStart
      BY <1>5, <1>9, <1>11, <2>1
    <3>3. i # 1 => i - 1 = n /\ n \in 1 .. n /\ n # 0
      BY <1>5, <2>1
    <3>4. i # 1 => blk.offset = disk'[i - 1].offset + disk'[i - 1].size
      BY <1>5, <1>9, <1>10, <3>3
    <3> QED BY <1>7, <3>1, <3>2, <3>4
  <2>2. CASE i # n + 1
    <3>1. i \in 1 .. n /\ disk'[i] = disk[i]
      BY <1>5, <2>2
    <3>2. i # 1 => i - 1 \in 1 .. n /\ disk'[i - 1] = disk[i - 1]
      BY <1>5, <3>1
    <3>3. /\ disk[i].size > 0 /\ disk[i].offset >= DataStart
          /\ disk[i].offset = IF i = 1 THEN DataStart ELSE disk[i - 1].offset + disk[i - 1].size
      BY <1>5, <1>8, <3>1 DEF DiskShape
    <3> QED BY <3>1, <3>2, <3>3
  <2> QED BY <2>1, <2>2
<1> QED BY <1>8, <1>9, <1>12, <1>13, <1>14 DEF PlaceInv, DiskShape

LEMMA NextPlace == IInv /\ PackInv /\ ContentInv /\ PlaceInv /\ [Next]_vars => PlaceInv'
<1> SUFFICES ASSUME IInv, PackInv, ContentInv, PlaceInv, [Next]_vars PROVE PlaceInv'
  OBVIOUS
<1>1. CASE CalmStep
  BY <1>1, CalmPlace, PlaceFrame
<1>2. CASE SealEnqueue \/ \E d \in Submissions : Submit(d)
  BY <1>2, SubmitMove, SealEnqueueMove, EnqueuePlace, PlaceFrame
<1>3. ASSUME NEW t \in Threads, ThreadStep(t) \/ SpuriousWake(t) PROVE PlaceInv'
  <2>1. CASE StartRead(t) \/ ReadDone(t) \/ Deduplicate(t) \/ AssignBlock(t) \/ StartCompress(t)
    BY <2>1, EarlyMovePlace, PlaceFrame
  <2>2. CASE AssignPiece(t) \/ AssignFail(t) \/ CompressDone(t) \/ Abort(t)
    BY <2>2, LateMovePlace, PlaceFrame
  <2>3. CASE WriteFail(t)
    BY <2>3, WriteFailPlace
  <2>4. CASE FinishPiece(t)
    BY <2>4, FinishPiecePlace
  <2>5. CASE StartWrite(t)
    BY <2>5, StartWritePlace
  <2>6. CASE WriteDone(t)
    BY <2>6, WriteDonePlace
  <2>7. CASE QuietStep(t) /\ ~WriteFail(t)
    BY <1>1, <2>7 DEF CalmStep
  <2> QED BY <1>3, <2>1, <2>2, <2>3, <2>4, <2>5, <2>6, <2>7 DEF ThreadStep, LoopStep, QuietStep
<1> QED BY <1>1, <1>2, <1>3 DEF Next, PipelineStep, SealStep, CalmStep

-----------------------------------------------------------------------------
(* EndInv.                                                                 *)

Failing == DOMAIN AfterAbort \cup {"failed"}

LEMMA FailingValues ==
    Failing = {"abort_op", "abort_exit", "abort_app", "abort_root", "abort_finalize", "failed"}
BY DEF Failing, AfterAbort

\* Steps that neither abort the pipeline nor close it.
LEMMA EndFrame ==
    ASSUME IInv, EndInv, UNCHANGED <<desc, lastPiece, mayAdd, aborted>>,
           imgState' = "building" => imgState = "building",
           \A t \in Threads : pc'[t] \in Failing => pc[t] \in Failing \/ imgState' # "building",
           pc'[Main] = "finished" /\ imgState' = "building" =>
              pc[Main] = "finished" \/ (finished' = count' /\ ~mayAdd'),
           finished = count => finished' = count'
    PROVE  EndInv'
<1>1. IsClosing(lastPiece)' <=> IsClosing(lastPiece)
  BY DEF IsClosing
<1>2. \A t \in Threads : pc[t] \in Failing => imgState # "building"
  BY DEF EndInv, Failing
<1>3. \A t \in Threads : pc'[t] \in Failing => imgState' # "building"
  BY <1>2
<1> QED BY <1>1, <1>3 DEF EndInv, Failing

\* One thread moves to v.
LEMMA EndMove ==
    ASSUME IInv, EndInv, NEW t \in Threads, NEW v, UNCHANGED bulkVars,
           pc' = [pc EXCEPT ![t] = v],
           imgState' = "building" => imgState = "building",
           v \in Failing => imgState' # "building",
           t = Main /\ v = "finished" /\ imgState' = "building" => finished = count /\ ~mayAdd
    PROVE  EndInv'
<1>1. UNCHANGED <<desc, lastPiece, mayAdd, aborted, finished, count>>
  BY DEF bulkVars
<1>2. pc'[t] = v /\ \A u \in Threads \ {t} : pc'[u] = pc[u]
  BY StateFacts
<1>3. Main \in Threads
  BY DEF Threads
<1> QED BY <1>1, <1>2, <1>3, EndFrame

LEMMA QuietEnd ==
    ASSUME IInv, EndInv, NEW t \in Threads, QuietStep(t)
    PROVE  EndInv'
<1> USE FailingValues
<1>1. CASE OpenCompressor(t) \/ Enter(t) \/ SpuriousWake(t) \/ Wait(t)
  <2>1. /\ UNCHANGED bulkVars /\ imgState' = imgState
        /\ \E v \in {"enter", "loop", "wait"} : pc' = [pc EXCEPT ![t] = v]
    BY <1>1 DEF OpenCompressor, Enter, SpuriousWake, Wait, imageVars
  <2> QED BY <2>1, EndMove
<1>2. CASE Exit(t)
  <2>1. /\ UNCHANGED bulkVars /\ imgState' = imgState /\ pc' = [pc EXCEPT ![t] = Leave(t)]
        /\ (finished = count /\ ~mayAdd) \/ aborted
    BY <1>2 DEF Exit, MayExit, imageVars
  <2>2. Leave(t) \in {"finished", "done"}
    BY DEF Leave
  <2>3. imgState = "building" => finished = count /\ ~mayAdd
    BY <2>1 DEF EndInv
  <2> QED BY <2>1, <2>2, <2>3, EndMove
<1>3. CASE ReturnFailed(t)
  <2>1. /\ UNCHANGED bulkVars /\ imgState' = imgState /\ pc' = [pc EXCEPT ![t] = Leave(t)]
        /\ pc[t] = "failed"
    BY <1>3 DEF ReturnFailed, imageVars
  <2>2. Leave(t) \in {"finished", "done"}
    BY DEF Leave
  <2>3. imgState # "building"
    BY <2>1 DEF EndInv
  <2> QED BY <2>1, <2>2, <2>3, EndMove
<1>4. CASE OpenFail(t) \/ ReadFail(t) \/ WriteFail(t)
  <2>1. /\ UNCHANGED bulkVars /\ imgState' = "fatal_error"
        /\ \E v \in {"abort_exit", "abort_op"} : pc' = [pc EXCEPT ![t] = v]
    BY <1>4 DEF OpenFail, ReadFail, WriteFail, FlagError
  <2> QED BY <2>1, EndMove
<1> QED BY <1>1, <1>2, <1>3, <1>4 DEF QuietStep

LEMMA MainEnd ==
    ASSUME IInv, EndInv,
           UserAbort \/ Finalize \/ SealCheck \/ SealFail \/ \E w \in Workers : Spawn(w)
    PROVE  EndInv'
<1> USE FailingValues
<1>0. Main \in Threads /\ Workers \subseteq Threads
  BY DEF Threads
<1>1. CASE UserAbort \/ SealFail
  <2>1. /\ UNCHANGED bulkVars /\ imgState' = "fatal_error"
        /\ \E v \in {"abort_app", "abort_finalize"} : pc' = [pc EXCEPT ![Main] = v]
    BY <1>1 DEF UserAbort, SealFail, FlagError
  <2> QED BY <1>0, <2>1, EndMove
<1>2. CASE Finalize \/ SealCheck
  <2>1. /\ UNCHANGED bulkVars /\ imgState' = imgState
        /\ \E v \in {"seal", "returned", "seal_enqueue", "enter"} : pc' = [pc EXCEPT ![Main] = v]
    BY <1>2 DEF Finalize, SealCheck, imageVars
  <2> QED BY <1>0, <2>1, EndMove
<1>3. ASSUME NEW w \in Workers, Spawn(w) PROVE EndInv'
  <2>1. UNCHANGED bulkVars /\ imgState' = imgState /\ pc' = [pc EXCEPT ![w] = "start"]
    BY <1>3 DEF Spawn, imageVars
  <2> QED BY <1>0, <2>1, EndMove
<1> QED BY <1>1, <1>2, <1>3

LEMMA EnqueueEnd ==
    ASSUME IInv, EndInv, SealEnqueue \/ \E d \in Submissions : Submit(d)
    PROVE  EndInv'
<1> USE FailingValues
<1>0. Main \in Threads
  BY DEF Threads
<1>1. ASSUME NEW d, EnqueueMove(d),
             \/ d = ClosingDesc
             \/ mayAdd' = mayAdd /\ pc[Main] \in BeforeClosing
      PROVE  EndInv'
  <2>1. PICK c : c = count + 1
    OBVIOUS
  <2>2. /\ c \in Ids /\ UNCHANGED <<imageVars, aborted>> /\ desc'[c] = d
        /\ lastPiece' = IF d.kind = "block" THEN lastPiece ELSE c
    BY <1>1, <2>1, EnqueueFacts
  <2>3. /\ \A u \in Threads : pc'[u] \in Failing => pc[u] \in Failing
        /\ pc'[Main] # "finished" /\ imgState' = imgState /\ aborted' = aborted
    BY <1>1, <2>2 DEF EnqueueMove, imageVars, BeforeClosing
  <2>4. ~mayAdd' /\ ~aborted' => lastPiece' # 0 /\ IsClosing(lastPiece)'
    <3>1. CASE d = ClosingDesc
      <4>1. d.kind = "closing"
        BY <3>1, Zenon DEF ClosingDesc
      <4>2. lastPiece' = c /\ c # 0
        BY <2>2, <4>1, BoundsAreNat DEF Ids
      <4> QED BY <2>2, <4>1, <4>2 DEF IsClosing
    <3>2. CASE mayAdd' = mayAdd /\ pc[Main] \in BeforeClosing
      <4>1. \A e \in Ids : ~IsClosing(e)
        BY <3>2 DEF IInv, PieceInv, BeforeClosing
      <4>2. lastPiece # 0 => lastPiece \in Ids
        BY <1>1, <2>1, EnqueueFacts
      <4>3. mayAdd \/ aborted
        BY <4>1, <4>2 DEF EndInv
      <4> QED BY <2>3, <3>2, <4>3
    <3> QED BY <1>1, <3>1, <3>2
  <2>5. \A u \in Threads : pc'[u] \in Failing => imgState' # "building"
    BY <2>3 DEF EndInv, Failing
  <2> QED BY <2>3, <2>4, <2>5 DEF EndInv, Failing
<1>2. CASE SealEnqueue
  BY <1>1, <1>2, SealEnqueueMove
<1>3. ASSUME NEW d \in Submissions, Submit(d) PROVE EndInv'
  BY <1>1, <1>3, SubmitMove DEF Submit, BeforeClosing
<1> QED BY <1>2, <1>3

LEMMA AbortEnd ==
    ASSUME IInv, EndInv, NEW t \in Threads, Abort(t)
    PROVE  EndInv'
<1>1. imgState # "building" /\ imgState' = imgState /\ aborted' = TRUE
  BY DEF Abort, EndInv, imageVars
<1> QED BY <1>1 DEF EndInv

\* Work done by a thread of the pipeline.
LEMMA WorkEnd ==
    ASSUME IInv, PackInv, EndInv, NEW t \in Threads,
           \/ FinishPiece(t) \/ StartWrite(t) \/ StartCompress(t) \/ AssignBlock(t)
           \/ AssignPiece(t) \/ AssignFail(t) \/ Deduplicate(t) \/ StartRead(t)
           \/ ReadDone(t) \/ CompressDone(t) \/ WriteDone(t)
    PROVE  EndInv'
<1> USE FailingValues
<1>0. Main \in Threads
  BY DEF Threads
<1>1. /\ UNCHANGED <<desc, lastPiece, mayAdd, aborted, count>>
      /\ imgState' = "building" => imgState = "building"
  BY DEF FinishPiece, StartWrite, StartCompress, AssignBlock, AssignPiece, AssignFail,
         Deduplicate, StartRead, ReadDone, CompressDone, WriteDone, listVars, imageVars, FlagError
<1>2. /\ pc'[t] \in {"loop", "read", "compress", "write"}
            \/ (pc'[t] = "abort_op" /\ imgState' = "fatal_error")
      /\ \A u \in Threads \ {t} : pc'[u] = pc[u] \/ pc'[u] = "enter"
      /\ finished = count => finished' = finished
  <2>1. CASE FinishPiece(t)
    <3>1. PICK c : c = Head(workq["write"])
      OBVIOUS
    <3>2. /\ c = finished + 1 /\ c <= count /\ pc'[t] = "loop"
          /\ \A u \in Threads \ {t} : pc'[u] = pc[u] \/ (pc[u] = "wait" /\ pc'[u] = "enter")
      BY <2>1, <3>1, FinishPieceFacts
    <3>3. finished # count
      BY <3>2, QueueFacts
    <3> QED BY <3>2, <3>3
  <2>2. CASE WriteDone(t)
    <3>1. PICK c : c = cur[t]
      OBVIOUS
    <3>2. /\ c = finished + 1 /\ c <= count /\ pc'[t] = "loop"
          /\ \A u \in Threads \ {t} : pc'[u] = pc[u] \/ (pc[u] = "wait" /\ pc'[u] = "enter")
      BY <2>2, <3>1, WriteDoneFacts
    <3>3. finished # count
      BY <3>2, QueueFacts
    <3> QED BY <3>2, <3>3
  <2>3. CASE AssignBlock(t) \/ AssignPiece(t) \/ Deduplicate(t)
    BY <2>3 DEF AssignBlock, AssignPiece, Deduplicate
  <2>4. CASE StartWrite(t) \/ StartCompress(t)
    BY <2>4, StateFacts DEF StartWrite, StartCompress
  <2>5. CASE AssignFail(t)
    BY <2>5, StateFacts DEF AssignFail, FlagError
  <2>6. CASE StartRead(t)
    <3>1. finished' = finished /\ pc[t] = "loop"
      BY <2>6 DEF StartRead
    <3> QED BY <2>6, <3>1, StartReadFacts
  <2>7. CASE ReadDone(t)
    BY <2>7, StateFacts DEF ReadDone
  <2>8. CASE CompressDone(t)
    BY <2>8, StateFacts DEF CompressDone
  <2> QED BY <2>1, <2>2, <2>3, <2>4, <2>5, <2>6, <2>7, <2>8
<1>3. \A u \in Threads : pc'[u] \in Failing => pc[u] \in Failing \/ imgState' # "building"
  BY <1>2
<1>4. pc'[Main] = "finished" => pc[Main] = "finished"
  BY <1>0, <1>2
<1> QED BY <1>1, <1>2, <1>3, <1>4, EndFrame

LEMMA NextEnd == IInv /\ PackInv /\ EndInv /\ [Next]_vars => EndInv'
<1> SUFFICES ASSUME IInv, PackInv, EndInv, [Next]_vars PROVE EndInv'
  OBVIOUS
<1>1. CASE UNCHANGED vars
  <2>1. UNCHANGED <<desc, lastPiece, mayAdd, aborted, finished, count, pc, imgState>>
    BY <1>1 DEF vars, bulkVars, imageVars
  <2> QED BY <2>1, EndFrame
<1>2. ASSUME NEW t \in Threads, ThreadStep(t) \/ SpuriousWake(t) PROVE EndInv'
  BY <1>2, WorkEnd, AbortEnd, QuietEnd DEF ThreadStep, LoopStep, QuietStep
<1> QED BY <1>1, <1>2, MainEnd, EnqueueEnd DEF Next, PipelineStep, SealStep

-----------------------------------------------------------------------------
(* The invariant of the image.                                             *)

ImageInv == CachedInv /\ ContentInv /\ PlaceInv /\ EndInv

LEMMA InitImage == Init => ImageInv
<1> SUFFICES ASSUME Init PROVE ImageInv
  OBVIOUS
<1>1. /\ desc = [c \in Ids |-> UnusedDesc] /\ state = [c \in Ids |-> ChunkNone]
      /\ flush = [c \in Ids |-> FALSE] /\ size = DataStart /\ disk = <<>>
      /\ mayAdd = TRUE /\ aborted = FALSE /\ imgState = "building"
      /\ pc = [t \in Threads |-> IF t = Main THEN "app" ELSE "unspawned"]
  BY Zenon DEF Init
<1>2. \A c \in Ids : ~IsBlock(c) /\ ~IsPiece(c) /\ ~WritesBlock(c)
  <2>1. UnusedDesc.kind = "unused"
    BY Zenon DEF UnusedDesc
  <2> QED BY <1>1, <2>1 DEF IsBlock, IsPiece, WritesBlock
<1>3. CachedInv /\ ContentInv
  BY <1>2 DEF CachedInv, ContentInv
<1>4. PlaceInv
  <2>1. \A t \in Threads : pc[t] # "write"
    BY <1>1
  <2>2. DOMAIN disk = {} /\ size = DiskEnd
    BY <1>1 DEF DiskEnd
  <2> QED BY <2>1, <2>2 DEF PlaceInv, DiskShape
<1>5. EndInv
  <2>1. \A t \in Threads : pc[t] \notin Failing
    BY <1>1, FailingValues
  <2>2. Main \in Threads /\ pc[Main] # "finished"
    BY <1>1 DEF Threads
  <2> QED BY <1>1, <2>1, <2>2 DEF EndInv, Failing
<1> QED BY <1>3, <1>4, <1>5 DEF ImageInv

\* Bytes stay in memory until they are compressed, a block is written as it was
\* compressed, behind the one before it, and nobody leaves the pipeline too early.
THEOREM ImageInvariant == Spec => []ImageInv
<1>1. Init => ImageInv
  BY InitImage
<1>2. IInv /\ PackInv /\ ImageInv /\ [Next]_vars => ImageInv'
  BY NextCached, NextContent, NextPlace, NextEnd DEF ImageInv
<1> QED BY <1>1, <1>2, PipelineInvariant, PackingInvariant, PTL DEF Spec

\* What IInv needs besides, in one: DataInv is inductive on top of IInv.
THEOREM DataInvariant == Spec => []DataInv
<1>1. PackInv /\ ImageInv => DataInv
  BY DEF PackInv, ImageInv, DataInv
<1> QED BY <1>1, PackingInvariant, ImageInvariant, PTL

\* The blocks in the image follow each other without gap or overlap, whichever threads
\* write them, and a place is reserved for the one writer alone.
THEOREM BlocksContiguous == Spec => []DiskContiguous
<1>1. IInv /\ ImageInv => DiskContiguous
  <2> SUFFICES ASSUME IInv, ImageInv PROVE DiskContiguous
    OBVIOUS
  <2>1. PlaceInv
    BY DEF ImageInv
  <2>2. ASSUME NEW i \in 1 .. Len(disk) - 1
        PROVE  disk[i + 1].offset = disk[i].offset + disk[i].size
    <3>1. disk \in Seq(ImageBlockType)
      BY DEF IInv, TypeOK
    <3>2. PICK j : j = i + 1
      OBVIOUS
    <3>3. j \in DOMAIN disk /\ j # 1 /\ j - 1 = i
      BY <3>1, <3>2
    <3> QED BY <2>1, <3>2, <3>3 DEF PlaceInv, DiskShape
  <2>3. (\A t \in Threads : pc[t] # "write") /\ imgState = "building" => size = DiskEnd
    BY <2>1 DEF PlaceInv, DiskShape
  <2>4. \A t \in Threads : pc[t] = "write" =>
           ImageBlockOf(cur[t]).offset = DiskEnd /\ size = DiskEnd + ImageBlockOf(cur[t]).size
    BY <2>1 DEF PlaceInv, DiskShape
  <2> QED BY <2>2, <2>3, <2>4 DEF DiskContiguous, DiskEnd, LastOf
<1> QED BY <1>1, PipelineInvariant, ImageInvariant, PTL

LEMMA CompressingFacts ==
    ASSUME IInv, NEW t \in Threads, pc[t] = "compress"
    PROVE  /\ cur[t] \in Ids /\ cur[t] <= count /\ WritesBlock(cur[t])
           /\ state[cur[t]] = ChunkAssigned /\ IsAssigned(cur[t])
<1>1. cur[t] \in Ids /\ cur[t] <= count /\ state[cur[t]] = ChunkAssigned
  BY QueueFacts DEF Holding, ExpectedState
<1> QED BY <1>1 DEF IInv, StageInv, IsAssigned, ChunkAssigned

LEMMA BytesArePresent == IInv /\ PackInv /\ ImageInv => BytesPresent
<1> SUFFICES ASSUME IInv, PackInv, ImageInv PROVE BytesPresent
  OBVIOUS
<1> USE DEF ChunkRead, ChunkAssigned, ChunkWritable
<1>0. CachedInv /\ ContentInv
  BY DEF ImageInv
<1>1. ASSUME NEW t \in Threads, pc[t] = "compress", NEW i \in DOMAIN SourcesOf(cur[t])
      PROVE  cached[SourcesOf(cur[t])[i]]
  <2>1. PICK c : c = cur[t]
    OBVIOUS
  <2>2. c \in Ids /\ WritesBlock(c) /\ state[c] = ChunkAssigned
    BY <1>1, <2>1, CompressingFacts
  <2>3. PICK e : e = SourcesOf(c)[i]
    OBVIOUS
  <2>4. e \in Elems(SourcesOf(c)) /\ e \in Ids
    BY <1>1, <2>1, <2>2, <2>3, SourcesFacts DEF Elems
  <2>5. CASE IsBlock(c)
    <3>1. e = c
      BY <2>2, <2>4, <2>5, SourcesFacts
    <3> QED BY <1>0, <2>1, <2>2, <2>3, <2>5, <3>1 DEF CachedInv
  <2>6. CASE ~IsBlock(c)
    <3>1. flush[c] /\ IsPiece(e) /\ IsAssigned(e) /\ fragOf[e] = FlushedBlock(c)
      BY <2>2, <2>4, <2>6, SourcesFacts
    <3>2. ASSUME ~cached[e] PROVE FALSE
      <4>1. state[e] >= ChunkRead
        BY <2>4, <3>1, StateFacts DEF IsAssigned
      <4>2. PICK d \in Ids : flush[d] /\ FlushedBlock(d) = fragOf[e] /\ state[d] >= ChunkWritable
        BY <1>0, <2>4, <3>1, <3>2, <4>1 DEF CachedInv
      <4>3. d = c
        BY <2>2, <3>1, <4>2, FlushOnce
      <4> QED BY <2>2, <4>2, <4>3
    <3> QED BY <2>1, <2>3, <3>2
  <2> QED BY <2>5, <2>6
<1>2. ASSUME NEW t \in Threads, pc[t] = "write" PROVE ImageBlockOf(cur[t]).content # <<>>
  <2>1. PICK c : c = cur[t]
    OBVIOUS
  <2>2. c \in Ids /\ WritesBlock(c) /\ state[c] = ChunkWritable
    BY <1>2, <2>1, WriterFacts
  <2>3. PICK blk : blk = ImageBlockOf(c)
    OBVIOUS
  <2>4. blk \in ImageBlockType /\ [blk EXCEPT !.offset = -1] = Compressed(c)
    BY <1>0, <2>2, <2>3, ImageBlockFacts DEF ContentInv, WrittenContent
  <2>5. [blk EXCEPT !.offset = -1].content = blk.content
    BY <2>4 DEF ImageBlockType
  <2>6. blk.content = BytesOf(SourcesOf(c))
    BY <2>2, <2>4, <2>5, CompressedFacts
  <2>7. 1 \in DOMAIN SourcesOf(c)
    BY <2>2, SourcesFacts
  <2>8. DOMAIN BytesOf(SourcesOf(c)) = DOMAIN SourcesOf(c)
    BY DEF BytesOf
  <2>9. DOMAIN (<<>>) = {}
    OBVIOUS
  <2> QED BY <2>1, <2>3, <2>6, <2>7, <2>8, <2>9
<1>3. \A c, d \in Ids : c # d /\ flush[c] /\ flush[d] => FlushedBlock(c) # FlushedBlock(d)
  BY FlushOnce
<1> QED BY <1>1, <1>2, <1>3 DEF BytesPresent

\* No chunk is compressed before its bytes are read or after they are freed, no block is
\* written without its bytes, and no fragment block is flushed twice.
THEOREM BytesAlwaysPresent == Spec => []BytesPresent
BY BytesArePresent, PipelineInvariant, PackingInvariant, ImageInvariant, PTL

\* A thread that goes on compressing keeps its chunk, and what it compresses is left alone.
LEMMA CompressionUndisturbed ==
    ASSUME IInv, PackInv, [Next]_vars, NEW t \in Threads, pc[t] = "compress", pc'[t] = "compress"
    PROVE  cur'[t] = cur[t] /\ KeepsBlock(cur[t])
<1> USE DEF ChunkNone, ChunkAssigned, ChunkWritable
<1>1. PICK c : c = cur[t]
  OBVIOUS
<1>2. c \in Ids /\ WritesBlock(c) /\ state[c] = ChunkAssigned /\ IsAssigned(c) /\ c # 0
  BY <1>1, CompressingFacts, BoundsAreNat DEF Ids
<1>3. \A e : KeepsBlocks(e) /\ e # c => KeepsBlock(c)
  BY <1>2 DEF KeepsBlocks
<1>4. CASE SealEnqueue \/ \E d \in Submissions : Submit(d)
  <2>1. PICK d : EnqueueMove(d)
    BY <1>4, SubmitMove, SealEnqueueMove
  <2>2. KeepsBlocks(0) /\ cur' = cur
    BY <2>1, EnqueueKeeps DEF EnqueueMove
  <2> QED BY <1>1, <1>2, <1>3, <2>2
<1>5. CASE \/ UserAbort \/ Finalize \/ SealCheck \/ SealFail \/ \E w \in Workers : Spawn(w)
           \/ UNCHANGED vars
  <2>1. UNCHANGED bulkVars /\ cur' = cur
    BY <1>5 DEF UserAbort, Finalize, SealCheck, SealFail, Spawn, vars
  <2> QED BY <1>1, <1>2, <1>3, <2>1, StutterKeeps
<1>6. ASSUME NEW u \in Threads, ThreadStep(u) \/ SpuriousWake(u)
      PROVE  cur'[t] = cur[t] /\ KeepsBlock(cur[t])
  <2>1. CASE QuietStep(u)
    <3>1. KeepsBlocks(0)
      BY <2>1, NoBlockKeeps DEF NoBlockStep
    <3>2. cur' = cur \/ (cur' = [cur EXCEPT ![u] = 0] /\ pc[u] = "failed")
      BY <2>1 DEF QuietStep, OpenCompressor, OpenFail, Enter, SpuriousWake, Exit, Wait, ReadFail,
                  WriteFail, ReturnFailed
    <3> QED BY <1>1, <1>2, <1>3, <3>1, <3>2, StateFacts
  <2>2. CASE FinishPiece(u) \/ AssignBlock(u) \/ Deduplicate(u) \/ Abort(u)
    <3>1. KeepsBlocks(0)
      BY <2>2, NoBlockKeeps DEF NoBlockStep
    <3>2. cur' = cur
      BY <2>2 DEF FinishPiece, AssignBlock, Deduplicate, Abort
    <3> QED BY <1>1, <1>2, <1>3, <3>1, <3>2
  <2>3. CASE StartCompress(u) \/ StartRead(u) \/ ReadDone(u)
    <3>1. KeepsBlocks(0)
      BY <2>3, NoBlockKeeps DEF NoBlockStep
    <3>2. u # t
      BY <2>3 DEF StartCompress, StartRead, ReadDone
    <3>3. cur' = cur \/ \E e : cur' = [cur EXCEPT ![u] = e]
      BY <2>3 DEF StartCompress, StartRead, ReadDone
    <3> QED BY <1>1, <1>2, <1>3, <3>1, <3>2, <3>3, StateFacts
  <2>4. CASE AssignPiece(u) \/ AssignFail(u)
    <3>1. KeepsBlocks(0)
      BY <2>4, AssignKeeps, AssignFailKeeps
    <3>2. cur' = cur
      BY <2>4 DEF AssignPiece, AssignFail
    <3> QED BY <1>1, <1>2, <1>3, <3>1, <3>2
  <2>5. CASE CompressDone(u)
    <3>1. PICK e : e = cur[u]
      OBVIOUS
    <3>2. KeepsBlocks(e)
      BY <2>5, <3>1, CompressDoneBlocks
    <3>3. pc[u] = "compress" /\ pc'[u] = "loop" /\ \A v \in Threads \ {u} : cur'[v] = cur[v]
      BY <2>5, CompressDoneFacts DEF CompressDone
    <3>4. u # t /\ e # c
      BY <1>1, <3>1, <3>3 DEF IInv, StageInv, Holding
    <3> QED BY <1>1, <1>3, <3>2, <3>3, <3>4
  <2>6. CASE StartWrite(u)
    <3>1. PICK e : e = Head(workq["write"])
      OBVIOUS
    <3>2. KeepsBlocks(e)
      BY <2>6, <3>1, StartWriteBlocks
    <3>3. state[e] = ChunkWritable /\ pc'[u] = "write" /\ \A v \in Threads \ {u} : cur'[v] = cur[v]
      BY <2>6, <3>1, StartWriteFacts
    <3>4. u # t /\ e # c
      BY <1>2, <3>3
    <3> QED BY <1>1, <1>3, <3>2, <3>3, <3>4
  <2>7. CASE WriteDone(u)
    <3>1. PICK e : e = cur[u]
      OBVIOUS
    <3>2. KeepsBlocks(e)
      BY <2>7, <3>1, WriteDoneBlocks
    <3>3. state[e] = ChunkWritable /\ pc'[u] = "loop" /\ \A v \in Threads \ {u} : cur'[v] = cur[v]
      BY <2>7, <3>1, WriteDoneFacts
    <3>4. u # t /\ e # c
      BY <1>2, <3>3
    <3> QED BY <1>1, <1>3, <3>2, <3>3, <3>4
  <2> QED BY <1>6, <2>1, <2>2, <2>3, <2>4, <2>5, <2>6, <2>7 DEF ThreadStep, LoopStep, QuietStep
<1> QED BY <1>4, <1>5, <1>6 DEF Next, PipelineStep, SealStep

\* While a block is compressed without the lock, no other thread touches its pieces,
\* frees their bytes or places it.
THEOREM SourcesUndisturbed == Spec => NoRaceOnSources
<1>1. IInv /\ PackInv /\ BytesPresent /\ BytesPresent' /\ [Next]_vars =>
        [\A t \in Threads : pc[t] = "compress" /\ pc'[t] = "compress" =>
          /\ SourcesOf(cur[t])' = SourcesOf(cur[t])
          /\ \A i \in DOMAIN SourcesOf(cur[t]) :
                cached'[SourcesOf(cur[t])[i]] = cached[SourcesOf(cur[t])[i]]
          /\ ImageBlockOf(cur[t])' = ImageBlockOf(cur[t])]_vars
  <2> SUFFICES ASSUME IInv, PackInv, BytesPresent, BytesPresent', [Next]_vars,
                      NEW t \in Threads, pc[t] = "compress", pc'[t] = "compress"
               PROVE  /\ SourcesOf(cur[t])' = SourcesOf(cur[t])
                      /\ \A i \in DOMAIN SourcesOf(cur[t]) :
                            cached'[SourcesOf(cur[t])[i]] = cached[SourcesOf(cur[t])[i]]
                      /\ ImageBlockOf(cur[t])' = ImageBlockOf(cur[t])
    OBVIOUS
  <2>1. PICK c : c = cur[t]
    OBVIOUS
  <2>2. cur'[t] = c /\ KeepsBlock(c)
    BY <2>1, CompressionUndisturbed
  <2>3. SourcesOf(c)' = SourcesOf(c) /\ ImageBlockOf(c)' = ImageBlockOf(c)
    BY <2>2 DEF KeepsBlock
  <2>4. SourcesOf(cur[t])' = SourcesOf(c)' /\ ImageBlockOf(cur[t])' = ImageBlockOf(c)'
    BY <2>2 DEF SourcesOf, ImageBlockOf, IsBlock, FlushedBlock
  <2>5. ASSUME NEW i \in DOMAIN SourcesOf(c)
        PROVE  cached'[SourcesOf(c)[i]] = cached[SourcesOf(c)[i]]
    <3>1. PICK e : e = SourcesOf(c)[i]
      OBVIOUS
    <3>2. cached[e]
      BY <2>1, <2>5, <3>1 DEF BytesPresent
    <3>3. cached'[SourcesOf(cur[t])'[i]]
      BY <2>3, <2>4, <2>5 DEF BytesPresent
    <3>4. cached'[e]
      BY <2>3, <2>4, <3>1, <3>3
    <3>5. e \in Ids
      BY <2>1, <2>5, <3>1, CompressingFacts, SourcesFacts DEF Elems
    <3>6. cached[e] \in BOOLEAN /\ cached'[e] \in BOOLEAN
      BY <3>5, NextInv DEF IInv, TypeOK
    <3> QED BY <3>1, <3>2, <3>4, <3>6
  <2> QED BY <2>1, <2>3, <2>4, <2>5
<1> QED BY <1>1, PipelineInvariant, PackingInvariant, BytesAlwaysPresent, PTL DEF Spec, NoRaceOnSources

-----------------------------------------------------------------------------
(* No chunk is lost.                                                       *)

\* Chunk c is finished, or somebody will come back to it.
Accounted(c) ==
    \/ state[c] = ChunkFinished
    \/ \E s \in Stages : c \in Elems(workq[s])
    \/ \E t \in Threads : pc[t] \in Holding /\ cur[t] = c
    \/ WaitsForPredecessor(c)

\* What a step that moves chunk c on does for the other chunks, in particular for the
\* one that has been waiting for it.
LeavesOthers(c) ==
    /\ c \in Ids /\ UNCHANGED <<desc, prevPiece, count>>
    /\ \A d \in Ids \ {c} : state'[d] = state[d]
    /\ \A s \in Stages : \A d \in Elems(workq[s]) : d # c => d \in Elems(workq'[s])
    /\ \A t \in Threads : pc[t] \in Holding /\ cur[t] # c => pc'[t] = pc[t] /\ cur'[t] = cur[t]
    /\ IsAssigned(c)' => IsAssigned(c) \/
          \A d \in Ids : state[d] = ChunkDeduplicated /\ prevPiece[d] = c => d \in Elems(workq'["assign"])
    /\ state'[c] = ChunkFinished =>
          \A d \in Ids : d = c + 1 /\ d <= count /\ state[d] = ChunkWritable
             => d \in Elems(workq'["write"])

LEMMA OthersAccounted ==
    ASSUME IInv, PackInv, NEW c, LeavesOthers(c), NEW d \in Ids, d <= count, d # c, Accounted(d)
    PROVE  Accounted(d)'
<1> USE DEF ChunkDeduplicated, ChunkAssigned, ChunkWritable, ChunkFinished
<1>0. /\ c \in Ids /\ UNCHANGED <<desc, prevPiece>> /\ state'[d] = state[d]
      /\ "assign" \in Stages /\ "write" \in Stages
  BY DEF LeavesOthers, Stages
<1>1. CASE state[d] = ChunkFinished
  BY <1>0, <1>1 DEF Accounted
<1>2. CASE \E s \in Stages : d \in Elems(workq[s])
  BY <1>2 DEF LeavesOthers, Accounted
<1>3. CASE \E t \in Threads : pc[t] \in Holding /\ cur[t] = d
  BY <1>3 DEF LeavesOthers, Accounted
<1>4. CASE state[d] = ChunkDeduplicated /\ ~IsBlock(d) /\ ~PredecessorAssigned(d)
  <2>1. PICK p : p = prevPiece[d]
    OBVIOUS
  <2>2. p # 0 /\ ~(state[p] >= ChunkAssigned)
    BY <1>4, <2>1 DEF PredecessorAssigned
  <2>3. p \in Ids
    BY <2>1, <2>2, BoundsAreNat DEF IInv, TypeOK, Ids, Ids0
  <2>4. CASE state'[p] >= ChunkAssigned
    <3>1. p = c
      BY <2>2, <2>3, <2>4 DEF LeavesOthers
    <3>2. IsAssigned(c)' /\ ~IsAssigned(c)
      BY <2>2, <2>4, <3>1 DEF IsAssigned
    <3>3. d \in Elems(workq'["assign"])
      BY <1>4, <2>1, <3>1, <3>2 DEF LeavesOthers
    <3> QED BY <1>0, <3>3 DEF Accounted
  <2>5. CASE ~(state'[p] >= ChunkAssigned)
    <3>1. ~PredecessorAssigned(d)' /\ ~IsBlock(d)'
      BY <1>0, <1>4, <2>1, <2>2, <2>5 DEF PredecessorAssigned, IsBlock
    <3> QED BY <1>0, <1>4, <3>1 DEF Accounted, WaitsForPredecessor
  <2> QED BY <2>4, <2>5
<1>5. CASE state[d] = ChunkWritable /\ d > 1 /\ state[d - 1] # ChunkFinished
  <2>1. d - 1 \in Ids
    BY <1>5, BoundsAreNat DEF Ids
  <2>2. CASE state'[d - 1] = ChunkFinished
    <3>1. d - 1 = c /\ d = c + 1
      BY <1>0, <1>5, <2>1, <2>2, BoundsAreNat DEF LeavesOthers, Ids
    <3>2. d \in Elems(workq'["write"])
      BY <1>5, <2>2, <3>1 DEF LeavesOthers
    <3> QED BY <1>0, <3>2 DEF Accounted
  <2>3. CASE state'[d - 1] # ChunkFinished
    BY <1>0, <1>5, <2>3 DEF Accounted, WaitsForPredecessor
  <2> QED BY <2>2, <2>3
<1> QED BY <1>1, <1>2, <1>3, <1>4, <1>5 DEF Accounted, WaitsForPredecessor

LEMMA LostFrame ==
    ASSUME IInv, PackInv, NoChunkLost, imgState' = "building" => imgState = "building",
           NEW c, LeavesOthers(c), Accounted(c)'
    PROVE  NoChunkLost'
<1> SUFFICES ASSUME imgState' = "building", NEW d \in 1 .. count' PROVE Accounted(d)'
  BY DEF NoChunkLost, Accounted
<1>1. count' = count /\ d \in Ids /\ d <= count
  BY QueueFacts, BoundsAreNat DEF LeavesOthers, Ids
<1>2. Accounted(d)
  BY <1>1 DEF NoChunkLost, Accounted
<1> QED BY <1>1, <1>2, OthersAccounted

\* A step that leaves chunks, queues and holders alone.
LEMMA LostQuiet ==
    ASSUME IInv, NoChunkLost, UNCHANGED bulkVars, imgState' = "building" => imgState = "building",
           \A t \in Threads : pc[t] \in Holding => pc'[t] = pc[t] /\ cur'[t] = cur[t]
    PROVE  NoChunkLost'
<1> SUFFICES ASSUME imgState' = "building", NEW d \in 1 .. count' PROVE Accounted(d)'
  BY DEF NoChunkLost, Accounted
<1>1. UNCHANGED <<count, state, workq, prevPiece, desc>>
  BY DEF bulkVars
<1>2. Accounted(d)
  BY <1>1 DEF NoChunkLost, Accounted
<1>3. WaitsForPredecessor(d) => WaitsForPredecessor(d)'
  BY <1>1 DEF WaitsForPredecessor, IsBlock, PredecessorAssigned
<1> QED BY <1>1, <1>2, <1>3 DEF Accounted

\* Thread t moves chunk c: it held no other, and other threads keep theirs.
LEMMA HoldersKept ==
    ASSUME NEW t \in Threads, NEW c, pc[t] = "loop" \/ cur[t] = c,
           \A u \in Threads \ {t} : cur'[u] = cur[u]
              /\ (pc'[u] = pc[u] \/ (pc[u] = "wait" /\ pc'[u] = "enter"))
    PROVE  \A u \in Threads : pc[u] \in Holding /\ cur[u] # c => pc'[u] = pc[u] /\ cur'[u] = cur[u]
BY DEF Holding

\* Stages before assignment.
LEMMA EarlyAccounted ==
    ASSUME IInv, PackInv, NEW t \in Threads, StartRead(t) \/ ReadDone(t) \/ Deduplicate(t)
    PROVE  \E c : LeavesOthers(c) /\ Accounted(c)'
<1> USE DEF ChunkNone, ChunkRead, ChunkDeduplicated, ChunkAssigned, ChunkFinished
<1>0. /\ \A s \in {"read", "dedup", "assign", "compress", "write"} : s \in Stages
      /\ UNCHANGED <<desc, prevPiece, count>>
  BY DEF StartRead, ReadDone, Deduplicate, listVars, Stages
<1>1. CASE StartRead(t)
  <2>1. PICK c : c = Head(workq["read"])
    OBVIOUS
  <2>2. /\ c \in Ids /\ state[c] = ChunkNone
        /\ IsClosing(c) => /\ StateStep(c, ChunkRead) /\ UNCHANGED <<pc, cur>>
                           /\ Added(Pop(workq, "read"), workq', "dedup", c)
        /\ ~IsClosing(c) => /\ state' = state /\ workq' = Pop(workq, "read")
                            /\ pc'[t] = "read" /\ cur'[t] = c
                            /\ \A u \in Threads \ {t} : pc'[u] = pc[u] /\ cur'[u] = cur[u]
        /\ Removed(workq, Pop(workq, "read"), "read", c)
    BY <1>1, <2>1, StartReadFacts
  <2>3. pc[t] = "loop"
    BY <1>1 DEF StartRead
  <2>4. \A s \in Stages : \A d \in Elems(workq[s]) : d # c => d \in Elems(workq'[s])
    BY <2>2 DEF Removed, Added
  <2>5. \A u \in Threads : pc[u] \in Holding /\ cur[u] # c => pc'[u] = pc[u] /\ cur'[u] = cur[u]
    BY <2>2, <2>3, HoldersKept
  <2>6. /\ state'[c] \in {ChunkNone, ChunkRead}
        /\ \A d \in Ids \ {c} : state'[d] = state[d]
    BY <2>2 DEF StateStep
  <2>7. LeavesOthers(c)
    BY <1>0, <2>2, <2>4, <2>5, <2>6 DEF LeavesOthers, IsAssigned
  <2>8. CASE IsClosing(c)
    <3>1. c \in Elems(workq'["dedup"])
      BY <1>0, <2>2, <2>8 DEF Added
    <3> QED BY <1>0, <2>7, <3>1 DEF Accounted
  <2>9. CASE ~IsClosing(c)
    <3>1. pc'[t] \in Holding /\ cur'[t] = c
      BY <2>2, <2>9 DEF Holding
    <3> QED BY <2>7, <3>1 DEF Accounted
  <2> QED BY <2>8, <2>9
<1>2. CASE ReadDone(t)
  <2>1. PICK c : c = cur[t]
    OBVIOUS
  <2>2. /\ c \in Ids /\ StateStep(c, ChunkRead) /\ Added(workq, workq', "dedup", c)
        /\ \A u \in Threads \ {t} : pc'[u] = pc[u] /\ cur'[u] = cur[u]
    BY <1>2, <2>1, ReadDoneFacts
  <2>3. \A s \in Stages : \A d \in Elems(workq[s]) : d # c => d \in Elems(workq'[s])
    BY <2>2 DEF Added
  <2>4. \A u \in Threads : pc[u] \in Holding /\ cur[u] # c => pc'[u] = pc[u] /\ cur'[u] = cur[u]
    BY <2>1, <2>2, HoldersKept
  <2>5. state'[c] = ChunkRead /\ \A d \in Ids \ {c} : state'[d] = state[d]
    BY <2>2 DEF StateStep
  <2>6. LeavesOthers(c)
    BY <1>0, <2>2, <2>3, <2>4, <2>5 DEF LeavesOthers, IsAssigned
  <2>7. c \in Elems(workq'["dedup"])
    BY <1>0, <2>2 DEF Added
  <2> QED BY <1>0, <2>6, <2>7 DEF Accounted
<1>3. CASE Deduplicate(t)
  <2>1. PICK c : c = Head(workq["dedup"])
    OBVIOUS
  <2>2. /\ c \in Ids /\ state[c] = ChunkRead /\ StateStep(c, ChunkDeduplicated)
        /\ Removed(workq, Pop(workq, "dedup"), "dedup", c)
        /\ IsBlock(c) \/ PredecessorAssigned(c) => Added(Pop(workq, "dedup"), workq', "assign", c)
        /\ ~(IsBlock(c) \/ PredecessorAssigned(c)) => workq' = Pop(workq, "dedup")
        /\ UNCHANGED <<pc, cur>>
    BY <1>3, <2>1, DeduplicateFacts
  <2>3. \A s \in Stages : \A d \in Elems(workq[s]) : d # c => d \in Elems(workq'[s])
    <3>1. CASE IsBlock(c) \/ PredecessorAssigned(c)
      BY <2>2, <3>1 DEF Removed, Added
    <3>2. CASE ~(IsBlock(c) \/ PredecessorAssigned(c))
      BY <2>2, <3>2 DEF Removed
    <3> QED BY <3>1, <3>2
  <2>4. state'[c] = ChunkDeduplicated /\ \A d \in Ids \ {c} : state'[d] = state[d]
    BY <2>2 DEF StateStep
  <2>5. LeavesOthers(c)
    BY <1>0, <2>2, <2>3, <2>4 DEF LeavesOthers, IsAssigned
  <2>6. CASE IsBlock(c) \/ PredecessorAssigned(c)
    <3>1. c \in Elems(workq'["assign"])
      BY <1>0, <2>2, <2>6 DEF Added
    <3> QED BY <1>0, <2>5, <3>1 DEF Accounted
  <2>7. CASE ~(IsBlock(c) \/ PredecessorAssigned(c))
    <3>1. prevPiece[c] # 0 /\ ~(state[prevPiece[c]] >= ChunkAssigned)
      BY <2>7 DEF PredecessorAssigned
    <3>2. prevPiece[c] \in Ids /\ prevPiece[c] # c
      <4>1. prevPiece[c] \in Ids0 /\ prevPiece[c] < c
        BY <2>2 DEF IInv, TypeOK, PackInv, ListInv
      <4> QED BY <2>2, <3>1, <4>1, BoundsAreNat DEF Ids, Ids0
    <3>3. ~PredecessorAssigned(c)' /\ ~IsBlock(c)'
      BY <1>0, <2>4, <2>7, <3>1, <3>2 DEF PredecessorAssigned, IsBlock
    <3> QED BY <2>4, <2>5, <3>3 DEF Accounted, WaitsForPredecessor
  <2> QED BY <2>6, <2>7
<1> QED BY <1>1, <1>2, <1>3

\* Assignment, which hands the next piece on.
LEMMA AssignAccounted ==
    ASSUME IInv, PackInv, NEW t \in Threads, AssignBlock(t) \/ AssignPiece(t)
    PROVE  \E c : LeavesOthers(c) /\ Accounted(c)'
<1> USE DEF ChunkNone, ChunkRead, ChunkDeduplicated, ChunkAssigned, ChunkWritable, ChunkFinished
<1>0. /\ \A s \in {"read", "dedup", "assign", "compress", "write"} : s \in Stages
      /\ UNCHANGED <<desc, prevPiece, count, pc, cur>>
  BY DEF AssignBlock, AssignPiece, listVars, Stages
<1>1. PICK c : c = Head(workq["assign"])
  OBVIOUS
<1>2. CASE AssignBlock(t)
  <2>1. /\ c \in Ids /\ StateStep(c, ChunkAssigned) /\ IsBlock(c)
        /\ Removed(workq, Pop(workq, "assign"), "assign", c)
        /\ Added(Pop(workq, "assign"), workq', "compress", c)
    BY <1>1, <1>2, AssignBlockFacts
  <2>2. \A s \in Stages : \A d \in Elems(workq[s]) : d # c => d \in Elems(workq'[s])
    BY <2>1 DEF Removed, Added
  <2>3. state'[c] = ChunkAssigned /\ \A d \in Ids \ {c} : state'[d] = state[d]
    BY <2>1 DEF StateStep
  <2>4. \A d \in Ids : prevPiece[d] # c
    BY <2>1, BoundsAreNat DEF IInv, PieceInv, IsBlock, Ids
  <2>5. LeavesOthers(c)
    BY <1>0, <2>1, <2>2, <2>3, <2>4 DEF LeavesOthers
  <2>6. c \in Elems(workq'["compress"])
    BY <1>0, <2>1 DEF Added
  <2> QED BY <1>0, <2>5, <2>6 DEF Accounted
<1>3. CASE AssignPiece(t)
  <2>1. /\ c \in Ids /\ AssignQueue(c)
        /\ StateStep(c, IF MustFlush(c) THEN ChunkAssigned ELSE ChunkWritable)
    BY <1>1, <1>3, AssignPieceFacts
  <2>2. \A s \in Stages : \A d \in Elems(workq[s]) : d # c => d \in Elems(workq'[s])
    BY <2>1 DEF AssignQueue
  <2>3. /\ state'[c] = IF MustFlush(c) THEN ChunkAssigned ELSE ChunkWritable
        /\ \A d \in Ids \ {c} : state'[d] = state[d]
    BY <2>1 DEF StateStep
  <2>4. ASSUME NEW d \in Ids, state[d] = ChunkDeduplicated, prevPiece[d] = c
        PROVE  d \in Elems(workq'["assign"])
    <3>1. c # 0 /\ d # 0
      BY <2>1, BoundsAreNat DEF Ids
    <3>2. nextPiece[c] = d
      BY <2>4, <3>1 DEF PackInv, ListInv
    <3> QED BY <2>1, <2>4, <3>1, <3>2 DEF AssignQueue
  <2>5. state'[c] # ChunkFinished
    BY <2>3
  <2>6. LeavesOthers(c)
    BY <1>0, <2>1, <2>2, <2>3, <2>4, <2>5 DEF LeavesOthers
  <2>7. CASE MustFlush(c)
    <3>1. c \in Elems(workq'["compress"])
      BY <2>1, <2>7 DEF AssignQueue
    <3> QED BY <1>0, <2>6, <3>1 DEF Accounted
  <2>8. CASE ~MustFlush(c) /\ (c = 1 \/ state[c - 1] = ChunkFinished)
    <3>1. c \in Elems(workq'["write"])
      BY <2>1, <2>8 DEF AssignQueue
    <3> QED BY <1>0, <2>6, <3>1 DEF Accounted
  <2>9. CASE ~MustFlush(c) /\ c # 1 /\ state[c - 1] # ChunkFinished
    <3>1. c - 1 \in Ids /\ c - 1 # c /\ c > 1
      BY <2>1, <2>9, BoundsAreNat DEF Ids
    <3>2. state'[c - 1] # ChunkFinished /\ state'[c] = ChunkWritable
      BY <2>3, <2>9, <3>1
    <3> QED BY <2>6, <3>1, <3>2 DEF Accounted, WaitsForPredecessor
  <2> QED BY <2>7, <2>8, <2>9
<1> QED BY <1>2, <1>3

\* Compression and write-out, which hands the next chunk on.
LEMMA LateAccounted ==
    ASSUME IInv, PackInv, NEW t \in Threads,
           StartCompress(t) \/ CompressDone(t) \/ StartWrite(t) \/ FinishPiece(t) \/ WriteDone(t)
    PROVE  \E c : LeavesOthers(c) /\ Accounted(c)'
<1> USE DEF ChunkNone, ChunkRead, ChunkDeduplicated, ChunkAssigned, ChunkWritable, ChunkFinished
<1>0. /\ \A s \in {"read", "dedup", "assign", "compress", "write"} : s \in Stages
      /\ UNCHANGED <<desc, prevPiece, count>>
  BY DEF StartCompress, CompressDone, StartWrite, FinishPiece, WriteDone, listVars, Stages
<1>1. CASE StartCompress(t)
  <2>1. PICK c : c = Head(workq["compress"])
    OBVIOUS
  <2>2. /\ c \in Ids /\ state[c] = ChunkAssigned /\ Removed(workq, workq', "compress", c)
        /\ pc'[t] = "compress" /\ cur'[t] = c
        /\ \A u \in Threads \ {t} : pc'[u] = pc[u] /\ cur'[u] = cur[u]
    BY <1>1, <2>1, StartCompressFacts
  <2>3. state' = state /\ pc[t] = "loop"
    BY <1>1 DEF StartCompress
  <2>4. \A s \in Stages : \A d \in Elems(workq[s]) : d # c => d \in Elems(workq'[s])
    BY <2>2 DEF Removed
  <2>5. \A u \in Threads : pc[u] \in Holding /\ cur[u] # c => pc'[u] = pc[u] /\ cur'[u] = cur[u]
    BY <2>2, <2>3, HoldersKept
  <2>6. LeavesOthers(c)
    BY <1>0, <2>2, <2>3, <2>4, <2>5 DEF LeavesOthers, IsAssigned
  <2> QED BY <2>2, <2>6 DEF Accounted, Holding
<1>2. CASE CompressDone(t)
  <2>1. PICK c : c = cur[t]
    OBVIOUS
  <2>2. /\ c \in Ids /\ state[c] = ChunkAssigned /\ StateStep(c, ChunkWritable)
        /\ IF c = 1 \/ state[c - 1] = ChunkFinished
           THEN c = finished + 1 /\ Added(workq, workq', "write", c)
           ELSE workq' = workq
        /\ \A u \in Threads \ {t} : pc'[u] = pc[u] /\ cur'[u] = cur[u]
    BY <1>2, <2>1, CompressDoneFacts
  <2>3. \A s \in Stages : \A d \in Elems(workq[s]) : d # c => d \in Elems(workq'[s])
    BY <2>2 DEF Added
  <2>4. \A u \in Threads : pc[u] \in Holding /\ cur[u] # c => pc'[u] = pc[u] /\ cur'[u] = cur[u]
    BY <2>1, <2>2, HoldersKept
  <2>5. state'[c] = ChunkWritable /\ \A d \in Ids \ {c} : state'[d] = state[d]
    BY <2>2 DEF StateStep
  <2>6. LeavesOthers(c)
    BY <1>0, <2>2, <2>3, <2>4, <2>5 DEF LeavesOthers, IsAssigned
  <2>7. CASE c = 1 \/ state[c - 1] = ChunkFinished
    <3>1. c \in Elems(workq'["write"])
      BY <1>0, <2>2, <2>7 DEF Added
    <3> QED BY <1>0, <2>6, <3>1 DEF Accounted
  <2>8. CASE ~(c = 1 \/ state[c - 1] = ChunkFinished)
    <3>1. c - 1 \in Ids /\ c - 1 # c /\ c > 1
      BY <2>2, <2>8, BoundsAreNat DEF Ids
    <3>2. state'[c - 1] # ChunkFinished
      BY <2>5, <2>8, <3>1
    <3> QED BY <2>5, <2>6, <3>1, <3>2 DEF Accounted, WaitsForPredecessor
  <2> QED BY <2>7, <2>8
<1>3. CASE StartWrite(t)
  <2>1. PICK c : c = Head(workq["write"])
    OBVIOUS
  <2>2. /\ c \in Ids /\ state[c] = ChunkWritable /\ Removed(workq, workq', "write", c)
        /\ pc'[t] = "write" /\ cur'[t] = c
        /\ \A u \in Threads \ {t} : pc'[u] = pc[u] /\ cur'[u] = cur[u]
    BY <1>3, <2>1, StartWriteFacts
  <2>3. state' = state /\ pc[t] = "loop"
    BY <1>3 DEF StartWrite
  <2>4. \A s \in Stages : \A d \in Elems(workq[s]) : d # c => d \in Elems(workq'[s])
    BY <2>2 DEF Removed
  <2>5. \A u \in Threads : pc[u] \in Holding /\ cur[u] # c => pc'[u] = pc[u] /\ cur'[u] = cur[u]
    BY <2>2, <2>3, HoldersKept
  <2>6. LeavesOthers(c)
    BY <1>0, <2>2, <2>3, <2>4, <2>5 DEF LeavesOthers, IsAssigned
  <2> QED BY <2>2, <2>6 DEF Accounted, Holding
<1>4. ASSUME NEW q, NEW c \in Ids, state[c] = ChunkWritable, StateStep(c, ChunkFinished),
             FinishQueue(q, c), pc[t] = "loop" \/ cur[t] = c,
             \A s \in Stages : \A d \in Elems(workq[s]) : d # c => d \in Elems(q[s]),
             \A u \in Threads \ {t} : cur'[u] = cur[u]
                /\ (pc'[u] = pc[u] \/ (pc[u] = "wait" /\ pc'[u] = "enter"))
      PROVE  LeavesOthers(c) /\ Accounted(c)'
  <2>1. \A s \in Stages : \A d \in Elems(workq[s]) : d # c => d \in Elems(workq'[s])
    BY <1>4 DEF FinishQueue, Added
  <2>2. \A u \in Threads : pc[u] \in Holding /\ cur[u] # c => pc'[u] = pc[u] /\ cur'[u] = cur[u]
    BY <1>4, HoldersKept
  <2>3. state'[c] = ChunkFinished /\ \A d \in Ids \ {c} : state'[d] = state[d]
    BY <1>4 DEF StateStep
  <2>4. ASSUME NEW d \in Ids, d = c + 1, d <= count, state[d] = ChunkWritable
        PROVE  d \in Elems(workq'["write"])
    <3>1. c < count
      BY <2>4, QueueFacts, BoundsAreNat DEF Ids
    <3> QED BY <1>0, <1>4, <2>4, <3>1 DEF FinishQueue, Added
  <2>5. LeavesOthers(c)
    BY <1>0, <1>4, <2>1, <2>2, <2>3, <2>4 DEF LeavesOthers, IsAssigned
  <2> QED BY <2>3, <2>5 DEF Accounted
<1>5. CASE FinishPiece(t)
  <2>1. PICK c : c = Head(workq["write"])
    OBVIOUS
  <2>2. PICK q : q = Pop(workq, "write")
    OBVIOUS
  <2>3. /\ c \in Ids /\ state[c] = ChunkWritable /\ StateStep(c, ChunkFinished)
        /\ Removed(workq, q, "write", c) /\ FinishQueue(q, c) /\ pc[t] = "loop" /\ cur' = cur
        /\ \A u \in Threads \ {t} : pc'[u] = pc[u] \/ (pc[u] = "wait" /\ pc'[u] = "enter")
    BY <1>5, <2>1, <2>2, FinishPieceFacts
  <2>4. \A s \in Stages : \A d \in Elems(workq[s]) : d # c => d \in Elems(q[s])
    BY <2>3 DEF Removed
  <2> QED BY <1>4, <2>3, <2>4
<1>6. CASE WriteDone(t)
  <2>1. PICK c : c = cur[t]
    OBVIOUS
  <2>2. PICK q : q = workq
    OBVIOUS
  <2>3. /\ c \in Ids /\ state[c] = ChunkWritable /\ StateStep(c, ChunkFinished)
        /\ FinishQueue(q, c)
        /\ \A u \in Threads \ {t} : /\ cur'[u] = cur[u]
                                    /\ pc'[u] = pc[u] \/ (pc[u] = "wait" /\ pc'[u] = "enter")
    BY <1>6, <2>1, <2>2, WriteDoneFacts
  <2> QED BY <1>4, <2>1, <2>2, <2>3
<1> QED BY <1>1, <1>2, <1>3, <1>5, <1>6

\* Steps of threads and of the application that touch no chunk: the thread that moves
\* held none, or the step is a failure.
LEMMA QuietLost ==
    ASSUME IInv, NoChunkLost, CalmStep \/ \E t \in Threads : WriteFail(t)
    PROVE  NoChunkLost'
<1>0. /\ pc \in [Threads -> PcValues] /\ cur \in [Threads -> Ids0]
      /\ Main \in Threads /\ Workers \subseteq Threads
  BY DEF IInv, TypeOK, Threads
<1>1. ASSUME NEW t \in Threads, pc[t] \notin Holding, UNCHANGED <<bulkVars, imageVars>>,
             \E v : pc' = [pc EXCEPT ![t] = v], cur' = cur \/ cur' = [cur EXCEPT ![t] = 0]
      PROVE  NoChunkLost'
  <2>1. \A u \in Threads : pc[u] \in Holding => pc'[u] = pc[u] /\ cur'[u] = cur[u]
    BY <1>0, <1>1
  <2> QED BY <1>1, <2>1, LostQuiet DEF imageVars
<1>2. CASE imgState' = "fatal_error"
  BY <1>2 DEF NoChunkLost
<1>3. CASE UNCHANGED vars
  BY <1>3, LostQuiet DEF vars, imageVars
<1>4. ASSUME NEW t \in Threads, QuietStep(t) PROVE NoChunkLost'
  <2>1. CASE OpenCompressor(t) \/ Enter(t) \/ SpuriousWake(t) \/ Wait(t) \/ Exit(t) \/ ReturnFailed(t)
    BY <1>1, <2>1 DEF OpenCompressor, Enter, SpuriousWake, Wait, Exit, ReturnFailed, Holding
  <2>2. CASE OpenFail(t) \/ ReadFail(t) \/ WriteFail(t)
    BY <1>2, <2>2 DEF OpenFail, ReadFail, WriteFail, FlagError
  <2> QED BY <1>4, <2>1, <2>2 DEF QuietStep
<1>5. CASE UserAbort \/ SealFail
  BY <1>2, <1>5 DEF UserAbort, SealFail, FlagError
<1>6. CASE Finalize \/ SealCheck
  BY <1>0, <1>1, <1>6 DEF Finalize, SealCheck, Holding
<1>7. CASE \E w \in Workers : Spawn(w)
  BY <1>0, <1>1, <1>7 DEF Spawn, Holding
<1> QED BY <1>3, <1>4, <1>5, <1>6, <1>7 DEF CalmStep, QuietStep

\* A new chunk is in the read queue, and nothing changes for the others.
LEMMA EnqueueLost ==
    ASSUME IInv, PackInv, NoChunkLost, NEW d, EnqueueMove(d)
    PROVE  NoChunkLost'
<1>1. PICK c : c = count + 1
  OBVIOUS
<1>2. /\ c \in Ids /\ c > count /\ count \in Nat
      /\ \A e \in Ids : e <= c <=> e = c \/ e <= count
      /\ UNCHANGED <<imageVars, state, cur>> /\ count' = c
      /\ \A e \in Ids \ {c} : desc'[e] = desc[e] /\ prevPiece'[e] = prevPiece[e]
      /\ Added(workq, workq', "read", c)
  BY <1>1, EnqueueFacts
<1>3. \A u \in Threads : pc[u] \in Holding => pc'[u] = pc[u] /\ cur'[u] = cur[u]
  BY <1>2 DEF EnqueueMove, BeforeClosing, Holding
<1> SUFFICES ASSUME imgState' = "building", NEW e \in 1 .. count' PROVE Accounted(e)'
  BY DEF NoChunkLost, Accounted
<1>4. e \in Ids /\ (e = c \/ e <= count) /\ e > 0
  BY <1>2, BoundsAreNat DEF Ids
<1>5. CASE e = c
  BY <1>2, <1>5 DEF Accounted, Added, Stages
<1>6. CASE e # c
  <2>1. Accounted(e)
    BY <1>2, <1>4, <1>6 DEF NoChunkLost, Accounted, imageVars
  <2>2. WaitsForPredecessor(e) => WaitsForPredecessor(e)'
    BY <1>2, <1>4, <1>6 DEF WaitsForPredecessor, IsBlock, PredecessorAssigned
  <2>3. \A s \in Stages : e \in Elems(workq[s]) => e \in Elems(workq'[s])
    BY <1>2 DEF Added
  <2> QED BY <1>2, <1>3, <2>1, <2>2, <2>3 DEF Accounted
<1> QED BY <1>5, <1>6

LEMMA NextLost == IInv /\ PackInv /\ EndInv /\ NoChunkLost /\ [Next]_vars => NoChunkLost'
<1> SUFFICES ASSUME IInv, PackInv, EndInv, NoChunkLost, [Next]_vars PROVE NoChunkLost'
  OBVIOUS
<1>1. CASE CalmStep
  BY <1>1, QuietLost
<1>2. CASE SealEnqueue \/ \E d \in Submissions : Submit(d)
  BY <1>2, SubmitMove, SealEnqueueMove, EnqueueLost
<1>3. ASSUME NEW t \in Threads, ThreadStep(t) \/ SpuriousWake(t) PROVE NoChunkLost'
  <2>1. CASE QuietStep(t)
    BY <2>1, QuietLost DEF CalmStep
  <2>2. CASE AssignFail(t)
    BY <2>2 DEF AssignFail, FlagError, NoChunkLost
  <2>3. CASE Abort(t)
    BY <2>3 DEF Abort, EndInv, NoChunkLost, imageVars
  <2>4. CASE StartRead(t) \/ ReadDone(t) \/ Deduplicate(t)
    <3>1. imgState' = imgState
      BY <2>4 DEF StartRead, ReadDone, Deduplicate, imageVars
    <3> QED BY <2>4, <3>1, EarlyAccounted, LostFrame
  <2>5. CASE AssignBlock(t) \/ AssignPiece(t)
    <3>1. imgState' = imgState
      BY <2>5 DEF AssignBlock, AssignPiece, imageVars
    <3> QED BY <2>5, <3>1, AssignAccounted, LostFrame
  <2>6. CASE StartCompress(t) \/ CompressDone(t) \/ StartWrite(t) \/ FinishPiece(t) \/ WriteDone(t)
    <3>1. imgState' = imgState
      BY <2>6 DEF StartCompress, CompressDone, StartWrite, FinishPiece, WriteDone, imageVars
    <3> QED BY <2>6, <3>1, LateAccounted, LostFrame
  <2> QED BY <1>3, <2>1, <2>2, <2>3, <2>4, <2>5, <2>6 DEF ThreadStep, LoopStep, QuietStep
<1> QED BY <1>1, <1>2, <1>3 DEF Next, PipelineStep, SealStep, CalmStep

\* Until something fails, no chunk is forgotten between the queues: whoever makes a
\* chunk wait for its predecessor can rely on the predecessor to queue it.
THEOREM NoChunkIsLost == Spec => []NoChunkLost
<1>1. Init => NoChunkLost
  <2>1. Init => count = 0
    BY DEF Init
  <2> QED BY <2>1 DEF NoChunkLost
<1>2. ImageInv => EndInv
  BY DEF ImageInv
<1> QED BY <1>1, <1>2, NextLost, PipelineInvariant, PackingInvariant, ImageInvariant, PTL DEF Spec

-----------------------------------------------------------------------------
(* What libsqfs_bulkdata_finish leaves.                                    *)

\* A finished block is on disk, not before the end of the headers.
LEMMA FinishedPlace ==
    ASSUME IInv, PackInv, ImageInv, NEW c \in Ids, WritesBlock(c), state[c] = ChunkFinished
    PROVE  ImageBlockOf(c).offset >= DataStart
<1>1. PICK i \in DOMAIN disk : ImageBlockOf(c) = [disk[i] EXCEPT !.content = <<>>]
  BY DEF ImageInv, ContentInv, WrittenContent
<1>2. disk[i] \in ImageBlockType
  BY DEF IInv, TypeOK
<1>3. ImageBlockOf(c).offset = disk[i].offset
  BY <1>1, <1>2 DEF ImageBlockType
<1> QED BY <1>3 DEF ImageInv, PlaceInv, DiskShape

\* Once the closing piece is assigned, every fragment block has its flushing piece.
LEMMA LastBlockFlushed ==
    ASSUME IInv, PackInv, lastPiece # 0, IsClosing(lastPiece), IsAssigned(lastPiece),
           NEW b \in DOMAIN fragments
    PROVE  \E c \in Ids : flush[c] /\ FlushedBlock(c) = b /\ IsAssigned(c)
<1>1. CASE b < Len(fragments)
  BY <1>1 DEF PackInv, FlushInv
<1>2. CASE ~(b < Len(fragments))
  <2>1. fragments \in Seq(FragmentType)
    BY DEF IInv, TypeOK
  <2>2. b = Len(fragments)
    BY <1>2, <2>1
  <2>3. PICK ps : ps = fragments[b].pieces
    OBVIOUS
  <2>4. /\ BlockLayout(b) /\ ps \in Seq(Ids) /\ ps # <<>>
        /\ \A i \in DOMAIN ps : ps[i] \in Ids
    BY <2>3, PiecesFacts DEF PackInv, LayoutInv, BlockLayout
  <2>5. PICK l : l = LastOf(ps)
    OBVIOUS
  <2>6. Len(ps) \in DOMAIN ps
    BY <2>4
  <2>7. l \in Ids /\ IsPiece(l) /\ IsAssigned(l) /\ fragOf[l] = b
    BY <2>3, <2>4, <2>5, <2>6 DEF BlockLayout, LastOf
  <2>8. PICK z : z = lastPiece
    OBVIOUS
  <2>9. z \in Ids /\ InList(z) /\ InList(l) /\ z # l
    <3>1. z \in Ids
      BY <2>8, BoundsAreNat DEF IInv, TypeOK, Ids, Ids0
    <3> QED BY <2>7, <2>8, <3>1 DEF InList, IsPiece, IsClosing
  <2>10. l <= z
    BY <2>7, <2>8, <2>9 DEF PackInv, ListInv
  <2>11. l < z
    BY <2>7, <2>9, <2>10, BoundsAreNat DEF Ids
  <2>12. l <= prevPiece[z] /\ prevPiece[z] \in Ids0
    BY <2>7, <2>9, <2>11 DEF PackInv, ListInv, IInv, TypeOK
  <2>13. prevPiece[z] # 0 /\ prevPiece[z] \in Ids
    BY <2>7, <2>12, BoundsAreNat DEF Ids, Ids0
  <2>14. flush[z]
    BY <2>8, <2>9, <2>13 DEF PackInv, FlushInv
  <2>15. IsPiece(prevPiece[z]) /\ IsAssigned(prevPiece[z])
    BY <2>9, <2>13, <2>14 DEF IInv, FragmentInv, PieceInv, PredecessorAssigned, IsAssigned, IsPiece
  <2>16. prevPiece[z] <= l
    BY <2>2, <2>3, <2>5, <2>13, <2>15 DEF PackInv, LayoutInv
  <2>17. prevPiece[z] = l
    BY <2>7, <2>12, <2>13, <2>16, BoundsAreNat DEF Ids
  <2> QED BY <2>7, <2>8, <2>9, <2>14, <2>17 DEF FlushedBlock
<1> QED BY <1>1, <1>2

LEMMA FinishedFacts ==
    ASSUME IInv, PackInv, ImageInv, pc[Main] = "finished", imgState = "building"
    PROVE  /\ finished = count /\ ~mayAdd
           /\ \A c \in 1 .. count : c \in Ids /\ state[c] = ChunkFinished
           /\ \A b \in DOMAIN fragments :
                 \E c \in Ids : /\ c <= count /\ flush[c] /\ FlushedBlock(c) = b
                                /\ state[c] = ChunkFinished
<1> USE DEF ChunkNone, ChunkRead, ChunkDeduplicated, ChunkAssigned, ChunkWritable, ChunkFinished
<1>1. finished = count /\ ~mayAdd /\ ~aborted
  BY DEF ImageInv, EndInv
<1>2. \A c \in 1 .. count : c \in Ids /\ state[c] = ChunkFinished
  <2>1. ASSUME NEW c \in 1 .. count PROVE c \in Ids /\ c <= finished
    BY <1>1, QueueFacts, BoundsAreNat DEF Ids
  <2> QED BY <2>1 DEF IInv, WriteoutInOrder
<1>3. lastPiece # 0 /\ IsClosing(lastPiece)
  BY <1>1 DEF ImageInv, EndInv
<1>4. lastPiece \in 1 .. count
  <2>1. lastPiece \in Ids0 /\ lastPiece <= count
    BY DEF IInv, TypeOK, PackInv, ListInv
  <2> QED BY <1>3, <2>1, QueueFacts, BoundsAreNat DEF Ids0
<1>5. IsAssigned(lastPiece)
  BY <1>2, <1>4 DEF IsAssigned
<1>6. ASSUME NEW c \in Ids, IsAssigned(c) PROVE c \in 1 .. count
  <2>1. state[c] # ChunkNone
    BY <1>6 DEF IsAssigned
  <2>2. ~(c > count)
    BY <2>1 DEF IInv, UnusedInv
  <2> QED BY <2>2, QueueFacts, BoundsAreNat DEF Ids
<1>7. ASSUME NEW b \in DOMAIN fragments
      PROVE  \E c \in Ids : /\ c <= count /\ flush[c] /\ FlushedBlock(c) = b
                            /\ state[c] = ChunkFinished
  <2>1. PICK c \in Ids : flush[c] /\ FlushedBlock(c) = b /\ IsAssigned(c)
    BY <1>3, <1>5, LastBlockFlushed
  <2>2. c \in 1 .. count /\ state[c] = ChunkFinished
    BY <1>2, <1>6, <2>1
  <2> QED BY <2>1, <2>2
<1> QED BY <1>1, <1>2, <1>7

\* When libsqfs_bulkdata_finish returns to an image without error, every block and
\* every fragment block, the last one included, has been written and has a place, and
\* no thread is left at work.
THEOREM FinishedImageWritten == Spec => []FinishedMeansWritten
<1>1. IInv /\ PackInv /\ ImageInv => FinishedMeansWritten
  <2> SUFFICES ASSUME IInv, PackInv, ImageInv, pc[Main] = "finished", imgState = "building"
               PROVE  /\ finished = count /\ ~mayAdd
                      /\ \A s \in Stages : workq[s] = <<>>
                      /\ \A t \in Threads : pc[t] \notin Holding
                      /\ \A c \in 1 .. count : IsBlock(c) => dst[c].offset >= DataStart
                      /\ \A b \in DOMAIN fragments : fragments[b].dst.offset >= DataStart
    BY DEF FinishedMeansWritten
  <2>1. /\ finished = count /\ ~mayAdd
        /\ \A c \in 1 .. count : c \in Ids /\ state[c] = ChunkFinished
    BY FinishedFacts
  <2>2. \A s \in Stages : ExpectedState[s] # ChunkFinished
    BY DEF ExpectedState, Stages, ChunkNone, ChunkRead, ChunkDeduplicated, ChunkAssigned,
           ChunkWritable, ChunkFinished
  <2>3. \A c \in Ids : c <= count => state[c] = ChunkFinished
    BY <2>1, QueueFacts, BoundsAreNat DEF Ids
  <2>4. ASSUME NEW s \in Stages PROVE workq[s] = <<>>
    <3>1. Elems(workq[s]) = {}
      BY <2>2, <2>3, QueueFacts
    <3>2. workq[s] \in Seq(Ids)
      BY DEF IInv, TypeOK
    <3>3. workq[s] # <<>> => 1 \in DOMAIN workq[s]
      BY <3>2
    <3> QED BY <3>1, <3>3 DEF Elems
  <2>5. ASSUME NEW t \in Threads, pc[t] \in Holding PROVE FALSE
    <3>1. state[cur[t]] = ExpectedState[pc[t]] /\ state[cur[t]] = ChunkFinished
      BY <2>3, <2>5, QueueFacts
    <3> QED BY <2>2, <2>5, <3>1 DEF Holding, Stages
  <2>6. ASSUME NEW c \in 1 .. count, IsBlock(c) PROVE dst[c].offset >= DataStart
    BY <2>1, <2>6, FinishedPlace DEF WritesBlock, ImageBlockOf
  <2>7. ASSUME NEW b \in DOMAIN fragments PROVE fragments[b].dst.offset >= DataStart
    <3>1. PICK c \in Ids : flush[c] /\ FlushedBlock(c) = b /\ state[c] = ChunkFinished
      BY FinishedFacts
    <3>2. ~IsBlock(c) /\ WritesBlock(c)
      BY <3>1, FlushedFacts DEF WritesBlock
    <3> QED BY <3>1, <3>2, FinishedPlace DEF ImageBlockOf
  <2> QED BY <2>1, <2>4, <2>5, <2>6, <2>7
<1> QED BY <1>1, PipelineInvariant, PackingInvariant, ImageInvariant, PTL

-----------------------------------------------------------------------------
(* The blocks of a file lie one behind the other.                          *)

\* A block that has been written keeps its place when another chunk moves on.
LEMMA WrittenKept ==
    ASSUME IInv, NEW e, KeepsBlocks(e), NEW c \in Ids, c # e, IsBlock(c)', state'[c] = ChunkFinished
    PROVE  IsBlock(c) /\ state[c] = ChunkFinished /\ dst'[c] = dst[c]
<1> USE DEF ChunkAssigned, ChunkWritable, ChunkFinished
<1>1. WritesBlock(c)' /\ state'[c] >= ChunkWritable
  BY DEF WritesBlock
<1>2. WritesBlock(c) /\ state[c] >= ChunkWritable
  BY <1>1 DEF KeepsBlocks
<1>3. KeepsBlock(c)
  BY <1>2, StateFacts DEF KeepsBlocks, IsAssigned
<1> QED BY <1>3 DEF KeepsBlock, ImageBlockOf

\* The neighbours of a written block that was not written just now.
LEMMA NeighbourKept ==
    ASSUME IInv, IInv', AdjacentInv, NEW e, KeepsBlocks(e),
           NEW c \in Ids, c # e, c > 1, c - 1 # e, IsBlock(c)', IsBlock(c - 1)',
           state'[c] = ChunkFinished
    PROVE  dst'[c].offset = dst'[c - 1].offset + dst'[c - 1].size
<1>1. c - 1 \in Ids /\ c \in Nat
  BY BoundsAreNat DEF Ids
<1>2. PICK f : f = finished'
  OBVIOUS
<1>3. f \in Nat
  BY <1>2, BoundsAreNat DEF IInv, TypeOK, Ids0
<1>4. c <= f
  BY <1>2 DEF IInv, WriteoutInOrder
<1>5. c - 1 <= f
  BY <1>1, <1>3, <1>4
<1>6. state'[c - 1] = ChunkFinished
  BY <1>1, <1>2, <1>5 DEF IInv, WriteoutInOrder
<1>7. IsBlock(c) /\ state[c] = ChunkFinished /\ dst'[c] = dst[c]
  BY WrittenKept
<1>8. IsBlock(c - 1) /\ dst'[c - 1] = dst[c - 1]
  BY <1>1, <1>6, WrittenKept
<1> QED BY <1>7, <1>8 DEF AdjacentInv

\* A step that writes nothing.
LEMMA AdjacentKept ==
    ASSUME IInv, IInv', AdjacentInv, NEW e, KeepsBlocks(e), e \in Ids => state'[e] # ChunkFinished,
           disk' = disk, finished' = finished \/ finished' = finished + 1
    PROVE  AdjacentInv'
<1> SUFFICES ASSUME NEW c \in Ids, IsBlock(c)', state'[c] = ChunkFinished
             PROVE  /\ c = finished' => dst'[c].offset + dst'[c].size = DiskEnd'
                    /\ c > 1 /\ IsBlock(c - 1)' => dst'[c].offset = dst'[c - 1].offset + dst'[c - 1].size
  BY DEF AdjacentInv
<1>1. c # e
  OBVIOUS
<1>2. IsBlock(c) /\ state[c] = ChunkFinished /\ dst'[c] = dst[c]
  BY <1>1, WrittenKept
<1>3. ASSUME c = finished' PROVE dst'[c].offset + dst'[c].size = DiskEnd'
  <2>1. c <= finished /\ finished \in Nat
    BY <1>2, BoundsAreNat DEF IInv, WriteoutInOrder, TypeOK, Ids0
  <2>2. c = finished
    BY <1>3, <2>1
  <2>3. DiskEnd' = DiskEnd
    BY DEF DiskEnd
  <2> QED BY <1>2, <2>2, <2>3 DEF AdjacentInv
<1>4. ASSUME c > 1, IsBlock(c - 1)'
      PROVE  dst'[c].offset = dst'[c - 1].offset + dst'[c - 1].size
  <2>1. c - 1 \in Ids /\ c \in Nat
    BY <1>4, BoundsAreNat DEF Ids
  <2>2. PICK f : f = finished'
    OBVIOUS
  <2>3. f \in Nat /\ c <= f
    BY <2>2, BoundsAreNat DEF IInv, TypeOK, Ids0, WriteoutInOrder
  <2>4. c - 1 <= f
    BY <2>1, <2>3
  <2>5. c - 1 # e
    BY <2>1, <2>2, <2>4 DEF IInv, WriteoutInOrder
  <2> QED BY <1>1, <1>4, <2>5, NeighbourKept
<1> QED BY <1>3, <1>4

\* The writer puts its block where the one before it ends.
LEMMA WriteDoneAdjacent ==
    ASSUME IInv, IInv', PackInv, ImageInv, AdjacentInv, NEW t \in Threads, WriteDone(t)
    PROVE  AdjacentInv'
<1>1. PICK e : e = cur[t]
  OBVIOUS
<1>2. PICK blk : blk = ImageBlockOf(e)
  OBVIOUS
<1>3. KeepsBlocks(e) /\ KeepsSources(e) /\ ImageBlockOf(e)' = [blk EXCEPT !.content = <<>>]
  BY <1>1, <1>2, WriteDoneBlocks
<1>4. /\ e \in Ids /\ WritesBlock(e) /\ disk' = Append(disk, blk) /\ pc[t] = "write"
  BY <1>1, <1>2, WriteDoneFacts
<1>5. blk \in ImageBlockType
  BY <1>2, <1>4, ImageBlockFacts
<1>6. e = finished + 1 /\ finished \in Nat
  BY <1>1, <1>4, BoundsAreNat DEF IInv, WriteoutInOrder, TypeOK, Ids0
<1>7. blk.offset = DiskEnd
  BY <1>1, <1>2, <1>4 DEF ImageInv, PlaceInv, DiskShape
<1>8. DiskEnd' = blk.offset + blk.size
  <2>1. Len(disk') = Len(disk) + 1 /\ Len(disk) \in Nat /\ disk'[Len(disk) + 1] = blk
        /\ DOMAIN disk' = 1 .. Len(disk) + 1
    BY <1>2, <1>4, DiskAppend
  <2>2. disk' # <<>>
    BY <2>1
  <2> QED BY <2>1, <2>2 DEF DiskEnd, LastOf
<1>9. finished' = e
  BY <1>1, WriteDoneFacts
<1> SUFFICES ASSUME NEW c \in Ids, IsBlock(c)', state'[c] = ChunkFinished
             PROVE  /\ c = e => dst'[c].offset + dst'[c].size = DiskEnd'
                    /\ c > 1 /\ IsBlock(c - 1)' => dst'[c].offset = dst'[c - 1].offset + dst'[c - 1].size
  BY <1>9 DEF AdjacentInv
<1>10. c <= e /\ c \in Nat
  BY <1>9, BoundsAreNat DEF IInv, WriteoutInOrder, Ids
<1>11. CASE c = e
  <2>1. dst'[c].offset = blk.offset /\ dst'[c].size = blk.size
    <3>1. dst'[c] = [blk EXCEPT !.content = <<>>]
      BY <1>3, <1>11 DEF ImageBlockOf
    <3> QED BY <1>5, <3>1 DEF ImageBlockType
  <2>2. ASSUME c > 1, IsBlock(c - 1)' PROVE dst'[c].offset = dst'[c - 1].offset + dst'[c - 1].size
    <3>1. c - 1 = finished /\ finished \in Ids /\ finished # e
      BY <1>4, <1>6, <1>11, <2>2, BoundsAreNat DEF Ids
    <3>2. state'[finished] = ChunkFinished
      BY <1>6, <1>9, <3>1 DEF IInv, WriteoutInOrder
    <3>3. PICK f : f = finished
      OBVIOUS
    <3>4. IsBlock(f) /\ state[f] = ChunkFinished /\ dst'[f] = dst[f]
      BY <1>3, <2>2, <3>1, <3>2, <3>3, WrittenKept
    <3>5. dst[f].offset + dst[f].size = DiskEnd
      BY <3>1, <3>3, <3>4 DEF AdjacentInv
    <3> QED BY <1>7, <2>1, <3>1, <3>3, <3>4, <3>5
  <2> QED BY <1>8, <2>1, <2>2
<1>12. CASE c # e
  <2>1. c > 1 => c - 1 # e
    BY <1>6, <1>10, <1>12
  <2> QED BY <1>3, <1>12, <2>1, NeighbourKept
<1> QED BY <1>11, <1>12

LEMMA NextAdjacent ==
    IInv /\ IInv' /\ PackInv /\ ImageInv /\ AdjacentInv /\ [Next]_vars => AdjacentInv'
<1> SUFFICES ASSUME IInv, IInv', PackInv, ImageInv, AdjacentInv, [Next]_vars PROVE AdjacentInv'
  OBVIOUS
<1>0. 0 \notin Ids
  BY BoundsAreNat DEF Ids
<1>1. CASE KeepsBlocks(0) /\ disk' = disk /\ (finished' = finished \/ finished' = finished + 1)
  BY <1>0, <1>1, AdjacentKept
<1>2. ASSUME NEW t \in Threads, CompressDone(t) PROVE AdjacentInv'
  <2>1. PICK c : c = cur[t]
    OBVIOUS
  <2>2. KeepsBlocks(c)
    BY <1>2, <2>1, CompressDoneBlocks
  <2>3. c \in Ids /\ state'[c] = ChunkWritable
    BY <1>2, <2>1, CompressDoneFacts DEF StateStep
  <2>4. disk' = disk /\ finished' = finished
    BY <1>2 DEF CompressDone
  <2> QED BY <2>2, <2>3, <2>4, AdjacentKept DEF ChunkWritable, ChunkFinished
<1>3. ASSUME NEW t \in Threads, StartWrite(t) PROVE AdjacentInv'
  <2>1. PICK c : c = Head(workq["write"])
    OBVIOUS
  <2>2. KeepsBlocks(c) /\ state' = state /\ disk' = disk
    BY <1>3, <2>1, StartWriteBlocks
  <2>3. c \in Ids /\ state[c] = ChunkWritable
    BY <1>3, <2>1, StartWriteFacts
  <2>4. finished' = finished
    BY <1>3 DEF StartWrite
  <2> QED BY <2>2, <2>3, <2>4, AdjacentKept DEF ChunkWritable, ChunkFinished
<1>4. ASSUME NEW t \in Threads, ThreadStep(t) \/ SpuriousWake(t) PROVE AdjacentInv'
  <2>1. CASE FinishPiece(t)
    <3>1. finished' = finished + 1
      BY <2>1, FinishPieceFacts
    <3>2. KeepsBlocks(0) /\ disk' = disk
      BY <2>1, NoBlockKeeps DEF NoBlockStep
    <3> QED BY <1>1, <3>1, <3>2
  <2>2. CASE NoBlockStep(t) /\ ~FinishPiece(t)
    <3>1. finished' = finished
      BY <2>2 DEF NoBlockStep, QuietStep, StartCompress, AssignBlock, Deduplicate, StartRead,
             ReadDone, Abort, OpenCompressor, OpenFail, Enter, SpuriousWake, Exit, Wait, ReadFail,
             WriteFail, ReturnFailed, bulkVars
    <3>2. KeepsBlocks(0) /\ disk' = disk
      BY <2>2, NoBlockKeeps
    <3> QED BY <1>1, <3>1, <3>2
  <2>3. CASE AssignPiece(t)
    <3>1. finished' = finished
      BY <2>3 DEF AssignPiece
    <3>2. KeepsBlocks(0) /\ disk' = disk
      BY <2>3, AssignKeeps
    <3> QED BY <1>1, <3>1, <3>2
  <2>4. CASE AssignFail(t)
    <3>1. finished' = finished
      BY <2>4 DEF AssignFail
    <3>2. KeepsBlocks(0) /\ disk' = disk
      BY <2>4, AssignFailKeeps
    <3> QED BY <1>1, <3>1, <3>2
  <2>5. CASE WriteDone(t)
    BY <2>5, WriteDoneAdjacent
  <2> QED BY <1>2, <1>3, <1>4, <2>1, <2>2, <2>3, <2>4, <2>5
          DEF ThreadStep, LoopStep, NoBlockStep, QuietStep
<1>5. CASE \/ UserAbort \/ Finalize \/ SealCheck \/ SealFail \/ \E w \in Workers : Spawn(w)
           \/ UNCHANGED vars
  <2>1. UNCHANGED bulkVars
    BY <1>5 DEF UserAbort, Finalize, SealCheck, SealFail, Spawn, vars
  <2> QED BY <1>1, <2>1, StutterKeeps DEF bulkVars
<1>6. CASE SealEnqueue \/ \E d \in Submissions : Submit(d)
  <2>1. PICK d : EnqueueMove(d)
    BY <1>6, SubmitMove, SealEnqueueMove
  <2>2. KeepsBlocks(0) /\ disk' = disk
    BY <2>1, EnqueueKeeps
  <2>3. finished' = finished
    BY <2>1 DEF EnqueueMove
  <2> QED BY <1>1, <2>2, <2>3
<1> QED BY <1>4, <1>5, <1>6 DEF Next, PipelineStep, SealStep

\* Blocks that were submitted one after the other lie one behind the other, whichever
\* threads wrote them.
THEOREM FileBlocksAdjacent == Spec => []AdjacentInv
<1>1. Init => AdjacentInv
  <2>1. Init => \A c \in Ids : ~IsBlock(c)
    <3>1. Init => \A c \in Ids : desc[c] = UnusedDesc
      BY DEF Init
    <3>2. UnusedDesc.kind = "unused"
      BY Zenon DEF UnusedDesc
    <3> QED BY <3>1, <3>2 DEF IsBlock
  <2> QED BY <2>1 DEF AdjacentInv
<1> QED BY <1>1, NextAdjacent, PipelineInvariant, PackingInvariant, ImageInvariant, PTL DEF Spec

-----------------------------------------------------------------------------
(* What a reader finds.                                                    *)

\* A set of numbers has a least element.
LEMMA LeastOfNumbers ==
    ASSUME NEW T \in SUBSET Nat, T # {}
    PROVE  \E x \in T : \A y \in T : x <= y
<1> DEFINE R == {ss \in Nat \X Nat : ss[1] < ss[2]}
<1>1. IsWellFoundedOn(R, Nat)
  BY NatLessThanWellFounded, Zenon DEF OpToRel
<1> HIDE DEF R
<1>2. PICK x \in T : \A y \in T : ~(<<y, x>> \in R)
  BY <1>1, WFMin, Zenon
<1>3. \A y \in T : ~(y < x)
  <2> SUFFICES ASSUME NEW y \in T, y < x PROVE FALSE
    OBVIOUS
  <2>1. <<y, x>> \in R
    BY DEF R
  <2> QED BY <1>2, <2>1
<1> QED BY <1>3

\* Sums of sizes are places, if each place is the one before it and a size.
LEMMA SumsArePlaces ==
    ASSUME NEW f, NEW N \in Nat, Len(f) = N, NEW g, g = [k \in 0 .. N |-> g[k]], g[0] = 0,
           \A k \in 1 .. N : g[k] = g[k - 1] + f[k]
    PROVE  Sums(f) = g
<1> DEFINE IsSum(h) == h = [k \in 0 .. Len(f) |-> IF k = 0 THEN 0 ELSE h[k - 1] + f[k]]
           sum == CHOOSE h : IsSum(h)
<1>1. IsSum(g)
  <2>1. ASSUME NEW k \in 0 .. N PROVE g[k] = IF k = 0 THEN 0 ELSE g[k - 1] + f[k]
    <3>1. k = 0 \/ k \in 1 .. N
      OBVIOUS
    <3> QED BY <3>1
  <2>2. [k \in 0 .. N |-> g[k]] = [k \in 0 .. N |-> IF k = 0 THEN 0 ELSE g[k - 1] + f[k]]
    BY <2>1
  <2> QED BY <2>2
<1> HIDE DEF IsSum
<1>2. IsSum(sum)
  BY <1>1, Zenon
<1>3. Sums(f) = sum
  BY Zenon DEF Sums, IsSum
<1> HIDE DEF sum
<1>4. sum[0] = 0 /\ \A k \in 1 .. N : sum[k] = sum[k - 1] + f[k]
  BY <1>2 DEF IsSum
<1>5. \A k \in 0 .. N : sum[k] = g[k]
  <2> SUFFICES ASSUME ~\A k \in 0 .. N : sum[k] = g[k] PROVE FALSE
    OBVIOUS
  <2> DEFINE T == {k \in 0 .. N : sum[k] # g[k]}
  <2>1. T \in SUBSET Nat /\ T # {}
    OBVIOUS
  <2>2. PICK k \in T : \A y \in T : k <= y
    BY <2>1, LeastOfNumbers
  <2>3. k # 0 /\ k \in 1 .. N
    BY <1>4
  <2>4. k - 1 \notin T /\ k - 1 \in 0 .. N
    BY <2>2, <2>3
  <2>5. sum[k - 1] = g[k - 1]
    BY <2>4
  <2> QED BY <2>3, <2>5, <1>4
<1>6. sum = [k \in 0 .. N |-> sum[k]]
  <2>1. DOMAIN sum = 0 .. N /\ sum = [k \in DOMAIN sum |-> sum[k]]
    BY <1>2 DEF IsSum
  <2> QED BY <2>1
<1> QED BY <1>3, <1>5, <1>6

\* Blocks further on lie behind.
LEMMA DiskInOrder ==
    ASSUME IInv, DiskShape, NEW i \in DOMAIN disk, NEW j \in DOMAIN disk, i < j
    PROVE  disk[i].offset < disk[j].offset
<1>1. disk \in Seq(ImageBlockType)
  BY DEF IInv, TypeOK
<1>2. PICK N \in Nat : DOMAIN disk = 1 .. N
  BY <1>1
<1>3. \A k \in 1 .. N : disk[k].offset \in Int /\ disk[k].size \in Nat
  <2>1. \A k \in 1 .. N : disk[k] \in ImageBlockType
    BY <1>1, <1>2
  <2> QED BY <2>1 DEF ImageBlockType
<1>4. \A k \in 1 .. N : disk[k].size > 0 /\ (k # 1 => disk[k].offset = disk[k - 1].offset + disk[k - 1].size)
  BY <1>2 DEF ImageInv, PlaceInv, DiskShape
<1>5. \A k \in i + 1 .. N : disk[i].offset < disk[k].offset
  <2> SUFFICES ASSUME ~\A k \in i + 1 .. N : disk[i].offset < disk[k].offset PROVE FALSE
    OBVIOUS
  <2> DEFINE T == {k \in i + 1 .. N : ~(disk[i].offset < disk[k].offset)}
  <2>1. T \in SUBSET Nat /\ T # {}
    BY <1>2
  <2>2. PICK k \in T : \A y \in T : k <= y
    BY <2>1, LeastOfNumbers
  <2>3. k \in i + 1 .. N /\ ~(disk[i].offset < disk[k].offset) /\ i \in 1 .. N
    BY <1>2
  <2>4. k \in 1 .. N /\ k # 1 /\ k - 1 \in 1 .. N /\ k - 1 \in i .. N
    BY <2>3
  <2>5. disk[i].offset <= disk[k - 1].offset
    <3>1. CASE k - 1 = i
      BY <3>1, <2>3, <1>3
    <3>2. CASE k - 1 # i
      <4>1. k - 1 \in i + 1 .. N /\ k - 1 \notin T
        BY <3>2, <2>2, <2>3, <2>4
      <4> QED BY <4>1, <2>3, <2>4, <1>3
    <3> QED BY <3>1, <3>2
  <2>6. disk[k].offset = disk[k - 1].offset + disk[k - 1].size /\ disk[k - 1].size > 0
    BY <2>4, <1>4
  <2> QED BY <2>3, <2>4, <2>5, <2>6, <1>3
<1> QED BY <1>2, <1>5

\* Reading the block of a finished chunk by its place and size.
LEMMA ReadStored ==
    ASSUME IInv, PackInv, ImageInv, NEW c \in Ids, WritesBlock(c), state[c] = ChunkFinished, NEW info,
           info.size = ImageBlockOf(c).size, info.compressed = ImageBlockOf(c).compressed
    PROVE  Content(ImageBlockOf(c).offset, info) = BytesOf(SourcesOf(c))
<1>1. PICK i \in DOMAIN disk : /\ disk[i] = [Compressed(c) EXCEPT !.offset = disk[i].offset]
                               /\ ImageBlockOf(c) = [disk[i] EXCEPT !.content = <<>>]
  BY DEF ImageInv, ContentInv, WrittenContent
<1>2. PICK blk \in ImageBlockType : blk = disk[i]
  BY DEF IInv, TypeOK
<1>3. /\ ImageBlockOf(c).offset = blk.offset /\ ImageBlockOf(c).size = blk.size
      /\ ImageBlockOf(c).compressed = blk.compressed
  <2>1. ImageBlockOf(c) = [blk EXCEPT !.content = <<>>]
    BY <1>1, <1>2
  <2> QED BY <2>1, <1>2 DEF ImageBlockType
<1>4. blk.content = BytesOf(SourcesOf(c))
  <2>1. PICK z \in ImageBlockType : z = Compressed(c) /\ z.content = BytesOf(SourcesOf(c))
    BY CompressedFacts
  <2>2. blk = [z EXCEPT !.offset = blk.offset]
    BY <2>1, <1>1, <1>2
  <2>3. [z EXCEPT !.offset = blk.offset].content = z.content
    BY <2>1 DEF ImageBlockType
  <2> QED BY <2>1, <2>2, <2>3
<1>5. i \in Hits(blk.offset, info)
  BY <1>2, <1>3 DEF Hits
<1>6. \A j \in Hits(blk.offset, info) : j = i
  <2> SUFFICES ASSUME NEW j \in Hits(blk.offset, info) PROVE j = i
    OBVIOUS
  <2>1. j \in DOMAIN disk /\ disk[j].offset = disk[i].offset
    BY <1>2 DEF Hits
  <2>2. disk \in Seq(ImageBlockType)
    BY DEF IInv, TypeOK
  <2>3. i \in Nat /\ j \in Nat
    BY <2>1, <2>2
  <2>4. disk[i].offset \in Int
    BY <1>2 DEF ImageBlockType
  <2>5. ~(i < j) /\ ~(j < i)
    BY <2>1, <2>4, DiskInOrder DEF ImageInv, PlaceInv
  <2> QED BY <2>3, <2>5
<1>7. (CHOOSE j \in Hits(blk.offset, info) : TRUE) = i /\ Hits(blk.offset, info) # {}
  BY <1>5, <1>6, Zenon
<1> QED BY <1>2, <1>3, <1>4, <1>7 DEF Content

\* A block of a file is where its inode says, whichever thread put it there.
LEMMA BlockFound ==
    ASSUME IInv, PackInv, ImageInv, AdjacentInv, NEW first \in 1 .. count, NEW m \in 0 .. count,
           NEW tail, \A c \in 1 .. count : c \in Ids /\ state[c] = ChunkFinished,
           \A c \in first .. first + m - 1 : c <= count /\ IsBlock(c), NEW k \in 1 .. m
    PROVE  BlockReadBack(RegularInode(first, m, tail), k, first + k - 1)
<1>1. count \in Nat /\ first \in Nat /\ m \in Nat /\ k \in Nat
  BY BoundsAreNat DEF IInv, TypeOK, Ids0
<1>2. ASSUME NEW j \in 1 .. m
      PROVE  /\ first + j - 1 \in Ids /\ IsBlock(first + j - 1) /\ state[first + j - 1] = ChunkFinished
             /\ dst[first + j - 1].offset \in Int /\ dst[first + j - 1].size \in Nat
  <2>1. PICK c : c = first + j - 1
    OBVIOUS
  <2>2. c \in first .. first + m - 1 /\ c >= 1
    BY <1>1, <2>1
  <2>3. c \in 1 .. count /\ IsBlock(c)
    BY <1>1, <2>2
  <2>4. c \in Ids /\ state[c] = ChunkFinished
    BY <2>3
  <2>5. dst[c] \in ImageBlockType
    BY <2>4 DEF IInv, TypeOK
  <2> QED BY <2>1, <2>3, <2>4, <2>5 DEF ImageBlockType
<1>3. ASSUME NEW j \in 2 .. m
      PROVE  dst[first + j - 1].offset = dst[first + j - 2].offset + dst[first + j - 2].size
  <2>1. PICK c : c = first + j - 1
    OBVIOUS
  <2>2. j \in 1 .. m /\ j - 1 \in 1 .. m /\ first + (j - 1) - 1 = c - 1 /\ first + j - 2 = c - 1 /\ c > 1
    BY <1>1, <2>1
  <2>3. c \in Ids /\ IsBlock(c) /\ state[c] = ChunkFinished /\ IsBlock(c - 1)
    BY <1>2, <2>1, <2>2
  <2>4. dst[c].offset = dst[c - 1].offset + dst[c - 1].size
    BY <2>2, <2>3 DEF AdjacentInv
  <2> QED BY <2>1, <2>2, <2>4
<1>4. PICK r : r = RegularInode(first, m, tail)
  OBVIOUS
<1>5. /\ r.start_block = dst[first].offset
      /\ r.block_info = [j \in 1 .. m |-> [size |-> dst[first + j - 1].size,
                                           compressed |-> dst[first + j - 1].compressed]]
  <2>1. m # 0
    BY <1>1
  <2> QED BY <1>4, <2>1 DEF RegularInode
<1>6. PICK f : f = [j \in 1 .. m |-> dst[first + j - 1].size]
  OBVIOUS
<1>7. BlockSizes(r) = f
  <2>1. DOMAIN r.block_info = 1 .. m
    BY <1>5
  <2>2. \A j \in 1 .. m : r.block_info[j].size = dst[first + j - 1].size
    BY <1>5
  <2> QED BY <1>6, <2>1, <2>2 DEF BlockSizes
<1>8. Len(f) = m
  <2>1. m \in Nat /\ DOMAIN f = 1 .. m
    BY <1>1, <1>6
  <2> QED BY <2>1
<1>9. PICK o \in Int : o = dst[first].offset
  <2>1. 1 \in 1 .. m /\ first + 1 - 1 = first
    BY <1>1
  <2> QED BY <2>1, <1>2
<1>10. PICK g : g = [j \in 0 .. m |-> IF j = 0 THEN 0
                        ELSE dst[first + j - 1].offset + dst[first + j - 1].size - o]
  OBVIOUS
<1>11. ASSUME NEW j \in 1 .. m
       PROVE  g[j - 1] = dst[first + j - 1].offset - o /\ g[j] = g[j - 1] + f[j]
  <2>1. /\ g[j] = dst[first + j - 1].offset + dst[first + j - 1].size - o
        /\ f[j] = dst[first + j - 1].size
    BY <1>1, <1>6, <1>10
  <2>2. dst[first + j - 1].offset \in Int /\ dst[first + j - 1].size \in Nat
    BY <1>2
  <2>3. g[j - 1] = dst[first + j - 1].offset - o
    <3>1. CASE j = 1
      <4>1. g[0] = 0 /\ first + 1 - 1 = first
        BY <1>1, <1>10
      <4> QED BY <3>1, <4>1, <1>9
    <3>2. CASE j # 1
      <4>1. j \in 2 .. m /\ j - 1 \in 0 .. m /\ j - 1 # 0 /\ first + (j - 1) - 1 = first + j - 2
        BY <3>2, <1>1
      <4>2. g[j - 1] = dst[first + j - 2].offset + dst[first + j - 2].size - o
        BY <4>1, <1>10
      <4>3. dst[first + j - 1].offset = dst[first + j - 2].offset + dst[first + j - 2].size
        BY <4>1, <1>3
      <4>4. PICK x \in Int, y \in Nat : x = dst[first + j - 2].offset /\ y = dst[first + j - 2].size
        <5>1. j - 1 \in 1 .. m
          BY <4>1
        <5> QED BY <4>1, <5>1, <1>2
      <4>5. g[j - 1] = x + y - o /\ dst[first + j - 1].offset = x + y
        BY <4>2, <4>3, <4>4
      <4> QED BY <4>5
    <3> QED BY <3>1, <3>2
  <2> QED BY <2>1, <2>2, <2>3
<1>12. Sums(f) = g
  <2>1. g[0] = 0 /\ g = [j \in 0 .. m |-> g[j]]
    BY <1>1, <1>10
  <2> QED BY <1>1, <1>8, <1>11, <2>1, SumsArePlaces
<1>13. PICK c \in Ids : c = first + k - 1 /\ IsBlock(c) /\ state[c] = ChunkFinished /\ dst[c].offset \in Int
  BY <1>2
<1>14. PlaceOfBlock(r, k) = dst[c].offset
  <2>1. PlaceOfBlock(r, k) = o + g[k - 1]
    BY <1>5, <1>7, <1>9, <1>12 DEF PlaceOfBlock
  <2>2. g[k - 1] = dst[c].offset - o
    BY <1>11, <1>13
  <2> QED BY <2>1, <2>2, <1>13
<1>15. Content(dst[c].offset, r.block_info[k]) = <<desc[c].data>>
  <2>1. WritesBlock(c) /\ ImageBlockOf(c) = dst[c] /\ SourcesOf(c) = <<c>>
    BY <1>13 DEF WritesBlock, ImageBlockOf, SourcesOf
  <2>2. r.block_info[k].size = dst[c].size /\ r.block_info[k].compressed = dst[c].compressed
    BY <1>5, <1>13
  <2>3. Content(dst[c].offset, r.block_info[k]) = BytesOf(<<c>>)
    BY <1>13, <2>1, <2>2, ReadStored
  <2>4. BytesOf(<<c>>) = <<desc[c].data>>
    BY DEF BytesOf
  <2> QED BY <2>3, <2>4
<1> QED BY <1>4, <1>13, <1>14, <1>15 DEF BlockReadBack

\* The tail of a file is in its fragment block, at its offset.
LEMMA TailFound ==
    ASSUME IInv, PackInv, ImageInv, NEW first, NEW m, NEW tail \in Ids, tail # 0, IsPiece(tail),
           IsAssigned(tail),
           \A b \in DOMAIN fragments :
              \E c \in Ids : flush[c] /\ FlushedBlock(c) = b /\ state[c] = ChunkFinished
    PROVE  TailReadBack(RegularInode(first, m, tail), tail)
<1>1. PICK b : b = fragOf[tail]
  OBVIOUS
<1>2. fragments \in Seq(FragmentType) /\ b \in DOMAIN fragments
  BY <1>1 DEF IInv, TypeOK, FragmentInv, IsPiece, IsAssigned
<1>3. b \in Nat /\ b - 1 \in 0 .. Len(fragments) - 1 /\ (b - 1) + 1 = b
  BY <1>2
<1>4. PICK ps : ps = fragments[b].pieces
  OBVIOUS
<1>5. PICK N \in Nat : /\ DOMAIN ps = 1 .. N /\ Len(ps) = N /\ ps \in Seq(Ids)
                       /\ \A i \in 1 .. N : ps[i] \in Ids
  BY <1>2, <1>4, PiecesFacts
<1>6. PICK i \in 1 .. N : ps[i] = tail
  BY <1>1, <1>4, <1>5 DEF PackInv, LayoutInv
<1>7. PICK r : r = RegularInode(first, m, tail)
  OBVIOUS
<1>8. r.fragment = b - 1 /\ r.offset = offsetOf[tail]
  BY <1>1, <1>7 DEF RegularInode
<1>9. PICK entry : entry = FragmentTable[b - 1]
  OBVIOUS
<1>10. /\ entry.start_block = fragments[b].dst.offset /\ entry.size = fragments[b].dst.size
       /\ entry.compressed = fragments[b].dst.compressed
  BY <1>3, <1>9 DEF FragmentTable
<1>11. TailContent(r) = [j \in DOMAIN ps |-> desc[ps[j]].data]
  <2>1. PICK c \in Ids : flush[c] /\ FlushedBlock(c) = b /\ state[c] = ChunkFinished
    BY <1>2
  <2>2. ~IsBlock(c) /\ WritesBlock(c)
    BY <2>1, FlushedFacts DEF WritesBlock
  <2>3. ImageBlockOf(c) = fragments[b].dst /\ SourcesOf(c) = ps
    BY <1>4, <2>1, <2>2 DEF ImageBlockOf, SourcesOf
  <2>4. Content(fragments[b].dst.offset, entry) = BytesOf(ps)
    BY <1>10, <2>1, <2>2, <2>3, ReadStored
  <2>5. TailContent(r) = Content(entry.start_block, entry)
    BY <1>8, <1>9 DEF TailContent
  <2> QED BY <1>10, <2>4, <2>5 DEF BytesOf
<1>12. BlockLayout(b)
  BY <1>2 DEF PackInv, LayoutInv
<1>13. /\ offsetOf[ps[1]] = 0
       /\ \A j \in 1 .. N : IsPiece(ps[j])
       /\ \A j \in 1 .. N - 1 : offsetOf[ps[j + 1]] = offsetOf[ps[j]] + desc[ps[j]].size
  BY <1>4, <1>5, <1>12 DEF BlockLayout
<1>14. \A j \in 1 .. N : desc[ps[j]].size \in Nat /\ offsetOf[ps[j]] \in Int
  BY <1>5, <1>13, PieceSize DEF IInv, TypeOK
<1>15. PICK f : f = [j \in 1 .. N |-> desc[ps[j]].size]
  OBVIOUS
<1>16. PieceSizes(ps) = f /\ Len(f) = N
  <2>1. f \in Seq(Nat) /\ DOMAIN f = 1 .. N
    BY <1>14, <1>15
  <2> QED BY <1>5, <1>15, <2>1 DEF PieceSizes
<1>17. PICK g : g = [j \in 0 .. N |-> IF j = 0 THEN 0 ELSE offsetOf[ps[j]] + desc[ps[j]].size]
  OBVIOUS
<1>18. ASSUME NEW j \in 1 .. N PROVE g[j - 1] = offsetOf[ps[j]] /\ g[j] = g[j - 1] + f[j]
  <2>1. g[j] = offsetOf[ps[j]] + desc[ps[j]].size /\ f[j] = desc[ps[j]].size
    BY <1>15, <1>17
  <2>2. g[j - 1] = offsetOf[ps[j]]
    <3>1. CASE j = 1
      BY <3>1, <1>13, <1>17
    <3>2. CASE j # 1
      <4>1. j - 1 \in 1 .. N - 1 /\ j - 1 \in 0 .. N /\ j - 1 # 0 /\ (j - 1) + 1 = j
        BY <3>2
      <4>2. g[j - 1] = offsetOf[ps[j - 1]] + desc[ps[j - 1]].size
        BY <4>1, <1>17
      <4>3. offsetOf[ps[(j - 1) + 1]] = offsetOf[ps[j - 1]] + desc[ps[j - 1]].size
        BY <4>1, <1>13
      <4> QED BY <4>1, <4>2, <4>3
    <3> QED BY <3>1, <3>2
  <2> QED BY <2>1, <2>2
<1>19. Sums(f) = g
  <2>1. g[0] = 0 /\ g = [j \in 0 .. N |-> g[j]]
    BY <1>17
  <2>2. Len(f) = N /\ \A j \in 1 .. N : g[j] = g[j - 1] + f[j]
    BY <1>16, <1>18
  <2> QED BY <2>1, <2>2, SumsArePlaces, ZenonT(40)
<1>20. i \in DOMAIN TailContent(r) /\ TailContent(r)[i] = desc[tail].data
  BY <1>5, <1>6, <1>11
<1>21. r.offset = Sums(PieceSizes(ps))[i - 1]
  BY <1>6, <1>8, <1>16, <1>18, <1>19
<1>22. fragments[r.fragment + 1].pieces = ps
  BY <1>3, <1>4, <1>8
<1> QED BY <1>6, <1>7, <1>20, <1>21, <1>22 DEF TailReadBack

\* When libsqfs_bulkdata_finish has returned without error, whoever follows an inode
\* of libsqfs_regular_inode_serialize and the fragment table finds the bytes of the
\* file: for every number of threads, of chunks and of files, and every compressor.
THEOREM FilesAlwaysReadBack == Spec => []FilesReadBack
<1>1. ASSUME IInv, PackInv, ImageInv, AdjacentInv PROVE FilesReadBack
  <2> SUFFICES ASSUME pc[Main] = "finished", imgState = "building",
                      NEW first \in 1 .. count, NEW m \in 0 .. count, NEW tail \in {0, first + m},
                      IsFile(first, m, tail)
               PROVE  /\ \A k \in 1 .. m :
                            BlockReadBack(RegularInode(first, m, tail), k, first + k - 1)
                      /\ tail # 0 => TailReadBack(RegularInode(first, m, tail), tail)
    BY DEF FilesReadBack
  <2>1. /\ \A c \in 1 .. count : c \in Ids /\ state[c] = ChunkFinished
        /\ \A b \in DOMAIN fragments :
              \E c \in Ids : flush[c] /\ FlushedBlock(c) = b /\ state[c] = ChunkFinished
    BY <1>1, FinishedFacts
  <2>2. \A c \in first .. first + m - 1 : c <= count /\ IsBlock(c)
    BY DEF IsFile
  <2>3. ASSUME tail # 0 PROVE TailReadBack(RegularInode(first, m, tail), tail)
    <3>1. tail <= count /\ IsPiece(tail)
      BY <2>3 DEF IsFile, IsPiece
    <3>2. count \in Nat
      BY <1>1, BoundsAreNat DEF IInv, TypeOK, Ids0
    <3>3. tail \in 1 .. count
      BY <2>3, <3>1, <3>2
    <3>4. tail \in Ids /\ IsAssigned(tail)
      BY <2>1, <3>3 DEF IsAssigned, ChunkAssigned, ChunkFinished
    <3> QED BY <1>1, <2>1, <2>3, <3>1, <3>4, TailFound
  <2> QED BY <1>1, <2>1, <2>2, <2>3, BlockFound
<1>2. IInv /\ PackInv /\ ImageInv /\ AdjacentInv => FilesReadBack
  BY <1>1
<1> QED BY <1>2, PipelineInvariant, PackingInvariant, ImageInvariant, FileBlocksAdjacent, PTL

-----------------------------------------------------------------------------
(* The refinement of OrderedImage: every step of the pipeline is a step of *)
(* the single thread that takes the chunks in the order of submission, or  *)
(* changes nothing it sees.  First the open fragment block.                *)

\* l is the last of the finished pieces.
LastFinished(l) == l \in FinishedPieces /\ \A d \in FinishedPieces : d <= l

\* The front of its block up to l, which is the i-th of its pieces.
OpenUpTo(l, i) ==
    /\ OpenPieces = SubSeq(fragments[fragOf[l]].pieces, 1, i)
    /\ OpenFill = offsetOf[l] + desc[l].size

LEMMA FinishedPiecesFacts ==
    ASSUME IInv
    PROVE  \A c : c \in FinishedPieces <=> c \in Ids /\ c <= finished /\ InList(c)
<1>1. finished <= count /\ count <= MaxChunks /\ finished \in Nat /\ count \in Nat /\ MaxChunks \in Nat
  BY QueueFacts, BoundsAreNat DEF IInv, UnusedInv
<1>2. \A c : c \in 1 .. finished <=> c \in Ids /\ c <= finished
  BY <1>1 DEF Ids
<1>3. ASSUME NEW c \in Ids, c <= finished PROVE InList(c) <=> ~IsBlock(c)
  <2>1. c <= count
    BY <1>1, <1>3 DEF Ids
  <2> QED BY <2>1, DescFacts DEF InList, IsBlock
<1> QED BY <1>2, <1>3 DEF FinishedPieces

\* Where the open block is.
LEMMA OpenFacts ==
    IInv /\ PackInv =>
      /\ FinishedPieces = {} => OpenPieces = <<>> /\ OpenFill = 0
      /\ \A l \in Ids : LastFinished(l) /\ IsClosing(l) => OpenPieces = <<>> /\ OpenFill = 0
      /\ \A l \in Ids : LastFinished(l) /\ IsPiece(l) =>
            \A i \in DOMAIN fragments[fragOf[l]].pieces :
               fragments[fragOf[l]].pieces[i] = l => OpenUpTo(l, i)
<1> SUFFICES ASSUME IInv, PackInv
             PROVE  /\ FinishedPieces = {} => OpenPieces = <<>> /\ OpenFill = 0
                    /\ \A l \in Ids : LastFinished(l) /\ IsClosing(l)
                          => OpenPieces = <<>> /\ OpenFill = 0
                    /\ \A l \in Ids : LastFinished(l) /\ IsPiece(l) =>
                          \A i \in DOMAIN fragments[fragOf[l]].pieces :
                             fragments[fragOf[l]].pieces[i] = l => OpenUpTo(l, i)
  OBVIOUS
<1>1. ASSUME NEW l \in Ids, LastFinished(l) PROVE LastFinishedPiece = l /\ FinishedPieces # {}
  <2>1. l \in FinishedPieces /\ \A d \in FinishedPieces : d <= l
    BY <1>1 DEF LastFinished
  <2>2. \A d \in FinishedPieces : d \in Nat
    BY FinishedPiecesFacts, BoundsAreNat DEF Ids
  <2>3. /\ LastFinishedPiece \in FinishedPieces
        /\ \A d \in FinishedPieces : d <= LastFinishedPiece
    BY <2>1, Zenon DEF LastFinishedPiece
  <2>4. LastFinishedPiece <= l /\ l <= LastFinishedPiece
    BY <2>1, <2>3
  <2> QED BY <2>1, <2>2, <2>3, <2>4
<1>2. NothingOpen => OpenPieces = <<>> /\ OpenFill = 0
  BY DEF OpenPieces, OpenFill
<1>3. FinishedPieces = {} => NothingOpen
  BY DEF NothingOpen
<1>4. ASSUME NEW l \in Ids, LastFinished(l), IsClosing(l) PROVE NothingOpen
  BY <1>1, <1>4 DEF NothingOpen
<1>5. ASSUME NEW l \in Ids, LastFinished(l), IsPiece(l),
             NEW i \in DOMAIN fragments[fragOf[l]].pieces, fragments[fragOf[l]].pieces[i] = l
      PROVE  OpenUpTo(l, i)
  <2>1. LastFinishedPiece = l /\ FinishedPieces # {}
    BY <1>1, <1>5
  <2>2. ~NothingOpen
    BY <1>5, <2>1 DEF NothingOpen, IsClosing, IsPiece
  <2>3. PICK ps : ps = fragments[fragOf[l]].pieces
    OBVIOUS
  <2>4. OpenBlock = ps
    BY <2>1, <2>3 DEF OpenBlock
  <2>5. IsAssigned(l)
    <3>1. l <= finished
      BY <1>5, FinishedPiecesFacts DEF LastFinished
    <3> QED BY <3>1 DEF IInv, WriteoutInOrder, IsAssigned, ChunkFinished, ChunkAssigned
  <2>6. fragOf[l] \in DOMAIN fragments
    BY <1>5, <2>5 DEF IInv, FragmentInv, IsPiece, IsAssigned
  <2>7. /\ \A j, k \in DOMAIN ps : j < k => ps[j] < ps[k]
        /\ \A j \in DOMAIN ps : ps[j] \in Ids /\ j \in Nat
    BY <2>3, <2>6, PiecesFacts DEF PackInv, LayoutInv, BlockLayout
  <2>8. OpenLength \in DOMAIN ps /\ ps[OpenLength] = l
    <3>1. i \in DOMAIN ps /\ ps[i] = l
      BY <1>5, <2>3
    <3> QED BY <2>1, <2>4, <3>1, Zenon DEF OpenLength
  <2>9. OpenLength = i
    <3>1. i \in DOMAIN ps /\ ps[i] = l
      BY <1>5, <2>3
    <3>2. i \in Nat /\ OpenLength \in Nat /\ ~(l < l)
      BY <2>7, <2>8, <3>1, BoundsAreNat DEF Ids
    <3>3. ~(i < OpenLength) /\ ~(OpenLength < i)
      BY <2>7, <2>8, <3>1, <3>2
    <3> QED BY <3>2, <3>3
  <2>10. OpenPieces = SubSeq(ps, 1, i)
    BY <2>2, <2>4, <2>9 DEF OpenPieces
  <2>11. OpenFill = offsetOf[l] + desc[l].size
    BY <2>1, <2>2 DEF OpenFill
  <2> QED BY <2>3, <2>10, <2>11 DEF OpenUpTo
<1> QED BY <1>2, <1>3, <1>4, <1>5

\* The same after a step.
LEMMA OpenFactsNext ==
    (IInv /\ PackInv)' =>
      (/\ FinishedPieces = {} => OpenPieces = <<>> /\ OpenFill = 0
       /\ \A l \in Ids : LastFinished(l) /\ IsClosing(l) => OpenPieces = <<>> /\ OpenFill = 0
       /\ \A l \in Ids : LastFinished(l) /\ IsPiece(l) =>
            \A i \in DOMAIN fragments[fragOf[l]].pieces :
               fragments[fragOf[l]].pieces[i] = l => OpenUpTo(l, i))'
BY OpenFacts, PTL

\* There is a last one unless there is none.
LEMMA LastFinishedExists ==
    ASSUME IInv, FinishedPieces # {}
    PROVE  \E l \in Ids : LastFinished(l)
<1> DEFINE T == {n \in Nat : \A d \in FinishedPieces : d <= n}
           R == {ss \in Nat \X Nat : ss[1] < ss[2]}
<1>1. finished \in T
  BY FinishedPiecesFacts, QueueFacts
<1>2. IsWellFoundedOn(R, Nat)
  BY NatLessThanWellFounded, Zenon DEF OpToRel
<1>3. T \subseteq Nat /\ T # {}
  BY <1>1
<1> HIDE DEF R, T
<1>4. PICK x \in T : \A y \in T : ~(<<y, x>> \in R)
  BY <1>2, <1>3, WFMin, Zenon
<1>5. x \in Nat /\ \A d \in FinishedPieces : d <= x /\ d \in Ids /\ d \in Nat /\ d > 0
  BY FinishedPiecesFacts, BoundsAreNat DEF T, Ids
<1>6. CASE x \in FinishedPieces
  BY <1>5, <1>6 DEF LastFinished
<1>7. CASE x \notin FinishedPieces
  <2>1. PICK d \in FinishedPieces : TRUE
    OBVIOUS
  <2>2. x - 1 \in Nat /\ x - 1 < x
    BY <1>5, <2>1
  <2>3. \A e \in FinishedPieces : e <= x - 1
    BY <1>5, <1>7
  <2>4. x - 1 \in T
    BY <2>2, <2>3 DEF T
  <2>5. <<x - 1, x>> \in R
    BY <1>5, <2>2 DEF R
  <2> QED BY <1>4, <2>4, <2>5
<1> QED BY <1>6, <1>7

\* Fronts of sequences.
LEMMA FrontSame ==
    ASSUME NEW S, NEW p \in Seq(S), NEW q \in Seq(S), NEW i \in DOMAIN p,
           \A j \in DOMAIN p : j \in DOMAIN q /\ q[j] = p[j]
    PROVE  SubSeq(q, 1, i) = SubSeq(p, 1, i)
<1>1. i \in Int /\ 1 \in Int /\ 1 .. i \subseteq DOMAIN p /\ 1 <= i
  OBVIOUS
<1>2. /\ SubSeq(p, 1, i) \in Seq(S) /\ Len(SubSeq(p, 1, i)) = i
      /\ \A j \in 1 .. i : SubSeq(p, 1, i)[j] = p[j]
  OBVIOUS
<1>3. /\ SubSeq(q, 1, i) \in Seq(S) /\ Len(SubSeq(q, 1, i)) = i
      /\ \A j \in 1 .. i : SubSeq(q, 1, i)[j] = q[j]
  BY <1>1
<1>4. \A j \in 1 .. i : SubSeq(q, 1, i)[j] = SubSeq(p, 1, i)[j]
  BY <1>1, <1>2, <1>3
<1> QED BY <1>2, <1>3, <1>4, SeqEqual

LEMMA FrontGrows ==
    ASSUME NEW S, NEW p \in Seq(S), NEW i \in DOMAIN p, i + 1 \in DOMAIN p
    PROVE  SubSeq(p, 1, i + 1) = Append(SubSeq(p, 1, i), p[i + 1])
OBVIOUS

LEMMA FrontEnds ==
    ASSUME NEW S, NEW p \in Seq(S), p # <<>>
    PROVE  SubSeq(p, 1, 1) = <<p[1]>> /\ SubSeq(p, 1, Len(p)) = p
<1>1. SubSeq(p, 1, Len(p)) = p
  BY SubSeqFull
<1>2. 1 \in DOMAIN p /\ p[1] \in S
  OBVIOUS
<1>3. SubSeq(p, 1, 1) \in Seq(S) /\ Len(SubSeq(p, 1, 1)) = 1 /\ SubSeq(p, 1, 1)[1] = p[1]
  BY <1>2
<1>4. SubSeq(p, 1, 1) = <<p[1]>>
  <2>1. <<p[1]>> \in Seq(S) /\ Len(<<p[1]>>) = 1 /\ <<p[1]>>[1] = p[1]
    BY <1>2
  <2>2. \A i \in 1 .. 1 : SubSeq(p, 1, 1)[i] = <<p[1]>>[i]
    BY <1>3, <2>1
  <2> QED BY <1>3, <2>1, <2>2, SeqEqual
<1> QED BY <1>1, <1>4

-----------------------------------------------------------------------------
(* Steps that finish no chunk.                                             *)

\* Finished chunks keep their places, and blocks only grow at their ends.
KeepsOpen ==
    /\ \A c \in Ids : c <= finished =>
          desc'[c] = desc[c] /\ fragOf'[c] = fragOf[c] /\ offsetOf'[c] = offsetOf[c]
    /\ \A b \in DOMAIN fragments : \A i \in DOMAIN fragments[b].pieces :
          /\ b \in DOMAIN fragments' /\ i \in DOMAIN fragments'[b].pieces
          /\ fragments'[b].pieces[i] = fragments[b].pieces[i]

\* A finished piece is in its block.
LEMMA FinishedInBlock ==
    ASSUME IInv, PackInv, NEW l \in Ids, l <= finished, IsPiece(l)
    PROVE  /\ IsAssigned(l) /\ fragOf[l] \in DOMAIN fragments
           /\ \E i \in DOMAIN fragments[fragOf[l]].pieces : fragments[fragOf[l]].pieces[i] = l
<1>1. IsAssigned(l)
  BY DEF IInv, WriteoutInOrder, IsAssigned, ChunkFinished, ChunkAssigned
<1> QED BY <1>1 DEF IInv, FragmentInv, PackInv, LayoutInv, IsPiece, IsAssigned

LEMMA OpenKept ==
    ASSUME IInv, PackInv, IInv', PackInv', KeepsOpen, finished' = finished
    PROVE  OpenPieces' = OpenPieces /\ OpenFill' = OpenFill
<1>1. FinishedPieces' = FinishedPieces
  <2>1. ASSUME NEW c \in 1 .. finished PROVE IsBlock(c)' <=> IsBlock(c)
    <3>1. c \in Ids /\ c <= finished
      BY QueueFacts, BoundsAreNat DEF Ids, IInv, UnusedInv
    <3> QED BY <3>1 DEF KeepsOpen, IsBlock
  <2> QED BY <2>1 DEF FinishedPieces
<1>2. CASE FinishedPieces = {}
  BY <1>1, <1>2, OpenFacts, OpenFactsNext
<1>3. CASE FinishedPieces # {}
  <2>1. PICK l \in Ids : LastFinished(l)
    BY <1>3, LastFinishedExists
  <2>2. LastFinished(l)' /\ l <= finished /\ InList(l)
    BY <1>1, <2>1, FinishedPiecesFacts DEF LastFinished
  <2>3. desc'[l] = desc[l] /\ fragOf'[l] = fragOf[l] /\ offsetOf'[l] = offsetOf[l]
    BY <2>2 DEF KeepsOpen
  <2>4. CASE IsClosing(l)
    <3>1. IsClosing(l)'
      BY <2>3, <2>4 DEF IsClosing
    <3> QED BY <2>1, <2>2, <2>4, <3>1, OpenFacts, OpenFactsNext
  <2>5. CASE IsPiece(l)
    <3>1. IsPiece(l)'
      BY <2>3, <2>5 DEF IsPiece
    <3>2. PICK b : b = fragOf[l]
      OBVIOUS
    <3>3. b \in DOMAIN fragments
      BY <2>2, <2>5, <3>2, FinishedInBlock
    <3>4. PICK i \in DOMAIN fragments[b].pieces : fragments[b].pieces[i] = l
      BY <2>2, <2>5, <3>2, FinishedInBlock
    <3>5. /\ b \in DOMAIN fragments' /\ i \in DOMAIN fragments'[b].pieces
          /\ fragments'[b].pieces[i] = l
      BY <3>3, <3>4 DEF KeepsOpen
    <3>6. /\ OpenPieces = SubSeq(fragments[b].pieces, 1, i)
          /\ OpenFill = offsetOf[l] + desc[l].size
      BY <2>1, <2>5, <3>2, <3>4, OpenFacts DEF OpenUpTo
    <3>7. /\ OpenPieces' = SubSeq(fragments'[b].pieces, 1, i)
          /\ OpenFill' = offsetOf'[l] + desc'[l].size
      BY <2>2, <2>3, <3>1, <3>2, <3>5, OpenFactsNext DEF OpenUpTo
    <3>8. SubSeq(fragments'[b].pieces, 1, i) = SubSeq(fragments[b].pieces, 1, i)
      <4>1. fragments[b].pieces \in Seq(Ids)
        BY <3>3, PiecesFacts
      <4>2. fragments'[b].pieces \in Seq(Ids)
        <5>1. fragments' \in Seq(FragmentType)
          BY DEF IInv, TypeOK
        <5>2. fragments'[b] \in FragmentType
          BY <3>5, <5>1
        <5> QED BY <5>2 DEF FragmentType
      <4>3. \A j \in DOMAIN fragments[b].pieces :
               j \in DOMAIN fragments'[b].pieces /\ fragments'[b].pieces[j] = fragments[b].pieces[j]
        BY <3>3 DEF KeepsOpen
      <4> QED BY <3>4, <4>1, <4>2, <4>3, FrontSame
    <3> QED BY <2>3, <3>6, <3>7, <3>8
  <2> QED BY <2>2, <2>4, <2>5 DEF InList, IsClosing, IsPiece
<1> QED BY <1>2, <1>3

\* Steps that move no piece between blocks.
LEMMA QuietOpen ==
    ASSUME IInv, LayoutQuiet
    PROVE  KeepsOpen
<1>1. /\ UNCHANGED <<desc, fragOf, offsetOf>>
      /\ fragments' \in Seq(FragmentType) /\ Len(fragments') = Len(fragments)
      /\ \A b \in DOMAIN fragments : fragments'[b].pieces = fragments[b].pieces
  BY DEF LayoutQuiet, listVars, fragVars
<1>2. DOMAIN fragments' = DOMAIN fragments
  BY <1>1 DEF IInv, TypeOK
<1> QED BY <1>1, <1>2 DEF KeepsOpen

\* Assignment adds a piece behind the others, which is not finished.
LEMMA AssignOpen ==
    ASSUME IInv, PackInv, NEW t \in Threads, AssignPiece(t)
    PROVE  KeepsOpen
<1>1. PICK c : c = Head(workq["assign"])
  OBVIOUS
<1>2. /\ c \in Ids /\ state[c] = ChunkDeduplicated /\ InList(c) /\ PredecessorAssigned(c)
      /\ PlacePiece(c) /\ desc' = desc
  BY <1>1, AssignPieceFacts DEF listVars
<1>3. ASSUME NEW e \in Ids, e <= finished PROVE e # c
  <2>1. state[e] = ChunkFinished
    BY <1>3 DEF IInv, WriteoutInOrder
  <2> QED BY <1>2, <2>1 DEF ChunkDeduplicated, ChunkFinished
<1>4. CASE IsClosing(c)
  <2>1. UNCHANGED <<fragments, fragOf, offsetOf>>
    BY <1>2, <1>4 DEF PlacePiece
  <2> QED BY <1>2, <2>1 DEF KeepsOpen
<1>5. CASE IsPiece(c)
  <2>0. fragments \in Seq(FragmentType) /\ DOMAIN fragments = 1 .. Len(fragments)
    BY DEF IInv, TypeOK
  <2>1. CASE NeedsFragmentBlock(c)
    <3>1. PICK b : b = Len(fragments) + 1
      OBVIOUS
    <3>2. PlacedNew(c, b)
      BY <1>2, <1>5, <2>1, <3>1, PlaceShape
    <3>3. /\ \A k \in DOMAIN fragments : k \in DOMAIN fragments' /\ fragments'[k] = fragments[k]
          /\ \A e \in Ids \ {c} : fragOf'[e] = fragOf[e] /\ offsetOf'[e] = offsetOf[e]
      BY <2>0, <3>1, <3>2 DEF PlacedNew, PlacedIn
    <3> QED BY <1>2, <1>3, <3>3 DEF KeepsOpen
  <2>2. CASE ~NeedsFragmentBlock(c)
    <3>1. PICK b : b = FlushedBlock(c)
      OBVIOUS
    <3>2. PlacedBehind(c, b)
      BY <1>2, <1>5, <2>2, <3>1, PlaceShape
    <3>3. /\ \A k \in DOMAIN fragments : k # b => fragments'[k] = fragments[k]
          /\ \A e \in Ids \ {c} : fragOf'[e] = fragOf[e] /\ offsetOf'[e] = offsetOf[e]
          /\ b \in DOMAIN fragments /\ fragments'[b].pieces = Append(fragments[b].pieces, c)
      BY <3>2 DEF PlacedBehind, PlacedIn
    <3>4. DOMAIN fragments' = DOMAIN fragments
      BY <2>0, <3>2 DEF PlacedBehind, PlacedIn
    <3>5. \A i \in DOMAIN fragments[b].pieces :
             /\ i \in DOMAIN fragments'[b].pieces
             /\ fragments'[b].pieces[i] = fragments[b].pieces[i]
      <4>1. fragments[b].pieces \in Seq(Ids)
        BY <3>3, PiecesFacts
      <4> QED BY <1>2, <3>3, <4>1, AppendShape
    <3>6. \A k \in DOMAIN fragments : \A i \in DOMAIN fragments[k].pieces :
             /\ k \in DOMAIN fragments' /\ i \in DOMAIN fragments'[k].pieces
             /\ fragments'[k].pieces[i] = fragments[k].pieces[i]
      <4> SUFFICES ASSUME NEW k \in DOMAIN fragments, NEW i \in DOMAIN fragments[k].pieces
                   PROVE  /\ k \in DOMAIN fragments' /\ i \in DOMAIN fragments'[k].pieces
                          /\ fragments'[k].pieces[i] = fragments[k].pieces[i]
        OBVIOUS
      <4>1. CASE k = b
        BY <3>4, <3>5, <4>1
      <4>2. CASE k # b
        BY <3>3, <3>4, <4>2
      <4> QED BY <4>1, <4>2
    <3> QED BY <1>2, <1>3, <3>3, <3>6 DEF KeepsOpen
  <2> QED BY <2>1, <2>2
<1> QED BY <1>2, <1>4, <1>5 DEF InList, IsClosing, IsPiece

\* What OrderedImage sees of a step that submits and finishes nothing: nothing.
LEMMA SilentStep ==
    ASSUME IInv, PackInv, IInv', PackInv', KeepsOpen, UNCHANGED <<desc, count, finished, disk>>
    PROVE  UNCHANGED Sequential!vars
<1>1. OpenPieces' = OpenPieces /\ OpenFill' = OpenFill
  BY OpenKept
<1>2. Submitted' = Submitted
  BY DEF Submitted
<1> QED BY <1>1, <1>2 DEF Sequential!vars

LEMMA CalmRefines ==
    ASSUME IInv, PackInv, IInv', PackInv', UNCHANGED bulkVars
    PROVE  UNCHANGED Sequential!vars
<1>1. /\ UNCHANGED <<listVars, fragVars, fragments, state>>
      /\ UNCHANGED <<desc, count, finished, disk, workq>>
  BY DEF bulkVars, listVars, fragVars
<1>2. KeepsOpen
  BY <1>1, StillQuiet, QuietOpen
<1> QED BY <1>1, <1>2, SilentStep

LEMMA WorkRefines ==
    ASSUME IInv, PackInv, IInv', PackInv', NEW t \in Threads,
           \/ StartWrite(t) \/ StartCompress(t) \/ AssignBlock(t) \/ AssignPiece(t)
           \/ AssignFail(t) \/ Deduplicate(t) \/ StartRead(t) \/ ReadDone(t)
           \/ CompressDone(t) \/ Abort(t)
    PROVE  UNCHANGED Sequential!vars
<1>1. UNCHANGED <<desc, count, finished, disk>>
  BY DEF StartWrite, StartCompress, AssignBlock, AssignPiece, AssignFail, Deduplicate, StartRead,
         ReadDone, CompressDone, Abort, listVars
<1>2. KeepsOpen
  <2>1. CASE AssignPiece(t)
    BY <2>1, AssignOpen
  <2>2. CASE AssignFail(t)
    <3>1. UNCHANGED <<fragments, fragOf, offsetOf>>
      BY <2>2 DEF AssignFail
    <3> QED BY <1>1, <3>1 DEF KeepsOpen
  <2>3. CASE ~AssignPiece(t) /\ ~AssignFail(t)
    BY <2>3, ThreadQuiet, QuietOpen DEF PackQuietStep
  <2> QED BY <2>1, <2>2, <2>3
<1> QED BY <1>1, <1>2, SilentStep

-----------------------------------------------------------------------------
(* Submission.                                                             *)

LEMMA EnqueueRefines ==
    ASSUME IInv, PackInv, IInv', PackInv', NEW d, EnqueueMove(d)
    PROVE  Sequential!Next
<1>1. PICK c : c = count + 1
  OBVIOUS
<1>2. /\ c \in Ids /\ c > count /\ count \in Nat
      /\ UNCHANGED <<fragVars, finished, fragments, disk>> /\ count' = c
      /\ desc'[c] = d /\ \A e \in Ids \ {c} : desc'[e] = desc[e]
  BY <1>1, EnqueueFacts
<1>3. finished \in Nat /\ finished <= count /\ UNCHANGED <<fragOf, offsetOf>>
  BY <1>2, QueueFacts DEF IInv, UnusedInv, fragVars
<1>4. KeepsOpen
  <2>1. \A e \in Ids : e <= finished => e # c
    BY <1>2, <1>3 DEF Ids
  <2> QED BY <1>2, <1>3, <2>1 DEF KeepsOpen
<1>5. OpenPieces' = OpenPieces /\ OpenFill' = OpenFill
  BY <1>2, <1>4, OpenKept
<1>6. Submitted' = Append(Submitted, d)
  <2>1. \A i \in 1 .. count : i \in Ids \ {c}
    BY <1>1, <1>2, QueueFacts, BoundsAreNat DEF Ids
  <2>2. Submitted' = [i \in 1 .. count + 1 |-> IF i = count + 1 THEN d ELSE desc[i]]
    <3>1. \A i \in 1 .. count + 1 : desc'[i] = IF i = count + 1 THEN d ELSE desc[i]
      BY <1>1, <1>2, <2>1
    <3>2. Submitted' = [i \in 1 .. count + 1 |-> desc'[i]]
      BY <1>1, <1>2 DEF Submitted
    <3> QED BY <3>1, <3>2
  <2>3. PICK S : S = Submissions \cup {ClosingDesc, UnusedDesc}
    OBVIOUS
  <2>4. Submitted \in Seq(S) /\ Len(Submitted) = count /\ d \in S
    <3>1. \A i \in 1 .. count : desc[i] \in S
      BY <2>1, <2>3 DEF IInv, TypeOK
    <3> QED BY <1>2, <2>3, <3>1 DEF Submitted, EnqueueMove
  <2>5. /\ Append(Submitted, d) \in Seq(S) /\ Len(Append(Submitted, d)) = count + 1
        /\ \A i \in 1 .. count + 1 : Append(Submitted, d)[i] = IF i = count + 1 THEN d ELSE desc[i]
    BY <1>2, <2>4 DEF Submitted
  <2>6. /\ Submitted' \in Seq(S) /\ Len(Submitted') = count + 1
        /\ \A i \in 1 .. count + 1 : Submitted'[i] = IF i = count + 1 THEN d ELSE desc[i]
    <3>1. \A i \in 1 .. count + 1 : (IF i = count + 1 THEN d ELSE desc[i]) \in S
      BY <2>1, <2>3, <2>4, <1>2 DEF IInv, TypeOK
    <3> QED BY <1>2, <2>2, <3>1
  <2>7. \A i \in 1 .. Len(Submitted') : Submitted'[i] = Append(Submitted, d)[i]
    BY <2>5, <2>6
  <2> QED BY <2>5, <2>6, <2>7, SeqEqual
<1>7. \A i \in DOMAIN Submitted : Submitted[i] # ClosingDesc
  <2>1. ClosingDesc.kind = "closing"
    BY Zenon DEF ClosingDesc
  <2>2. \A e \in Ids : ~IsClosing(e)
    BY DEF IInv, PieceInv, EnqueueMove, BeforeClosing
  <2>3. \A i \in 1 .. count : i \in Ids
    BY <1>2, QueueFacts, BoundsAreNat DEF Ids
  <2> QED BY <2>1, <2>2, <2>3 DEF Submitted, IsClosing
<1>8. Sequential!Closing = ClosingDesc
  BY Zenon DEF Sequential!Closing, ClosingDesc
<1>9. Sequential!Submit(d)
  BY <1>2, <1>5, <1>6, <1>7, <1>8 DEF Sequential!Submit
<1>10. d \in Submissions \cup {ClosingDesc}
  BY DEF EnqueueMove
<1> QED BY <1>8, <1>9, <1>10 DEF Sequential!Next

-----------------------------------------------------------------------------
(* Chunks that are finished.                                               *)

\* Chunk c is the next to finish, and nothing else happens to the layout.
Finishes(c) ==
    /\ c \in Ids /\ c <= count /\ c = finished + 1 /\ finished' = c
    /\ UNCHANGED <<desc, count, prevPiece, fragOf, offsetOf, flush>>
    /\ fragments' \in Seq(FragmentType) /\ Len(fragments') = Len(fragments)
    /\ \A b \in DOMAIN fragments : fragments'[b].pieces = fragments[b].pieces

LEMMA FinishesFacts ==
    ASSUME IInv, NEW t \in Threads, NEW c,
           \/ FinishPiece(t) /\ c = Head(workq["write"])
           \/ WriteDone(t) /\ c = cur[t]
    PROVE  Finishes(c) /\ state[c] = ChunkWritable
<1>1. c \in Ids /\ c <= count /\ c = finished + 1 /\ finished' = c /\ state[c] = ChunkWritable
  BY FinishPieceFacts, WriteDoneFacts
<1>2. LayoutQuiet
  BY ThreadQuiet DEF PackQuietStep
<1> QED BY <1>1, <1>2 DEF Finishes, LayoutQuiet, listVars, fragVars

\* The last finished piece before the next one is its predecessor in the list.
LEMMA PredecessorFinished ==
    ASSUME IInv, PackInv, NEW c \in Ids, c = finished + 1, InList(c)
    PROVE  /\ prevPiece[c] = 0 => FinishedPieces = {}
           /\ prevPiece[c] # 0 => /\ prevPiece[c] \in Ids /\ prevPiece[c] <= finished
                                  /\ LastFinished(prevPiece[c]) /\ IsPiece(prevPiece[c])
<1>1. prevPiece[c] \in Ids0 /\ prevPiece[c] < c /\ finished \in Nat
  BY QueueFacts DEF IInv, TypeOK, PackInv, ListInv
<1>2. \A d \in FinishedPieces : d \in Ids /\ d < c /\ InList(d)
  BY <1>1, FinishedPiecesFacts, BoundsAreNat DEF Ids
<1>3. \A d \in FinishedPieces : d <= prevPiece[c]
  BY <1>2 DEF PackInv, ListInv
<1>4. prevPiece[c] = 0 => FinishedPieces = {}
  BY <1>2, <1>3, BoundsAreNat DEF Ids
<1>5. ASSUME prevPiece[c] # 0
      PROVE  /\ prevPiece[c] \in Ids /\ prevPiece[c] <= finished
             /\ LastFinished(prevPiece[c]) /\ IsPiece(prevPiece[c])
  <2>1. prevPiece[c] \in Ids /\ prevPiece[c] <= finished
    BY <1>1, <1>5, BoundsAreNat DEF Ids, Ids0
  <2>2. IsPiece(prevPiece[c])
    BY <1>5 DEF IInv, PieceInv, IsPiece
  <2>3. prevPiece[c] \in FinishedPieces
    BY <2>1, <2>2, FinishedPiecesFacts DEF InList, IsPiece
  <2> QED BY <1>3, <2>1, <2>2, <2>3 DEF LastFinished
<1> QED BY <1>4, <1>5

\* Afterwards the next one is the last, or nothing has changed if it is a block.
LEMMA FinishedPiecesGrow ==
    ASSUME IInv, NEW c, Finishes(c)
    PROVE  /\ IsBlock(c) => FinishedPieces' = FinishedPieces
           /\ ~IsBlock(c) => LastFinished(c)'
<1>1. c \in Ids /\ c = finished + 1 /\ finished' = c /\ finished \in Nat /\ c \in Nat /\ desc' = desc
  BY QueueFacts DEF Finishes
<1>2. \A d : d \in 1 .. c <=> d \in 1 .. finished \/ d = c
  BY <1>1
<1>3. \A d : IsBlock(d)' <=> IsBlock(d)
  BY <1>1 DEF IsBlock
<1>4. FinishedPieces' = {d \in 1 .. c : ~IsBlock(d)}
  BY <1>1, <1>3 DEF FinishedPieces
<1>5. IsBlock(c) => FinishedPieces' = FinishedPieces
  BY <1>2, <1>4 DEF FinishedPieces
<1>6. ASSUME ~IsBlock(c) PROVE LastFinished(c)'
  <2>1. c \in FinishedPieces' /\ \A d \in FinishedPieces' : d <= c
    BY <1>1, <1>4, <1>6
  <2> QED BY <2>1 DEF LastFinished
<1> QED BY <1>5, <1>6

\* A finished piece as the last of the open block.
LEMMA PieceOpen ==
    ASSUME IInv, PackInv, IInv', PackInv', NEW c, Finishes(c), IsPiece(c),
           NEW i \in DOMAIN fragments[fragOf[c]].pieces, fragments[fragOf[c]].pieces[i] = c,
           fragOf[c] \in DOMAIN fragments
    PROVE  /\ OpenPieces' = SubSeq(fragments[fragOf[c]].pieces, 1, i)
           /\ OpenFill' = offsetOf[c] + desc[c].size
<1>1. PICK b : b = fragOf[c]
  OBVIOUS
<1>2. /\ c \in Ids /\ desc' = desc /\ fragOf' = fragOf /\ offsetOf' = offsetOf
      /\ fragments'[b].pieces = fragments[b].pieces
  BY <1>1 DEF Finishes
<1>3. LastFinished(c)' /\ IsPiece(c)'
  BY <1>2, FinishedPiecesGrow DEF IsPiece, IsBlock
<1>4. OpenUpTo(c, i)'
  BY <1>1, <1>2, <1>3, OpenFactsNext
<1>5. OpenPieces' = SubSeq(fragments'[fragOf'[c]].pieces, 1, i) /\ OpenFill' = offsetOf'[c] + desc'[c].size
  BY <1>4 DEF OpenUpTo
<1> QED BY <1>1, <1>2, <1>5

\* The submitted chunks as OrderedImage has them.
LEMMA SubmittedFacts ==
    ASSUME IInv
    PROVE  /\ Len(Submitted) = count /\ DOMAIN Submitted = 1 .. count
           /\ \A c \in Ids : c <= count => c \in 1 .. count /\ Submitted[c] = desc[c]
<1>1. count \in Nat /\ \A i \in 1 .. count : i \in Ids
  BY QueueFacts, BoundsAreNat DEF Ids
<1>2. Submitted \in Seq(Submissions \cup {ClosingDesc, UnusedDesc})
  <2>1. \A i \in 1 .. count : desc[i] \in Submissions \cup {ClosingDesc, UnusedDesc}
    BY <1>1 DEF IInv, TypeOK
  <2> QED BY <1>1, <2>1 DEF Submitted
<1>3. DOMAIN Submitted = 1 .. count
  BY DEF Submitted
<1>4. Len(Submitted) = count
  BY <1>1, <1>2, <1>3
<1>5. \A c \in Ids : c <= count => c \in 1 .. count
  BY <1>1, BoundsAreNat DEF Ids
<1> QED BY <1>3, <1>4, <1>5 DEF Submitted

\* A block is written as OrderedImage writes it.
LEMMA WriteStored ==
    ASSUME IInv, PackInv, ImageInv, NEW t \in Threads, WriteDone(t), NEW c, c = cur[t]
    PROVE  /\ IsBlock(c) => disk' = Sequential!Stored(<<c>>, desc[c].size, CompressBlocks)
           /\ ~IsBlock(c) => disk' = Sequential!Stored(fragments[FlushedBlock(c)].pieces,
                                        fragments[FlushedBlock(c)].size, CompressFragments)
<1>1. /\ c \in Ids /\ c <= count /\ state[c] = ChunkWritable /\ WritesBlock(c)
      /\ disk' = Append(disk, ImageBlockOf(c)) /\ pc[t] = "write"
  BY WriteDoneFacts
<1>2. PICK blk : blk = ImageBlockOf(c)
  OBVIOUS
<1>3. PICK z : z = Compressed(c)
  OBVIOUS
<1>4. blk \in ImageBlockType /\ z \in ImageBlockType
  BY <1>1, <1>2, <1>3, ImageBlockFacts, CompressedFacts
<1>5. [blk EXCEPT !.offset = -1] = z /\ blk.offset = DiskEnd
  BY <1>1, <1>2, <1>3 DEF ImageInv, ContentInv, WrittenContent, PlaceInv, DiskShape
<1>6. blk = [z EXCEPT !.offset = DiskEnd]
  BY <1>4, <1>5 DEF ImageBlockType
<1>7. Sequential!End = DiskEnd
  BY DEF Sequential!End, DiskEnd, LastOf
<1>8. PICK cs : cs = SourcesOf(c)
  OBVIOUS
<1>9. [i \in DOMAIN cs |-> Submitted[cs[i]].data] = BytesOf(cs)
  <2>1. \A i \in DOMAIN cs : cs[i] \in Ids /\ cs[i] <= count
    <3>1. ASSUME NEW i \in DOMAIN cs PROVE cs[i] \in Ids /\ cs[i] <= count
      <4>1. cs[i] \in Elems(cs)
        BY DEF Elems
      <4>2. cs[i] \in Ids /\ (cs[i] = c \/ IsAssigned(cs[i]))
        BY <1>1, <1>8, <4>1, SourcesFacts
      <4>3. CASE cs[i] # c
        <5>1. state[cs[i]] # ChunkNone
          BY <4>2, <4>3 DEF IsAssigned, ChunkAssigned, ChunkNone
        <5>2. ~(cs[i] > count)
          BY <4>2, <5>1 DEF IInv, UnusedInv
        <5> QED BY <4>2, <5>2, QueueFacts, BoundsAreNat DEF Ids
      <4> QED BY <1>1, <4>2, <4>3
    <3> QED BY <3>1
  <2>2. \A i \in DOMAIN cs : Submitted[cs[i]] = desc[cs[i]]
    BY <2>1, SubmittedFacts
  <2> QED BY <2>2 DEF BytesOf
<1>10. ASSUME NEW x, NEW n, NEW y PROVE Sequential!ImageBlock(x, n, y) = ImageBlock(x, n, y)
  BY Zenon DEF Sequential!ImageBlock, ImageBlock, Sequential!CompressorInstanceCompress,
               CompressorInstanceCompress
<1>11. ASSUME NEW n, NEW y, z = ImageBlock(BytesOf(cs), n, y)
       PROVE  disk' = Sequential!Stored(cs, n, y)
  <2>1. Sequential!Stored(cs, n, y) = Append(disk, [z EXCEPT !.offset = DiskEnd])
    BY <1>7, <1>9, <1>10, <1>11 DEF Sequential!Stored
  <2> QED BY <1>1, <1>2, <1>6, <2>1
<1>12. CASE IsBlock(c)
  BY <1>3, <1>8, <1>11, <1>12 DEF Compressed, SourcesOf
<1>13. CASE ~IsBlock(c)
  BY <1>3, <1>8, <1>11, <1>13 DEF Compressed, SourcesOf
<1> QED BY <1>12, <1>13

\* A full block.
LEMMA BlockRefines ==
    ASSUME IInv, PackInv, ImageInv, IInv', PackInv', NEW t \in Threads, WriteDone(t), IsBlock(cur[t])
    PROVE  Sequential!Write
<1>1. PICK c : c = cur[t]
  OBVIOUS
<1>2. Finishes(c) /\ finished \in Nat
  BY <1>1, FinishesFacts, QueueFacts
<1>3. disk' = Sequential!Stored(<<c>>, desc[c].size, CompressBlocks)
  BY <1>1, WriteStored
<1>4. LayoutQuiet
  BY ThreadQuiet DEF PackQuietStep
<1>5. FinishedPieces' = FinishedPieces
  BY <1>1, <1>2, FinishedPiecesGrow
<1>6. OpenPieces' = OpenPieces /\ OpenFill' = OpenFill
  <2>1. /\ UNCHANGED <<desc, fragOf, offsetOf>>
        /\ \A b \in DOMAIN fragments : fragments'[b].pieces = fragments[b].pieces
    BY <1>2 DEF Finishes
  <2>2. CASE FinishedPieces = {}
    BY <1>5, <2>2, OpenFacts, OpenFactsNext
  <2>3. CASE FinishedPieces # {}
    <3>1. PICK l \in Ids : LastFinished(l)
      BY <2>3, LastFinishedExists
    <3>2. LastFinished(l)' /\ l <= finished /\ InList(l)
      BY <1>5, <3>1, FinishedPiecesFacts DEF LastFinished
    <3>3. CASE IsClosing(l)
      <4>1. IsClosing(l)'
        BY <2>1, <3>3 DEF IsClosing
      <4> QED BY <3>1, <3>2, <3>3, <4>1, OpenFacts, OpenFactsNext
    <3>4. CASE IsPiece(l)
      <4>1. IsPiece(l)'
        BY <2>1, <3>4 DEF IsPiece
      <4>2. PICK b : b = fragOf[l]
        OBVIOUS
      <4>3. PICK i \in DOMAIN fragments[b].pieces : fragments[b].pieces[i] = l
        BY <3>2, <3>4, <4>2, FinishedInBlock
      <4>4. fragments'[b].pieces = fragments[b].pieces
        BY <2>1, <3>2, <3>4, <4>2, FinishedInBlock
      <4>5. OpenUpTo(l, i)
        BY <3>1, <3>4, <4>2, <4>3, OpenFacts
      <4>6. OpenUpTo(l, i)'
        BY <2>1, <3>2, <4>1, <4>2, <4>3, <4>4, OpenFactsNext
      <4>7. OpenPieces' = SubSeq(fragments'[b].pieces, 1, i) /\ OpenFill' = offsetOf[l] + desc[l].size
        BY <2>1, <4>2, <4>6 DEF OpenUpTo
      <4> QED BY <4>2, <4>4, <4>5, <4>7 DEF OpenUpTo
    <3> QED BY <3>2, <3>3, <3>4 DEF InList, IsClosing, IsPiece
  <2> QED BY <2>2, <2>3
<1>7. Submitted[c] = desc[c] /\ finished < Len(Submitted) /\ Submitted' = Submitted
  <2>1. Submitted' = Submitted
    BY <1>2 DEF Finishes, Submitted
  <2> QED BY <1>2, <2>1, SubmittedFacts, QueueFacts DEF Finishes
<1>8. c = finished + 1 /\ finished' = finished + 1 /\ desc[c].kind = "block"
  BY <1>1, <1>2 DEF Finishes, IsBlock
<1>9. Sequential!WriteBlock
  BY <1>3, <1>6, <1>7, <1>8 DEF Sequential!WriteBlock
<1> QED BY <1>7, <1>8, <1>9 DEF Sequential!Write

\* A piece that joins the open block.
LEMMA PieceRefines ==
    ASSUME IInv, PackInv, IInv', PackInv', NEW c, Finishes(c), IsPiece(c), ~flush[c],
           state[c] = ChunkWritable, disk' = disk
    PROVE  Sequential!Write
<1>1. /\ c \in Ids /\ c <= count /\ c = finished + 1 /\ finished' = finished + 1
      /\ finished \in Nat /\ InList(c)
  BY QueueFacts DEF Finishes, InList, IsPiece
<1>2. Submitted[c] = desc[c] /\ finished < Len(Submitted) /\ Submitted' = Submitted
  <2>1. Submitted' = Submitted
    BY DEF Finishes, Submitted
  <2> QED BY <1>1, <2>1, SubmittedFacts, QueueFacts
<1>3. IsAssigned(c)
  BY DEF IsAssigned, ChunkWritable, ChunkAssigned
<1>4. PICK b : b = fragOf[c]
  OBVIOUS
<1>5. PICK ps : ps = fragments[b].pieces
  OBVIOUS
<1>6. b \in DOMAIN fragments /\ \E i \in DOMAIN ps : ps[i] = c
  BY <1>1, <1>3, <1>4, <1>5 DEF IInv, FragmentInv, PackInv, LayoutInv, IsPiece, IsAssigned
<1>7. PICK i \in DOMAIN ps : ps[i] = c
  BY <1>6
<1>8. OpenPieces' = SubSeq(ps, 1, i) /\ OpenFill' = offsetOf[c] + desc[c].size
  BY <1>4, <1>5, <1>6, <1>7, PieceOpen
<1>9. /\ ps \in Seq(Ids) /\ Len(ps) \in Nat /\ DOMAIN ps = 1 .. Len(ps)
      /\ \A j \in DOMAIN ps : ps[j] \in Ids
      /\ fragments[b].size \in Nat /\ fragments[b].size <= BlockSize
      /\ offsetOf[ps[1]] = 0
      /\ \A j \in DOMAIN ps : offsetOf[ps[j]] + desc[ps[j]].size <= fragments[b].size
      /\ \A j \in 1 .. Len(ps) - 1 :
            prevPiece[ps[j + 1]] = ps[j] /\ offsetOf[ps[j + 1]] = offsetOf[ps[j]] + desc[ps[j]].size
      /\ \A j, k \in DOMAIN ps : j < k => ps[j] < ps[k]
  BY <1>5, <1>6, PiecesFacts DEF PackInv, LayoutInv, BlockLayout
<1>10. IF prevPiece[c] = 0 THEN ps[1] = c ELSE b = fragOf[prevPiece[c]]
  BY <1>1, <1>3, <1>4, <1>5 DEF PackInv, FlushInv, FlushedBlock
<1>11. desc[c].size \in Nat /\ offsetOf[c] \in Int
  BY <1>1, DescFacts DEF IInv, TypeOK
<1>12. offsetOf[c] + desc[c].size <= BlockSize
  <2>1. offsetOf[c] + desc[c].size <= fragments[b].size
    BY <1>7, <1>9
  <2> QED BY <1>9, <1>11, <2>1, BlockSizePositive
<1>13. OpenPieces' = Append(OpenPieces, c) /\ OpenFill = offsetOf[c]
  <2>1. CASE prevPiece[c] = 0
    <3>1. OpenPieces = <<>> /\ OpenFill = 0
      BY <1>1, <2>1, PredecessorFinished, OpenFacts
    <3>2. ps[1] = c /\ 1 \in DOMAIN ps
      BY <1>7, <1>9, <1>10, <2>1
    <3>3. i = 1
      <4>1. ~(1 < i)
        <5>1. 1 < i => ps[1] < ps[i]
          BY <1>7, <1>9, <3>2
        <5>2. ~(c < c)
          BY <1>1
        <5> QED BY <1>7, <3>2, <5>1, <5>2
      <4> QED BY <1>7, <1>9, <4>1
    <3>4. OpenPieces' = <<c>>
      BY <1>8, <1>9, <3>2, <3>3, FrontEnds
    <3> QED BY <1>9, <3>1, <3>2, <3>4
  <2>2. CASE prevPiece[c] # 0
    <3>1. PICK p : p = prevPiece[c]
      OBVIOUS
    <3>2. p \in Ids /\ p <= finished /\ LastFinished(p) /\ IsPiece(p) /\ fragOf[p] = b
      BY <1>1, <1>10, <2>2, <3>1, PredecessorFinished
    <3>3. PICK k \in DOMAIN ps : ps[k] = p
      BY <1>5, <3>2, FinishedInBlock
    <3>4. p < c /\ p \in Nat /\ c \in Nat
      BY <1>1, <3>2 DEF Ids
    <3>5. k < i
      <4>1. ~(i < k) /\ i # k
        BY <1>7, <1>9, <3>3, <3>4
      <4> QED BY <1>7, <1>9, <3>3, <4>1
    <3>6. i - 1 \in 1 .. Len(ps) - 1 /\ i - 1 \in DOMAIN ps /\ (i - 1) + 1 = i
      BY <1>7, <1>9, <3>3, <3>5
    <3>7. ps[i - 1] = p /\ offsetOf[c] = offsetOf[p] + desc[p].size
      BY <1>7, <1>9, <3>1, <3>6
    <3>8. k = i - 1
      <4>1. ~(k < i - 1)
        <5>1. k < i - 1 => ps[k] < ps[i - 1]
          BY <1>9, <3>3, <3>6
        <5> QED BY <3>3, <3>4, <3>7, <5>1
      <4> QED BY <1>7, <1>9, <3>3, <3>5, <4>1
    <3>9. OpenPieces = SubSeq(ps, 1, k) /\ OpenFill = offsetOf[p] + desc[p].size
      BY <1>5, <3>2, <3>3, OpenFacts DEF OpenUpTo
    <3>10. k + 1 = i /\ k + 1 \in DOMAIN ps /\ ps[k + 1] = c
      BY <1>7, <3>6, <3>8
    <3>11. SubSeq(ps, 1, k + 1) = Append(SubSeq(ps, 1, k), ps[k + 1])
      BY <1>9, <3>3, <3>10, FrontGrows
    <3> QED BY <1>8, <3>7, <3>9, <3>10, <3>11
  <2> QED BY <2>1, <2>2
<1>14. Sequential!AddPiece
  BY <1>1, <1>2, <1>8, <1>12, <1>13 DEF Sequential!AddPiece, IsPiece
<1> QED BY <1>1, <1>2, <1>14 DEF Sequential!Write

\* The block that a chunk flushes is the open block, all of it.
LEMMA FlushedIsOpen ==
    ASSUME IInv, PackInv, NEW c \in Ids, c = finished + 1, flush[c], InList(c)
    PROVE  /\ OpenPieces = fragments[FlushedBlock(c)].pieces /\ OpenPieces # <<>>
           /\ OpenFill = fragments[FlushedBlock(c)].size
<1>1. PICK p : p = prevPiece[c]
  OBVIOUS
<1>2. PICK b : b = FlushedBlock(c)
  OBVIOUS
<1>3. PICK ps : ps = fragments[b].pieces
  OBVIOUS
<1>4. p # 0 /\ b \in DOMAIN fragments /\ ps \in Seq(Ids) /\ ps # <<>>
  BY <1>1, <1>2, <1>3, FlushedFacts
<1>5. LastFinished(p) /\ IsPiece(p) /\ p \in Ids /\ fragOf[p] = b
  BY <1>1, <1>2, <1>4, PredecessorFinished DEF FlushedBlock
<1>6. LastOf(ps) = p
  BY <1>1, <1>2, <1>3 DEF PackInv, FlushInv
<1>7. Len(ps) \in DOMAIN ps /\ ps[Len(ps)] = p
  BY <1>4, <1>6 DEF LastOf
<1>8. OpenUpTo(p, Len(ps))
  BY <1>3, <1>5, <1>7, OpenFacts
<1>9. OpenPieces = SubSeq(ps, 1, Len(ps)) /\ OpenFill = offsetOf[p] + desc[p].size
  BY <1>3, <1>5, <1>8 DEF OpenUpTo
<1>10. SubSeq(ps, 1, Len(ps)) = ps
  BY <1>4, FrontEnds
<1>11. fragments[b].size = offsetOf[p] + desc[p].size
  BY <1>3, <1>4, <1>6 DEF PackInv, LayoutInv, BlockLayout
<1> QED BY <1>2, <1>3, <1>4, <1>9, <1>10, <1>11

\* A piece that does not fit: the open block is written, and it opens the next.
LEMMA FlushRefines ==
    ASSUME IInv, PackInv, ImageInv, IInv', PackInv', NEW t \in Threads, WriteDone(t),
           IsPiece(cur[t])
    PROVE  Sequential!Write
<1>1. PICK c : c = cur[t]
  OBVIOUS
<1>2. Finishes(c) /\ finished \in Nat /\ state[c] = ChunkWritable
  BY <1>1, FinishesFacts, QueueFacts
<1>3. /\ c \in Ids /\ c <= count /\ c = finished + 1 /\ finished' = finished + 1
      /\ InList(c) /\ ~IsBlock(c) /\ IsPiece(c)
  BY <1>1, <1>2 DEF Finishes, InList, IsPiece, IsBlock
<1>4. flush[c]
  BY <1>1, <1>3, WriteDoneFacts DEF WritesBlock
<1>5. Submitted[c] = desc[c] /\ finished < Len(Submitted) /\ Submitted' = Submitted
  <2>1. Submitted' = Submitted
    BY <1>2 DEF Finishes, Submitted
  <2> QED BY <1>2, <1>3, <2>1, SubmittedFacts, QueueFacts
<1>6. PICK b : b = FlushedBlock(c)
  OBVIOUS
<1>7. OpenPieces = fragments[b].pieces /\ OpenFill = fragments[b].size
  BY <1>3, <1>4, <1>6, FlushedIsOpen
<1>8. disk' = Sequential!Stored(OpenPieces, OpenFill, CompressFragments)
  BY <1>1, <1>3, <1>6, <1>7, WriteStored
<1>9. OpenFill + desc[c].size > BlockSize
  BY <1>3, <1>4, <1>6, <1>7 DEF PackInv, FlushInv
<1>10. PICK k : k = fragOf[c]
  OBVIOUS
<1>11. IsAssigned(c)
  BY <1>2 DEF IsAssigned, ChunkWritable, ChunkAssigned
<1>12. k \in DOMAIN fragments /\ fragments[k].pieces[1] = c
  BY <1>3, <1>4, <1>10, <1>11 DEF IInv, FragmentInv, PackInv, FlushInv, IsPiece, IsAssigned
<1>13. /\ fragments[k].pieces \in Seq(Ids) /\ fragments[k].pieces # <<>>
       /\ offsetOf[fragments[k].pieces[1]] = 0
  BY <1>12, PiecesFacts DEF PackInv, LayoutInv, BlockLayout
<1>14. 1 \in DOMAIN fragments[k].pieces
  BY <1>13
<1>15. OpenPieces' = SubSeq(fragments[k].pieces, 1, 1) /\ OpenFill' = offsetOf[c] + desc[c].size
  BY <1>2, <1>3, <1>10, <1>12, <1>14, PieceOpen
<1>16. OpenPieces' = <<c>>
  BY <1>12, <1>13, <1>15, FrontEnds
<1>17. OpenFill' = desc[c].size
  BY <1>3, <1>12, <1>13, <1>15, DescFacts
<1>18. Sequential!FlushAndAddPiece
  BY <1>3, <1>5, <1>8, <1>9, <1>16, <1>17 DEF Sequential!FlushAndAddPiece, IsPiece
<1> QED BY <1>3, <1>5, <1>18 DEF Sequential!Write

\* The closing piece, with or without a block to write.
LEMMA CloseRefines ==
    ASSUME IInv, PackInv, IInv', PackInv', NEW c, Finishes(c), IsClosing(c),
           state[c] = ChunkWritable,
           flush[c] => disk' = Sequential!Stored(fragments[FlushedBlock(c)].pieces,
                                  fragments[FlushedBlock(c)].size, CompressFragments),
           ~flush[c] => disk' = disk
    PROVE  Sequential!Write
<1>1. /\ c \in Ids /\ c <= count /\ c = finished + 1 /\ finished' = finished + 1
      /\ finished \in Nat /\ InList(c) /\ ~IsBlock(c) /\ desc' = desc
  BY QueueFacts DEF Finishes, InList, IsClosing, IsBlock
<1>2. Submitted[c] = desc[c] /\ finished < Len(Submitted) /\ Submitted' = Submitted
  <2>1. Submitted' = Submitted
    BY DEF Finishes, Submitted
  <2> QED BY <1>1, <2>1, SubmittedFacts, QueueFacts
<1>3. desc[c] = Sequential!Closing
  <2>1. desc[c] \in Submissions \cup {ClosingDesc, UnusedDesc}
    BY <1>1 DEF IInv, TypeOK
  <2>2. UnusedDesc.kind = "unused"
    BY Zenon DEF UnusedDesc
  <2>3. desc[c] = ClosingDesc
    BY <2>1, <2>2, SubmissionsFit DEF IsClosing
  <2> QED BY <2>3, Zenon DEF Sequential!Closing, ClosingDesc
<1>4. OpenPieces' = <<>> /\ OpenFill' = 0
  <2>1. LastFinished(c)' /\ IsClosing(c)'
    BY <1>1, FinishedPiecesGrow DEF IsClosing
  <2> QED BY <1>1, <2>1, OpenFactsNext
<1>5. disk' = IF OpenPieces = <<>> THEN disk
              ELSE Sequential!Stored(OpenPieces, OpenFill, CompressFragments)
  <2>1. CASE flush[c]
    BY <1>1, <2>1, FlushedIsOpen
  <2>2. CASE ~flush[c]
    <3>1. IsAssigned(c)
      BY DEF IsAssigned, ChunkWritable, ChunkAssigned
    <3>2. prevPiece[c] = 0
      BY <1>1, <2>2, <3>1 DEF PackInv, FlushInv
    <3>3. OpenPieces = <<>>
      BY <1>1, <3>2, PredecessorFinished, OpenFacts
    <3> QED BY <2>2, <3>3
  <2> QED BY <2>1, <2>2
<1>6. Sequential!Close
  BY <1>1, <1>2, <1>3, <1>4, <1>5 DEF Sequential!Close
<1> QED BY <1>1, <1>2, <1>6 DEF Sequential!Write

\* Every chunk that is finished is dealt with by a step of OrderedImage.
LEMMA FinishRefines ==
    ASSUME IInv, PackInv, ImageInv, IInv', PackInv', NEW t \in Threads,
           FinishPiece(t) \/ WriteDone(t)
    PROVE  Sequential!Next
<1>1. CASE FinishPiece(t)
  <2>1. PICK c : c = Head(workq["write"])
    OBVIOUS
  <2>2. /\ Finishes(c) /\ state[c] = ChunkWritable /\ c \in Ids /\ c <= count
        /\ ~WritesBlock(c) /\ disk' = disk
    BY <1>1, <2>1, FinishesFacts, FinishPieceFacts DEF FinishPiece
  <2>3. ~flush[c] /\ (IsPiece(c) \/ IsClosing(c))
    BY <2>2, DescFacts DEF WritesBlock, IsBlock, IsPiece, IsClosing
  <2>4. Sequential!Write
    BY <2>2, <2>3, PieceRefines, CloseRefines
  <2> QED BY <2>4 DEF Sequential!Next
<1>2. CASE WriteDone(t)
  <2>1. PICK c : c = cur[t]
    OBVIOUS
  <2>2. Finishes(c) /\ state[c] = ChunkWritable /\ c \in Ids /\ c <= count /\ WritesBlock(c)
    BY <1>2, <2>1, FinishesFacts, WriteDoneFacts
  <2>3. CASE IsBlock(c)
    BY <1>2, <2>1, <2>3, BlockRefines DEF Sequential!Next
  <2>4. CASE IsPiece(c)
    BY <1>2, <2>1, <2>4, FlushRefines DEF Sequential!Next
  <2>5. CASE IsClosing(c)
    <3>1. flush[c] /\ ~IsBlock(c)
      BY <2>2, <2>5 DEF WritesBlock, IsBlock, IsClosing
    <3>2. disk' = Sequential!Stored(fragments[FlushedBlock(c)].pieces,
                                    fragments[FlushedBlock(c)].size, CompressFragments)
      BY <1>2, <2>1, <3>1, WriteStored
    <3> QED BY <2>2, <2>5, <3>1, <3>2, CloseRefines DEF Sequential!Next
  <2> QED BY <2>2, <2>3, <2>4, <2>5, DescFacts DEF IsBlock, IsPiece, IsClosing
<1> QED BY <1>1, <1>2

-----------------------------------------------------------------------------
LEMMA InitRefines == Init => Sequential!Init
<1> SUFFICES ASSUME Init PROVE Sequential!Init
  OBVIOUS
<1>1. count = 0 /\ finished = 0 /\ disk = <<>>
  BY DEF Init
<1>2. Submitted = <<>>
  BY <1>1 DEF Submitted
<1>3. FinishedPieces = {}
  BY <1>1 DEF FinishedPieces
<1>4. OpenPieces = <<>> /\ OpenFill = 0
  BY <1>3 DEF OpenPieces, OpenFill, NothingOpen
<1> QED BY <1>1, <1>2, <1>4 DEF Sequential!Init

LEMMA NextRefines ==
    IInv /\ PackInv /\ ImageInv /\ [Next]_vars => [Sequential!Next]_(Sequential!vars)
<1> SUFFICES ASSUME IInv, PackInv, ImageInv, [Next]_vars
             PROVE  Sequential!Next \/ UNCHANGED Sequential!vars
  OBVIOUS
<1>1. IInv' /\ PackInv'
  BY NextInv, NextPack
<1>2. CASE CalmStep
  BY <1>1, <1>2, CalmFacts, CalmRefines
<1>3. CASE SealEnqueue \/ \E d \in Submissions : Submit(d)
  BY <1>1, <1>3, SubmitMove, SealEnqueueMove, EnqueueRefines
<1>4. ASSUME NEW t \in Threads, ThreadStep(t) \/ SpuriousWake(t)
      PROVE  Sequential!Next \/ UNCHANGED Sequential!vars
  <2>1. CASE FinishPiece(t) \/ WriteDone(t)
    BY <1>1, <2>1, FinishRefines
  <2>2. CASE WriteFail(t)
    BY <1>1, <2>2, CalmRefines DEF WriteFail
  <2>3. CASE QuietStep(t) /\ ~WriteFail(t)
    BY <1>2, <2>3 DEF CalmStep
  <2>4. CASE \/ StartWrite(t) \/ StartCompress(t) \/ AssignBlock(t) \/ AssignPiece(t)
             \/ AssignFail(t) \/ Deduplicate(t) \/ StartRead(t) \/ ReadDone(t)
             \/ CompressDone(t) \/ Abort(t)
    BY <1>1, <2>4, WorkRefines
  <2> QED BY <1>4, <2>1, <2>2, <2>3, <2>4 DEF ThreadStep, LoopStep, QuietStep
<1> QED BY <1>2, <1>3, <1>4 DEF Next, PipelineStep, SealStep, CalmStep

\* The image written by any number of threads, in any interleaving and with any
\* failure, is at every moment the image a single thread has written that takes the
\* same chunks in the order of their submission.
THEOREM PipelineImplementsSequential == Spec => SameAsSequential
<1>1. Init => Sequential!Init
  BY InitRefines
<1>2. IInv /\ PackInv /\ ImageInv /\ [Next]_vars => [Sequential!Next]_(Sequential!vars)
  BY NextRefines
<1> QED BY <1>1, <1>2, PipelineInvariant, PackingInvariant, ImageInvariant, PTL
        DEF Spec, SameAsSequential, Sequential!Spec
=============================================================================

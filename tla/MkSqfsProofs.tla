---------------------------- MODULE MkSqfsProofs ----------------------------
(***************************************************************************)
(* Proofs about mksqfs, for every command line and every source.           *)
(*                                                                         *)
(* It balances its handles, whichever call to the system fails.  Holds(h,  *)
(* S) says that exactly the objects S of the heap h are alive and that     *)
(* nothing was used after it was freed.  Every function of module Handles  *)
(* has a lemma on what it makes of S and on the objects it leaves alone;   *)
(* HandlesInv gives each of the three handles of main its own part of S.   *)
(*                                                                         *)
(* It uses the tree of inodes as module InodeTree has it, and the image is *)
(* the source, numbered in the order of names.  Mirrors(f, E) says which   *)
(* inodes, entries and running calls there are when the files with an      *)
(* inode have those of f and the files E have been entered; what is proved *)
(* of the tables of the tree then says what a reader of the image finds.   *)
(***************************************************************************)
EXTENDS MkSqfs, InodeTreeProofs

Algorithms == DOMAIN Compressors
ObjectTypes == {"compressor", "instance", "options", "image", "fd", "destination"}
LiveObject == [type : ObjectTypes, alg : Algorithms \cup {"none"}, to : Seq(Nat)]

Heaps(h) ==
    /\ h = [objs |-> h.objs, calls |-> h.calls, failAt |-> h.failAt, bad |-> h.bad]
    /\ h.objs \in Seq(LiveObject \cup {Freed}) /\ h.calls \in Nat

\* The objects S are alive and no others, and none was used that was not.
Holds(h, S) == Heaps(h) /\ h.bad = FALSE /\ Live(h) = S

\* A step leaves the objects S as they are.
Keeps(h, g, S) == \A p \in S : g.objs[p] = h.objs[p]

\* A handle is NULL and has no objects, or owns the objects S.
Leaf(h, p) == h.objs[p].to = <<>>
CompressorAt(h, c) == Leaf(h, c) /\ h.objs[c].alg \in Algorithms
OptionsAt(h, o, c) == o # c /\ h.objs[o].to = <<c>> /\ CompressorAt(h, c)
OptionsPart(h, o, S) ==
    \/ o = NULL /\ S = {}
    \/ o # NULL /\ \E c : S = {o, c} /\ OptionsAt(h, o, c)
ImageAt(h, i, o, c, n) ==
    /\ i \notin {o, c, n} /\ n \notin {o, c}
    /\ h.objs[i].to = <<o, n>> /\ OptionsAt(h, o, c) /\ Leaf(h, n)
ImagePart(h, i, S) ==
    \/ i = NULL /\ S = {}
    \/ i # NULL /\ \E o, c, n : S = {i, o, c, n} /\ ImageAt(h, i, o, c, n)
DestinationAt(h, d, f) == d # f /\ h.objs[d].to = <<f>> /\ Leaf(h, f)
DestinationPart(h, d, S) ==
    \/ d = NULL /\ S = {}
    \/ d # NULL /\ \E f : S = {d, f} /\ DestinationAt(h, d, f)

Parts(h, o, i, d, S, T, U) ==
    /\ S \cap T = {} /\ S \cap U = {} /\ T \cap U = {}
    /\ OptionsPart(h, o, S) /\ ImagePart(h, i, T) /\ DestinationPart(h, d, U)
    /\ Holds(h, S \cup T \cup U)

\* Which handles there are where.
StageInv ==
    /\ stage = "start" => options = NULL
    /\ stage \in {"start", "options", "destination"} => dest = NULL
    /\ stage \in {"start", "options", "destination", "image"} => image = NULL
    /\ stage \in {"root", "walk", "setroot", "finalize"} => image # NULL

\* The inductive invariant: the handles of main own disjoint parts of the heap, which
\* together are all of it, or parse_options has crashed with its compressor in its hands
\* and there is nothing else.
PartsInv == compressor = NULL /\ \E S, T, U : Parts(heap, options, image, dest, S, T, U)
CrashedInParse ==
    /\ stage = "crashed" /\ options = NULL /\ image = NULL /\ dest = NULL
    /\ compressor # NULL /\ Leaf(heap, compressor) /\ Holds(heap, {compressor})
HandlesInv == StageInv /\ (PartsInv \/ CrashedInParse)

-----------------------------------------------------------------------------
(* The heap.                                                               *)

LEMMA LiveFacts ==
    ASSUME NEW h, NEW S, Holds(h, S)
    PROVE  /\ 0 \notin S
           /\ \A p \in S : p \in DOMAIN h.objs /\ p \in Nat /\ h.objs[p] \in LiveObject
BY DEF Holds, Heaps, Live

\* A record of a type an object may have is not a freed one.
LEMMA NotFreed == \A r \in LiveObject : r # Freed
BY DEF LiveObject, ObjectTypes, Freed

\* A call changes nothing but the number of calls.
LEMMA CallHolds ==
    ASSUME NEW h, NEW S, Holds(h, S)
    PROVE  /\ Call(h) = [objs |-> h.objs, calls |-> h.calls + 1, failAt |-> h.failAt, bad |-> h.bad]
           /\ Call(h).objs = h.objs /\ Holds(Call(h), S)
<1> DEFINE k == [objs |-> h.objs, calls |-> h.calls + 1, failAt |-> h.failAt, bad |-> h.bad]
<1>1. h = [objs |-> h.objs, calls |-> h.calls, failAt |-> h.failAt, bad |-> h.bad] /\ h.calls \in Nat
  BY DEF Holds, Heaps
<1>2. Call(h) = k
  <2>1. PICK o, c, f, b : h = [objs |-> o, calls |-> c, failAt |-> f, bad |-> b]
    BY <1>1
  <2>2. Call(h) = [objs |-> o, calls |-> c + 1, failAt |-> f, bad |-> b]
    BY <2>1 DEF Call
  <2>3. h.objs = o /\ h.calls = c /\ h.failAt = f /\ h.bad = b
    BY <2>1
  <2> QED
    BY <2>2, <2>3
<1>3. k.objs = h.objs /\ k.bad = h.bad
  OBVIOUS
<1>4. Heaps(k)
  BY <1>1 DEF Holds, Heaps
<1>5. Live(k) = Live(h)
  BY <1>3 DEF Live
<1> QED
  BY <1>2, <1>3, <1>4, <1>5 DEF Holds

\* What an allocation returns: a new object, or nothing.
Made(h, r, S, object) ==
    /\ r = [heap |-> r.heap, ptr |-> r.ptr]
    /\ Keeps(h, r.heap, S)
    /\ \/ r.ptr = NULL /\ Holds(r.heap, S)
       \/ /\ r.ptr # NULL /\ r.ptr \in Nat /\ r.ptr \notin S
          /\ Holds(r.heap, S \cup {r.ptr})
          /\ r.heap.objs[r.ptr] = object

LEMMA AllocHolds ==
    ASSUME NEW h, NEW S, Holds(h, S), NEW ty \in ObjectTypes, NEW alg \in Algorithms \cup {"none"},
           NEW to \in Seq(Nat)
    PROVE  Made(h, Alloc(h, ty, alg, to), S, [type |-> ty, alg |-> alg, to |-> to])
<1> DEFINE r == Alloc(h, ty, alg, to)
           rec == [type |-> ty, alg |-> alg, to |-> to]
           g == [objs |-> Append(h.objs, rec), calls |-> h.calls + 1, failAt |-> h.failAt, bad |-> h.bad]
           k == [objs |-> h.objs, calls |-> h.calls + 1, failAt |-> h.failAt, bad |-> h.bad]
<1>1. h = [objs |-> h.objs, calls |-> h.calls, failAt |-> h.failAt, bad |-> h.bad] /\ h.calls \in Nat
  BY DEF Holds, Heaps
<1>2. Call(h) = k /\ Holds(k, S)
  BY CallHolds
<1>3. [Call(h) EXCEPT !.objs = Append(@, rec)] = g
  <2> DEFINE c == h.calls + 1
  <2>1. Call(h) = [objs |-> h.objs, calls |-> c, failAt |-> h.failAt, bad |-> h.bad]
    BY <1>2
  <2> DEFINE t == Append(h.objs, rec)
  <2>2. Append(Call(h).objs, rec) = t
    BY CallHolds, Zenon
  <2> HIDE DEF c, t
  <2>3. [Call(h) EXCEPT !.objs = t]
            = [objs |-> t, calls |-> c, failAt |-> h.failAt, bad |-> h.bad]
    BY <2>1
  <2>4. [Call(h) EXCEPT !.objs = Append(@, rec)] = [Call(h) EXCEPT !.objs = t]
    BY <2>2, Zenon
  <2> QED
    BY <2>3, <2>4 DEF c, t
<1>4. CASE Fails(h)
  <2>1. r = [heap |-> k, ptr |-> NULL]
    BY <1>2, <1>4 DEF Alloc, Fail
  <2> QED
    BY <1>2, <2>1 DEF Keeps, Made
<1>5. CASE ~Fails(h)
  <2>1. r = [heap |-> g, ptr |-> Len(h.objs) + 1]
    BY <1>3, <1>5 DEF Alloc
  <2> DEFINE s == h.objs
             t == Append(s, rec)
             n == Len(s) + 1
  <2>2. rec \in LiveObject
    BY DEF LiveObject
  <2>3. s \in Seq(LiveObject \cup {Freed})
    BY DEF Holds, Heaps
  <2>4. /\ t \in Seq(LiveObject \cup {Freed}) /\ DOMAIN t = DOMAIN s \cup {n} /\ n \notin DOMAIN s
        /\ n \in Nat /\ n # 0 /\ t[n] = rec /\ \A p \in DOMAIN s : t[p] = s[p]
    <3> HIDE DEF rec
    <3> QED
      BY <2>2, <2>3
  <2>5. g.objs = t /\ g.bad = h.bad
    OBVIOUS
  <2>6. Heaps(g)
    BY <1>1, <2>4 DEF Heaps
  <2>7. rec # Freed
    BY <2>2, NotFreed
  <2>8. Live(g) = Live(h) \cup {n}
    <3> HIDE DEF g, t, n, rec
    <3> QED
      BY <2>4, <2>5, <2>7 DEF Live
  <2>9. n \notin S /\ \A p \in S : p \in DOMAIN s
    BY <2>4 DEF Holds, Live
  <2> HIDE DEF g, t, n, rec
  <2>10. Holds(g, S \cup {n}) /\ Keeps(h, g, S) /\ g.objs[n] = rec
    BY <2>4, <2>5, <2>6, <2>8, <2>9 DEF Holds, Keeps
  <2>11. r.heap = g /\ r.ptr = n
    BY <2>1 DEF n
  <2>12. r = [heap |-> r.heap, ptr |-> r.ptr]
    BY <2>1, <2>11 DEF n
  <2> HIDE DEF r
  <2>13. Made(h, r, S, rec)
    BY <2>4, <2>9, <2>10, <2>11, <2>12 DEF NULL, Made
  <2> QED
    BY <2>13 DEF r, rec
<1> QED
  BY <1>4, <1>5

\* Memory that is alive may be used; using it changes nothing.
LEMMA UseHolds ==
    ASSUME NEW h, NEW S, Holds(h, S), NEW p \in S
    PROVE  Use(h, p) = h
BY DEF Holds, Use

LEMMA FreeHolds ==
    ASSUME NEW h, NEW S, Holds(h, S), NEW p \in S
    PROVE  Holds(Free(h, p), S \ {p}) /\ Keeps(h, Free(h, p), S \ {p})
<1> DEFINE t == [h.objs EXCEPT ![p] = Freed]
           g == [objs |-> t, calls |-> h.calls, failAt |-> h.failAt, bad |-> h.bad]
<1>1. h = [objs |-> h.objs, calls |-> h.calls, failAt |-> h.failAt, bad |-> h.bad] /\ h.calls \in Nat
  BY DEF Holds, Heaps
<1>2. p \in Live(h)
  BY DEF Holds
<1>3. Free(h, p) = g
  BY <1>1, <1>2 DEF Free
<1>4. t \in Seq(LiveObject \cup {Freed}) /\ DOMAIN t = DOMAIN h.objs
  BY <1>2 DEF Holds, Heaps, Live
<1>5. t[p] = Freed /\ \A q \in DOMAIN h.objs : q # p => t[q] = h.objs[q]
  BY <1>2 DEF Live
<1>6. g.objs = t /\ g.bad = h.bad
  OBVIOUS
<1>7. Heaps(g)
  BY <1>1, <1>4 DEF Heaps
<1> HIDE DEF g, t
<1>8. Live(g) = Live(h) \ {p}
  BY <1>2, <1>4, <1>5, <1>6 DEF Live
<1> QED
  BY <1>3, <1>5, <1>6, <1>7, <1>8 DEF Holds, Keeps, Live

\* Setting the pointers an object owns.
SetTo(h, p, to) == [h EXCEPT !.objs[p].to = to]
ToSet(h, g, S, p, to) == Holds(g, S) /\ Keeps(h, g, S \ {p}) /\ g.objs[p].to = to

LEMMA SetToHolds ==
    ASSUME NEW h, NEW S, Holds(h, S), NEW p \in S, NEW to \in Seq(Nat)
    PROVE  ToSet(h, SetTo(h, p, to), S, p, to)
<1> DEFINE g == SetTo(h, p, to)
           r == [h.objs[p] EXCEPT !.to = to]
           t == [h.objs EXCEPT ![p] = r]
           k == [objs |-> t, calls |-> h.calls, failAt |-> h.failAt, bad |-> h.bad]
<1>1. h = [objs |-> h.objs, calls |-> h.calls, failAt |-> h.failAt, bad |-> h.bad] /\ h.calls \in Nat
  BY DEF Holds, Heaps
<1>2. p \in DOMAIN h.objs /\ h.objs[p] \in LiveObject
  BY LiveFacts
<1>3. g = k
  <2>1. g = [h EXCEPT !.objs[p].to = to]
    BY Zenon DEF SetTo
  <2> HIDE DEF g
  <2> QED
    BY <1>1, <2>1
<1>4. r \in LiveObject /\ r.to = to
  BY <1>2 DEF LiveObject
<1>5. r # Freed
  BY <1>4, NotFreed
<1> HIDE DEF r
<1>6. t \in Seq(LiveObject \cup {Freed}) /\ DOMAIN t = DOMAIN h.objs
  BY <1>2, <1>4 DEF Holds, Heaps
<1>7. t[p] = r /\ \A q \in DOMAIN h.objs : q # p => t[q] = h.objs[q]
  BY <1>2
<1>8. k.objs = t /\ k.bad = h.bad
  OBVIOUS
<1>9. Heaps(k)
  BY <1>1, <1>6 DEF Heaps
<1> HIDE DEF k, t
<1>10. Live(k) = Live(h)
  BY <1>2, <1>5, <1>6, <1>7, <1>8, NotFreed DEF Live
<1> QED
  BY <1>3, <1>4, <1>7, <1>8, <1>9, <1>10 DEF Holds, Keeps, Live, ToSet

-----------------------------------------------------------------------------
(* Compressors, options, images and destinations.                          *)

LEMMA AlgorithmFacts ==
    /\ Algorithms = {"null", "zlib", "lzma", "xz", "zstd"}
    /\ DefaultCompressor \in Algorithms
    /\ <<>> \in Seq(Nat) /\ \A p \in Nat : <<p>> \in Seq(Nat) /\ \A q \in Nat : <<p, q>> \in Seq(Nat)
BY DEF Algorithms, Compressors, DefaultCompressor

\* What a function that makes a compressor or an instance returns: it, or nothing.
LeafMade(h, r, S) ==
    /\ r = [heap |-> r.heap, ptr |-> r.ptr]
    /\ Keeps(h, r.heap, S)
    /\ \/ r.ptr = NULL /\ Holds(r.heap, S)
       \/ /\ r.ptr # NULL /\ r.ptr \in Nat /\ r.ptr \notin S
          /\ Holds(r.heap, S \cup {r.ptr})
          /\ CompressorAt(r.heap, r.ptr)

LEMMA MadeLeaf ==
    ASSUME NEW h, NEW r, NEW S, NEW ty, NEW alg \in Algorithms,
           Made(h, r, S, [type |-> ty, alg |-> alg, to |-> <<>>])
    PROVE  LeafMade(h, r, S)
<1> DEFINE c == [type |-> ty, alg |-> alg, to |-> <<>>]
<1>1. c.alg = alg /\ c.to = <<>>
  OBVIOUS
<1>2. Made(h, r, S, c)
  OBVIOUS
<1> HIDE DEF c
<1> QED
  BY <1>1, <1>2 DEF Made, LeafMade, CompressorAt, Leaf

LEMMA CompressorCreateHolds ==
    ASSUME NEW h, NEW S, Holds(h, S), NEW alg \in Algorithms
    PROVE  LeafMade(h, CompressorCreate(h, alg), S)
<1> DEFINE r == CompressorCreate(h, alg)
           c == [type |-> "compressor", alg |-> alg, to |-> <<>>]
<1>1. "compressor" \in ObjectTypes /\ alg \in Algorithms \cup {"none"} /\ <<>> \in Seq(Nat)
  BY AlgorithmFacts DEF ObjectTypes
<1>2. Made(h, r, S, c)
  BY <1>1, AllocHolds DEF CompressorCreate
<1> QED
  BY <1>2, MadeLeaf

LEMMA CompressorCopyHolds ==
    ASSUME NEW h, NEW S, Holds(h, S), NEW c \in S, h.objs[c].alg \in Algorithms
    PROVE  LeafMade(h, CompressorCopy(h, c), S)
<1>1. CompressorCopy(h, c) = CompressorCreate(h, h.objs[c].alg)
  BY UseHolds DEF CompressorCopy, CompressorCreate
<1> QED
  BY <1>1, CompressorCreateHolds

\* A stream that cannot be initialised takes the instance with it.
LEMMA CompressorOpenHolds ==
    ASSUME NEW h, NEW S, Holds(h, S), NEW c \in S, h.objs[c].alg \in Algorithms
    PROVE  LeafMade(h, CompressorOpen(h, c), S)
<1> DEFINE alg == h.objs[c].alg
           i == Alloc(h, "instance", alg, <<>>)
           k == Call(i.heap)
<1>1. "instance" \in ObjectTypes /\ alg \in Algorithms \cup {"none"} /\ <<>> \in Seq(Nat)
  BY AlgorithmFacts DEF ObjectTypes
<1>2. Made(h, i, S, [type |-> "instance", alg |-> alg, to |-> <<>>])
  BY <1>1, AllocHolds
<1>3. LeafMade(h, i, S)
  BY <1>2, MadeLeaf
<1>4. CompressorOpen(h, c) =
          IF i.ptr = NULL \/ ~Compressors[alg].stream THEN i
          ELSE IF Fails(i.heap) THEN [heap |-> Free(k, i.ptr), ptr |-> NULL]
          ELSE [i EXCEPT !.heap = k]
  BY UseHolds DEF CompressorOpen, Fail
<1>5. CASE i.ptr = NULL \/ ~Compressors[alg].stream
  BY <1>3, <1>4, <1>5
<1>6. CASE i.ptr # NULL /\ Compressors[alg].stream
  <2> HIDE DEF i
  <2>1. i = [heap |-> i.heap, ptr |-> i.ptr] /\ Keeps(h, i.heap, S)
    BY <1>3 DEF LeafMade
  <2>2. Holds(i.heap, S \cup {i.ptr}) /\ i.ptr \notin S /\ i.ptr \in Nat
    BY <1>3, <1>6 DEF LeafMade
  <2>3. k.objs = i.heap.objs /\ Holds(k, S \cup {i.ptr})
    BY <2>2, CallHolds
  <2>4. CASE Fails(i.heap)
    <3>1. CompressorOpen(h, c) = [heap |-> Free(k, i.ptr), ptr |-> NULL]
      BY <1>4, <1>6, <2>4
    <3>2. Holds(Free(k, i.ptr), S) /\ Keeps(k, Free(k, i.ptr), S)
      <4>1. (S \cup {i.ptr}) \ {i.ptr} = S
        BY <2>2
      <4> QED
        BY <2>3, <4>1, FreeHolds
    <3>3. Keeps(h, Free(k, i.ptr), S)
      BY <2>1, <2>3, <3>2 DEF Keeps
    <3> QED
      BY <3>1, <3>2, <3>3 DEF LeafMade
  <2>5. CASE ~Fails(i.heap)
    <3>1. CompressorOpen(h, c) = [i EXCEPT !.heap = k]
      BY <1>4, <1>6, <2>5
    <3>2. [i EXCEPT !.heap = k] = [heap |-> k, ptr |-> i.ptr]
      BY <2>1
    <3> HIDE DEF k
    <3> QED
      BY <1>3, <1>6, <2>2, <2>3, <3>1, <3>2 DEF LeafMade, Keeps, CompressorAt, Leaf
  <2> QED
    BY <2>4, <2>5
<1> QED
  BY <1>5, <1>6

\* What a function that makes options returns: them and their compressor, or nothing.
OptionsMade(h, r, S) ==
    /\ r = [heap |-> r.heap, ptr |-> r.ptr]
    /\ Keeps(h, r.heap, S)
    /\ \/ r.ptr = NULL /\ Holds(r.heap, S)
       \/ /\ r.ptr # NULL /\ r.ptr \in Nat /\ r.ptr \notin S
          /\ \E c \in Nat : /\ c \notin S /\ Holds(r.heap, S \cup {r.ptr, c})
                          /\ OptionsAt(r.heap, r.ptr, c)

\* Options and a compressor put together, or what there is of them given back.
LEMMA OptionsPutTogether ==
    ASSUME NEW h, NEW S, NEW o, NEW c, NEW obj, Made(h, o, S, obj),
           o.ptr # NULL => LeafMade(o.heap, c, S \cup {o.ptr}),
           NEW r, r = IF o.ptr = NULL THEN o
                      ELSE IF c.ptr = NULL THEN Fail(Free(c.heap, o.ptr))
                      ELSE [o EXCEPT !.heap = [c.heap EXCEPT !.objs[o.ptr].to = <<c.ptr>>]]
    PROVE  OptionsMade(h, r, S)
<1>1. CASE o.ptr = NULL
  BY <1>1 DEF Made, OptionsMade
<1>2. CASE o.ptr # NULL
  <2>1. /\ Keeps(h, o.heap, S) /\ o.ptr \in Nat /\ o.ptr \notin S
        /\ o = [heap |-> o.heap, ptr |-> o.ptr]
    BY <1>2 DEF Made
  <2>2. LeafMade(o.heap, c, S \cup {o.ptr})
    BY <1>2
  <2>3. CASE c.ptr = NULL
    <3> DEFINE g == Free(c.heap, o.ptr)
    <3>1. r = [heap |-> g, ptr |-> NULL]
      BY <1>2, <2>3 DEF Fail
    <3>2. Holds(c.heap, S \cup {o.ptr}) /\ Keeps(o.heap, c.heap, S \cup {o.ptr})
      BY <2>2, <2>3 DEF LeafMade
    <3>3. (S \cup {o.ptr}) \ {o.ptr} = S
      BY <2>1
    <3>4. Holds(g, S) /\ Keeps(c.heap, g, S)
      BY <3>2, <3>3, FreeHolds
    <3> HIDE DEF g
    <3>5. Keeps(h, g, S)
      BY <2>1, <3>2, <3>4 DEF Keeps
    <3> QED
      BY <3>1, <3>4, <3>5 DEF OptionsMade
  <2>4. CASE c.ptr # NULL
    <3> DEFINE T == S \cup {o.ptr, c.ptr}
               g == SetTo(c.heap, o.ptr, <<c.ptr>>)
    <3>1. /\ Holds(c.heap, T) /\ Keeps(o.heap, c.heap, S \cup {o.ptr})
          /\ c.ptr \in Nat /\ c.ptr \notin S /\ c.ptr # o.ptr /\ CompressorAt(c.heap, c.ptr)
      <4>1. (S \cup {o.ptr}) \cup {c.ptr} = T
        OBVIOUS
      <4> QED
        BY <2>2, <2>4, <4>1 DEF LeafMade
    <3>2. <<c.ptr>> \in Seq(Nat)
      BY <3>1, AlgorithmFacts
    <3>3. Holds(g, T) /\ Keeps(c.heap, g, T \ {o.ptr}) /\ g.objs[o.ptr].to = <<c.ptr>>
      <4> DEFINE to == <<c.ptr>>
      <4>1. to \in Seq(Nat) /\ o.ptr \in T
        BY <3>2
      <4> HIDE DEF to, T
      <4>2. ToSet(c.heap, SetTo(c.heap, o.ptr, to), T, o.ptr, to)
        BY <3>1, <4>1, SetToHolds
      <4> QED
        BY <4>2, Zenon DEF ToSet, to
    <3>4. r = [o EXCEPT !.heap = g]
      BY <1>2, <2>4 DEF SetTo
    <3> HIDE DEF g
    <3>5. r = [heap |-> g, ptr |-> o.ptr]
      BY <2>1, <3>4
    <3>6. Keeps(h, g, S)
      BY <2>1, <3>1, <3>3 DEF Keeps
    <3>7. OptionsAt(g, o.ptr, c.ptr)
      BY <3>1, <3>3 DEF OptionsAt, CompressorAt, Leaf, Keeps
    <3>8. r.heap = g /\ r.ptr = o.ptr /\ r = [heap |-> r.heap, ptr |-> r.ptr]
      BY <3>5
    <3>9. /\ c.ptr \in Nat /\ c.ptr \notin S /\ Holds(r.heap, S \cup {r.ptr, c.ptr})
          /\ OptionsAt(r.heap, r.ptr, c.ptr)
      BY <3>1, <3>3, <3>7, <3>8
    <3> HIDE DEF T
    <3> QED
      BY <1>2, <2>1, <3>6, <3>8, <3>9 DEF OptionsMade
  <2> QED
    BY <2>3, <2>4
<1> QED
  BY <1>1, <1>2

LEMMA OptionsCreateHolds ==
    ASSUME NEW h, NEW S, Holds(h, S)
    PROVE  OptionsMade(h, OptionsCreate(h), S)
<1> DEFINE o == Alloc(h, "options", "none", <<>>)
           c == CompressorCreate(o.heap, DefaultCompressor)
           obj == [type |-> "options", alg |-> "none", to |-> <<>>]
<1>1. "options" \in ObjectTypes /\ "none" \in Algorithms \cup {"none"} /\ <<>> \in Seq(Nat)
  BY AlgorithmFacts DEF ObjectTypes
<1>2. Made(h, o, S, obj)
  BY <1>1, AllocHolds
<1>3. o.ptr # NULL => LeafMade(o.heap, c, S \cup {o.ptr})
  <2>1. o.ptr # NULL => Holds(o.heap, S \cup {o.ptr})
    <3> HIDE DEF o, obj
    <3> QED
      BY <1>2 DEF Made
  <2> QED
    BY <2>1, AlgorithmFacts, CompressorCreateHolds
<1>4. OptionsCreate(h) = IF o.ptr = NULL THEN o
                         ELSE IF c.ptr = NULL THEN Fail(Free(c.heap, o.ptr))
                         ELSE [o EXCEPT !.heap = [c.heap EXCEPT !.objs[o.ptr].to = <<c.ptr>>]]
  BY DEF OptionsCreate
<1> HIDE DEF o, c, obj
<1> QED
  BY <1>2, <1>3, <1>4, OptionsPutTogether

LEMMA OptionsCopyHolds ==
    ASSUME NEW h, NEW S, Holds(h, S), NEW o \in S, NEW k \in S, OptionsAt(h, o, k)
    PROVE  OptionsMade(h, OptionsCopy(h, o), S)
<1> DEFINE copy == Alloc(h, "options", "none", <<>>)
           c == CompressorCopy(copy.heap, k)
           obj == [type |-> "options", alg |-> "none", to |-> <<>>]
<1>1. "options" \in ObjectTypes /\ "none" \in Algorithms \cup {"none"} /\ <<>> \in Seq(Nat)
  BY AlgorithmFacts DEF ObjectTypes
<1>2. Made(h, copy, S, obj)
  BY <1>1, AllocHolds
<1>3. CompressorOf(h, o) = k /\ h.objs[k].alg \in Algorithms
  BY DEF OptionsAt, CompressorOf, CompressorAt
<1>4. copy.ptr # NULL => LeafMade(copy.heap, c, S \cup {copy.ptr})
  <2>1. /\ copy.ptr # NULL => Holds(copy.heap, S \cup {copy.ptr})
        /\ copy.heap.objs[k] = h.objs[k]
    <3> HIDE DEF copy, obj
    <3> QED
      BY <1>2 DEF Made, Keeps
  <2>2. copy.heap.objs[k].alg \in Algorithms
    BY <1>3, <2>1
  <2>3. k \in S \cup {copy.ptr}
    OBVIOUS
  <2> HIDE DEF copy
  <2> QED
    BY <2>1, <2>2, <2>3, CompressorCopyHolds
<1>5. OptionsCopy(h, o) = IF copy.ptr = NULL THEN copy
                          ELSE IF c.ptr = NULL THEN Fail(Free(c.heap, copy.ptr))
                          ELSE [copy EXCEPT !.heap = [c.heap EXCEPT !.objs[copy.ptr].to = <<c.ptr>>]]
  BY <1>3, UseHolds DEF OptionsCopy
<1> HIDE DEF copy, c, obj
<1> QED
  BY <1>2, <1>4, <1>5, OptionsPutTogether

LEMMA OptionsDestroyHolds ==
    ASSUME NEW h, NEW S, NEW o, NEW c, o \notin S, c \notin S, Holds(h, S \cup {o, c}), OptionsAt(h, o, c)
    PROVE  Holds(OptionsDestroy(h, o), S) /\ Keeps(h, OptionsDestroy(h, o), S)
<1> DEFINE T == S \cup {o, c}
           g == Free(h, c)
           k == Free(g, o)
<1>1. o # c /\ T \ {c} = S \cup {o} /\ (S \cup {o}) \ {o} = S
  BY DEF OptionsAt
<1>2. Holds(g, S \cup {o}) /\ Keeps(h, g, S \cup {o})
  <2>1. c \in T /\ Holds(h, T)
    OBVIOUS
  <2> HIDE DEF T
  <2> QED
    BY <1>1, <2>1, FreeHolds
<1>3. Holds(k, S) /\ Keeps(g, k, S)
  <2> HIDE DEF g
  <2>1. o \in S \cup {o}
    OBVIOUS
  <2> QED
    BY <1>1, <1>2, <2>1, FreeHolds
<1>4. OptionsDestroy(h, o) = k
  BY DEF OptionsDestroy, CompressorDestroy, CompressorOf, OptionsAt
<1> HIDE DEF g, k
<1> QED
  BY <1>2, <1>3, <1>4 DEF Keeps

\* The options own their old compressor or, if the copy could be made, the new one.
LEMMA SetCompressorHolds ==
    ASSUME NEW h, NEW S, NEW o, NEW k, NEW c \in S, o \notin S, k \notin S,
           Holds(h, S \cup {o, k}), OptionsAt(h, o, k), h.objs[c].alg \in Algorithms,
           NEW g, g = SetCompressor(h, o, c)
    PROVE  /\ Keeps(h, g, S)
           /\ \E m : m \notin S /\ Holds(g, S \cup {o, m}) /\ OptionsAt(g, o, m)
<1> DEFINE T == S \cup {o, k}
           new == CompressorCopy(h, c)
<1>1. o # k /\ CompressorOf(h, o) = k
  BY DEF OptionsAt, CompressorOf
<1>2. LeafMade(h, new, T)
  <2>1. c \in T /\ Holds(h, T)
    OBVIOUS
  <2> HIDE DEF T
  <2> QED
    BY <2>1, CompressorCopyHolds
<1>3. g = IF new.ptr = NULL THEN new.heap
          ELSE Free([new.heap EXCEPT !.objs[o].to = <<new.ptr>>], k)
  BY <1>1 DEF SetCompressor, CompressorDestroy
<1> HIDE DEF new
<1>4. CASE new.ptr = NULL
  <2>1. g = new.heap /\ Holds(g, T) /\ Keeps(h, g, T)
    BY <1>2, <1>3, <1>4 DEF LeafMade
  <2>2. OptionsAt(g, o, k)
    BY <2>1 DEF OptionsAt, CompressorAt, Leaf, Keeps
  <2> QED
    BY <2>1, <2>2 DEF Keeps
<1>5. CASE new.ptr # NULL
  <2> DEFINE m == new.ptr
             U == T \cup {m}
             e == SetTo(new.heap, o, <<m>>)
  <2>1. /\ m \in Nat /\ m \notin T /\ Holds(new.heap, U) /\ CompressorAt(new.heap, m)
        /\ Keeps(h, new.heap, T)
    BY <1>2, <1>5 DEF LeafMade
  <2>2. <<m>> \in Seq(Nat)
    BY <2>1, AlgorithmFacts
  <2>3. Holds(e, U) /\ Keeps(new.heap, e, U \ {o}) /\ e.objs[o].to = <<m>>
    <3>1. o \in U
      OBVIOUS
    <3> DEFINE to == <<m>>
    <3>2. to \in Seq(Nat)
      BY <2>2
    <3> HIDE DEF U, m, to
    <3>3. ToSet(new.heap, SetTo(new.heap, o, to), U, o, to)
      BY <2>1, <3>1, <3>2, SetToHolds
    <3> QED
      BY <3>3, Zenon DEF ToSet, to
  <2>4. g = Free(e, k)
    BY <1>3, <1>5 DEF SetTo
  <2>5. k \in U /\ U \ {k} = S \cup {o, m}
    BY <1>1, <2>1
  <2> HIDE DEF e, U
  <2>6. Holds(g, S \cup {o, m}) /\ Keeps(e, g, S \cup {o, m})
    BY <2>3, <2>4, <2>5, FreeHolds
  <2>7. \A p \in S \cup {m} : p \in U \ {o}
    BY <2>1 DEF U
  <2>8. Keeps(h, g, S)
    BY <2>1, <2>3, <2>6, <2>7 DEF Keeps
  <2>9. OptionsAt(g, o, m)
    <3>1. m # o
      BY <2>1
    <3>2. g.objs[o].to = <<m>>
      BY <2>3, <2>6 DEF Keeps
    <3>3. g.objs[m] = new.heap.objs[m]
      BY <2>3, <2>6, <2>7 DEF Keeps
    <3> QED
      BY <2>1, <3>1, <3>2, <3>3 DEF OptionsAt, CompressorAt, Leaf
  <2> QED
    BY <2>1, <2>6, <2>8, <2>9
<1> QED
  BY <1>4, <1>5

\* What libsqfs_image_create returns: an image with its options and an instance of their
\* compressor, or nothing.
ImageMade(h, r, S) ==
    /\ Keeps(h, r.heap, S)
    /\ \/ r.ptr = NULL /\ Holds(r.heap, S)
       \/ /\ r.ptr # NULL /\ r.ptr \notin S
          /\ \E o, c, n : /\ o \notin S /\ c \notin S /\ n \notin S
                         /\ Holds(r.heap, S \cup {r.ptr, o, c, n})
                         /\ ImageAt(r.heap, r.ptr, o, c, n)

LEMMA ImageCreateHolds ==
    ASSUME NEW h, NEW S, Holds(h, S), NEW o,
           o = NULL \/ \E k : o \in S /\ k \in S /\ OptionsAt(h, o, k)
    PROVE  ImageMade(h, ImageCreate(h, o), S)
<1> DEFINE i == Alloc(h, "image", "none", <<>>)
           opt == IF o # NULL THEN OptionsCopy(i.heap, o) ELSE OptionsCreate(i.heap)
           inst == CompressorOpen(opt.heap, CompressorOf(opt.heap, opt.ptr))
           obj == [type |-> "image", alg |-> "none", to |-> <<>>]
           r == ImageCreate(h, o)
<1>1. "image" \in ObjectTypes /\ "none" \in Algorithms \cup {"none"} /\ <<>> \in Seq(Nat)
  BY AlgorithmFacts DEF ObjectTypes
<1>2. Made(h, i, S, obj)
  BY <1>1, AllocHolds
<1>3. r = IF i.ptr = NULL THEN i
          ELSE IF opt.ptr = NULL THEN Fail(Free(opt.heap, i.ptr))
          ELSE IF inst.ptr = NULL THEN Fail(Free(OptionsDestroy(inst.heap, opt.ptr), i.ptr))
          ELSE [i EXCEPT !.heap = SetTo(inst.heap, i.ptr, <<opt.ptr, inst.ptr>>)]
  BY Zenon DEF ImageCreate, SetTo
<1> HIDE DEF r, i, obj
<1>4. CASE i.ptr = NULL
  BY <1>2, <1>3, <1>4 DEF Made, ImageMade, r
<1>5. CASE i.ptr # NULL
  <2> DEFINE T == S \cup {i.ptr}
  <2>1. /\ i = [heap |-> i.heap, ptr |-> i.ptr] /\ i.ptr \in Nat /\ i.ptr \notin S
        /\ Holds(i.heap, T) /\ Keeps(h, i.heap, S)
    BY <1>2, <1>5 DEF Made
  <2>2. OptionsMade(i.heap, opt, T)
    <3>1. CASE o = NULL
      BY <2>1, <3>1, OptionsCreateHolds
    <3>2. CASE o # NULL
      <4>1. PICK k : o \in S /\ k \in S /\ OptionsAt(h, o, k)
        BY <3>2
      <4>2. o \in T /\ k \in T /\ OptionsAt(i.heap, o, k)
        BY <2>1, <4>1 DEF OptionsAt, CompressorAt, Leaf, Keeps
      <4>3. opt = OptionsCopy(i.heap, o)
        BY <3>2
      <4> HIDE DEF T, opt
      <4> QED
        BY <2>1, <4>2, <4>3, OptionsCopyHolds
    <3> QED
      BY <3>1, <3>2
  <2> HIDE DEF opt
  <2>3. T \ {i.ptr} = S /\ i.ptr \in T
    BY <2>1
  <2>4. CASE opt.ptr = NULL
    <3> DEFINE g == Free(opt.heap, i.ptr)
    <3>1. r = [heap |-> g, ptr |-> NULL]
      BY <1>3, <1>5, <2>4 DEF Fail
    <3>2. Holds(opt.heap, T) /\ Keeps(i.heap, opt.heap, T)
      BY <2>2, <2>4 DEF OptionsMade
    <3>3. Holds(g, S) /\ Keeps(opt.heap, g, S)
      <4> HIDE DEF T
      <4> QED
        BY <2>3, <3>2, FreeHolds
    <3> HIDE DEF g
    <3>4. Keeps(h, g, S)
      BY <2>1, <3>2, <3>3 DEF Keeps
    <3> QED
      BY <3>1, <3>3, <3>4 DEF ImageMade, r
  <2>5. CASE opt.ptr # NULL
    <3>1. PICK c \in Nat : /\ c \notin T /\ Holds(opt.heap, T \cup {opt.ptr, c})
                           /\ OptionsAt(opt.heap, opt.ptr, c)
      BY <2>2, <2>5 DEF OptionsMade
    <3>2. opt.ptr \in Nat /\ opt.ptr \notin T /\ Keeps(i.heap, opt.heap, T) /\ opt.ptr # c
      BY <2>2, <2>5, <3>1 DEF OptionsMade, OptionsAt
    <3> DEFINE U == T \cup {opt.ptr, c}
    <3>3. inst = CompressorOpen(opt.heap, c) /\ c \in U /\ opt.heap.objs[c].alg \in Algorithms
      BY <3>1 DEF OptionsAt, CompressorAt, CompressorOf
    <3>4. LeafMade(opt.heap, inst, U)
      <4> HIDE DEF inst, U
      <4> QED
        BY <3>1, <3>3, CompressorOpenHolds DEF U
    <3> HIDE DEF inst
    <3>5. CASE inst.ptr = NULL
      <4> DEFINE e == OptionsDestroy(inst.heap, opt.ptr)
                 g == Free(e, i.ptr)
      <4>1. r = [heap |-> g, ptr |-> NULL]
        BY <1>3, <1>5, <2>5, <3>5 DEF Fail
      <4>2. Holds(inst.heap, U) /\ Keeps(opt.heap, inst.heap, U)
        BY <3>4, <3>5 DEF LeafMade
      <4>3. OptionsAt(inst.heap, opt.ptr, c)
        BY <3>1, <4>2 DEF OptionsAt, CompressorAt, Leaf, Keeps
      <4>4. Holds(e, T) /\ Keeps(inst.heap, e, T)
        <5> HIDE DEF T
        <5> QED
          BY <3>1, <3>2, <4>2, <4>3, OptionsDestroyHolds
      <4>5. Holds(g, S) /\ Keeps(e, g, S)
        <5> HIDE DEF T, e
        <5> QED
          BY <2>3, <4>4, FreeHolds
      <4> HIDE DEF e, g
      <4>6. Keeps(h, g, S)
        BY <2>1, <3>2, <4>2, <4>4, <4>5 DEF Keeps
      <4> QED
        BY <4>1, <4>5, <4>6 DEF ImageMade, r
    <3>6. CASE inst.ptr # NULL
      <4> DEFINE n == inst.ptr
                 V == U \cup {n}
                 to == <<opt.ptr, n>>
                 g == SetTo(inst.heap, i.ptr, to)
      <4>1. /\ n \in Nat /\ n \notin U /\ Holds(inst.heap, V) /\ Leaf(inst.heap, n)
            /\ Keeps(opt.heap, inst.heap, U)
        BY <3>4, <3>6 DEF LeafMade, CompressorAt
      <4>2. to \in Seq(Nat)
        BY <3>2, <4>1, AlgorithmFacts
      <4>3. ToSet(inst.heap, g, V, i.ptr, to)
        <5>1. i.ptr \in V
          OBVIOUS
        <5> HIDE DEF V, to
        <5> QED
          BY <4>1, <4>2, <5>1, SetToHolds
      <4>4. r = [i EXCEPT !.heap = g]
        BY <1>3, <1>5, <2>5, <3>6
      <4>5. V = S \cup {i.ptr, opt.ptr, c, n}
        OBVIOUS
      <4>6. i.ptr \notin {opt.ptr, c, n} /\ n \notin {opt.ptr, c}
        BY <3>1, <3>2, <4>1
      <4>7. opt.ptr \notin S /\ c \notin S /\ n \notin S
        BY <3>1, <3>2, <4>1
      <4>8. \A p \in S \cup {opt.ptr, c, n} : p \in V \ {i.ptr}
        BY <2>1, <4>6
      <4> HIDE DEF g, V, to, n
      <4>9. r.heap = g /\ r.ptr = i.ptr
        BY <2>1, <4>4
      <4>10. Holds(g, V) /\ Keeps(inst.heap, g, V \ {i.ptr}) /\ g.objs[i.ptr].to = to
        BY <4>3 DEF ToSet
      <4>11. Keeps(h, g, S)
        <5>1. \A p \in S : p \in T /\ p \in U
          OBVIOUS
        <5> HIDE DEF T, U
        <5> QED
          BY <2>1, <3>2, <4>1, <4>8, <4>10, <5>1 DEF Keeps
      <4>12. /\ g.objs[opt.ptr] = opt.heap.objs[opt.ptr] /\ g.objs[c] = opt.heap.objs[c]
             /\ g.objs[n] = inst.heap.objs[n]
        BY <4>1, <4>8, <4>10 DEF Keeps
      <4>13. OptionsAt(g, opt.ptr, c) /\ Leaf(g, n)
        BY <3>1, <4>1, <4>12 DEF OptionsAt, CompressorAt, Leaf
      <4>14. ImageAt(g, i.ptr, opt.ptr, c, n)
        BY <4>6, <4>10, <4>13 DEF ImageAt, to
      <4> QED
        BY <1>5, <2>1, <4>5, <4>7, <4>9, <4>10, <4>11, <4>14 DEF ImageMade, r
    <3> QED
      BY <3>5, <3>6
  <2> QED
    BY <2>4, <2>5
<1> QED
  BY <1>4, <1>5

LEMMA ImageDestroyHolds ==
    ASSUME NEW h, NEW S, NEW i, NEW o, NEW c, NEW n, {i, o, c, n} \cap S = {},
           Holds(h, S \cup {i, o, c, n}), ImageAt(h, i, o, c, n)
    PROVE  Holds(ImageDestroy(h, i), S) /\ Keeps(h, ImageDestroy(h, i), S)
<1> DEFINE T == S \cup {i, o, c, n}
           U == S \cup {i}
           a == Free(h, n)
           b == OptionsDestroy(a, o)
           d == Free(b, i)
<1>1. ImageDestroy(h, i) = d
  BY DEF ImageDestroy, InstanceDestroy, ImageAt
<1>2. T \ {n} = U \cup {o, c} /\ n \in T /\ U \ {i} = S /\ i \in U /\ o \notin U /\ c \notin U
  BY DEF ImageAt
<1>3. Holds(a, U \cup {o, c}) /\ Keeps(h, a, U \cup {o, c})
  <2>1. Holds(h, T)
    OBVIOUS
  <2> HIDE DEF T, U
  <2> QED
    BY <1>2, <2>1, FreeHolds
<1>4. OptionsAt(a, o, c)
  <2> HIDE DEF a, U
  <2> QED
    BY <1>3 DEF ImageAt, OptionsAt, CompressorAt, Leaf, Keeps
<1>5. Holds(b, U) /\ Keeps(a, b, U)
  <2> HIDE DEF a, U
  <2> QED
    BY <1>2, <1>3, <1>4, OptionsDestroyHolds
<1>6. Holds(d, S) /\ Keeps(b, d, S)
  <2> HIDE DEF b, U
  <2> QED
    BY <1>2, <1>5, FreeHolds
<1> HIDE DEF a, b, d
<1> QED
  BY <1>1, <1>3, <1>5, <1>6 DEF Keeps

\* What libsqfs_destination_create_for_file returns: a destination with its file, or nothing.
DestinationMade(h, r, S) ==
    /\ Keeps(h, r.heap, S)
    /\ \/ r.ptr = NULL /\ Holds(r.heap, S)
       \/ /\ r.ptr # NULL /\ r.ptr \notin S
          /\ \E f : f \notin S /\ Holds(r.heap, S \cup {r.ptr, f}) /\ DestinationAt(r.heap, r.ptr, f)

LEMMA DestinationCreateHolds ==
    ASSUME NEW h, NEW S, Holds(h, S)
    PROVE  DestinationMade(h, DestinationCreateForFile(h), S)
<1> DEFINE fd == Alloc(h, "fd", "none", <<>>)
           trunc == Call(fd.heap)
           d == Alloc(trunc, "destination", "none", <<fd.ptr>>)
           file == [type |-> "fd", alg |-> "none", to |-> <<>>]
           obj == [type |-> "destination", alg |-> "none", to |-> <<fd.ptr>>]
           r == DestinationCreateForFile(h)
<1>1. /\ "fd" \in ObjectTypes /\ "destination" \in ObjectTypes
      /\ "none" \in Algorithms \cup {"none"} /\ <<>> \in Seq(Nat)
  BY AlgorithmFacts DEF ObjectTypes
<1>2. Made(h, fd, S, file)
  BY <1>1, AllocHolds
<1>3. r = IF fd.ptr = NULL THEN fd
          ELSE IF Fails(fd.heap) THEN Fail(Free(trunc, fd.ptr))
          ELSE IF d.ptr = NULL THEN Fail(Free(d.heap, fd.ptr))
          ELSE d
  BY Zenon DEF DestinationCreateForFile
<1>4. file.to = <<>>
  OBVIOUS
<1> HIDE DEF r, fd, file
<1>5. CASE fd.ptr = NULL
  BY <1>2, <1>3, <1>5 DEF Made, DestinationMade, r
<1>6. CASE fd.ptr # NULL
  <2> DEFINE f == fd.ptr
             T == S \cup {f}
  <2>1. /\ f \in Nat /\ f \notin S /\ Holds(fd.heap, T) /\ Keeps(h, fd.heap, S)
        /\ fd.heap.objs[f] = file
    BY <1>2, <1>6 DEF Made
  <2>2. trunc.objs = fd.heap.objs /\ Holds(trunc, T)
    BY <2>1, CallHolds
  <2>3. Keeps(h, trunc, S) /\ Leaf(trunc, f)
    BY <1>4, <2>1, <2>2 DEF Keeps, Leaf
  <2> HIDE DEF trunc
  <2>4. T \ {f} = S /\ f \in T
    BY <2>1
  <2>5. CASE Fails(fd.heap)
    <3> DEFINE g == Free(trunc, f)
    <3>1. r = [heap |-> g, ptr |-> NULL]
      BY <1>3, <1>6, <2>5 DEF Fail
    <3>2. Holds(g, S) /\ Keeps(trunc, g, S)
      <4> HIDE DEF T, f
      <4> QED
        BY <2>2, <2>4, FreeHolds
    <3> HIDE DEF g
    <3>3. Keeps(h, g, S)
      BY <2>3, <3>2 DEF Keeps
    <3> QED
      BY <3>1, <3>2, <3>3 DEF DestinationMade, r
  <2>6. CASE ~Fails(fd.heap)
    <3>1. <<f>> \in Seq(Nat)
      BY <2>1, AlgorithmFacts
    <3>2. Made(trunc, d, T, obj)
      <4> DEFINE to == <<f>>
      <4>1. to \in Seq(Nat)
        BY <3>1
      <4> HIDE DEF to
      <4>2. /\ Made(trunc, Alloc(trunc, "destination", "none", to), T,
                    [type |-> "destination", alg |-> "none", to |-> to])
        BY <1>1, <2>2, <4>1, AllocHolds
      <4> QED
        BY <4>2 DEF to
    <3>3. obj.to = <<f>>
      OBVIOUS
    <3> HIDE DEF d, obj, f
    <3>4. CASE d.ptr = NULL
      <4> DEFINE g == Free(d.heap, f)
      <4>1. r = [heap |-> g, ptr |-> NULL]
        BY <1>3, <1>6, <2>6, <3>4 DEF Fail, f
      <4>2. Holds(d.heap, T) /\ Keeps(trunc, d.heap, T)
        BY <3>2, <3>4 DEF Made
      <4>3. Holds(g, S) /\ Keeps(d.heap, g, S)
        <5> HIDE DEF T
        <5> QED
          BY <2>4, <4>2, FreeHolds
      <4> HIDE DEF g
      <4>4. Keeps(h, g, S)
        BY <2>3, <4>2, <4>3 DEF Keeps
      <4> QED
        BY <4>1, <4>3, <4>4 DEF DestinationMade, r
    <3>5. CASE d.ptr # NULL
      <4>1. r = d
        BY <1>3, <1>6, <2>6, <3>5
      <4>2. /\ d.ptr \notin T /\ Holds(d.heap, T \cup {d.ptr}) /\ d.heap.objs[d.ptr] = obj
            /\ Keeps(trunc, d.heap, T)
        BY <3>2, <3>5 DEF Made
      <4>3. T \cup {d.ptr} = S \cup {d.ptr, f}
        OBVIOUS
      <4>4. DestinationAt(d.heap, d.ptr, f)
        BY <2>3, <3>3, <4>2 DEF DestinationAt, Leaf, Keeps
      <4>5. Keeps(h, d.heap, S)
        BY <2>3, <4>2 DEF Keeps
      <4>6. d.ptr \notin S /\ f \notin S /\ Holds(d.heap, S \cup {d.ptr, f})
        BY <2>1, <4>2, <4>3 DEF f
      <4> QED
        BY <3>5, <4>1, <4>4, <4>5, <4>6 DEF DestinationMade, r
    <3> QED
      BY <3>4, <3>5
  <2> QED
    BY <2>5, <2>6
<1> QED
  BY <1>5, <1>6

LEMMA DestinationReleaseHolds ==
    ASSUME NEW h, NEW S, NEW d, NEW f, d \notin S, f \notin S,
           Holds(h, S \cup {d, f}), DestinationAt(h, d, f)
    PROVE  Holds(DestinationRelease(h, d), S) /\ Keeps(h, DestinationRelease(h, d), S)
<1> DEFINE T == S \cup {d, f}
           g == Free(h, f)
           k == Free(g, d)
<1>1. T \ {f} = S \cup {d} /\ f \in T /\ (S \cup {d}) \ {d} = S /\ d \in S \cup {d}
  BY DEF DestinationAt
<1>2. Holds(g, S \cup {d}) /\ Keeps(h, g, S \cup {d})
  <2>1. Holds(h, T)
    OBVIOUS
  <2> HIDE DEF T
  <2> QED
    BY <1>1, <2>1, FreeHolds
<1>3. Holds(k, S) /\ Keeps(g, k, S)
  <2> HIDE DEF g
  <2> QED
    BY <1>1, <1>2, FreeHolds
<1>4. DestinationRelease(h, d) = k
  BY DEF DestinationRelease, DestinationAt
<1> HIDE DEF g, k
<1> QED
  BY <1>2, <1>3, <1>4 DEF Keeps

-----------------------------------------------------------------------------
(* The handles of main.                                                    *)

\* A part none of whose objects changes stays what it is.
LEMMA PartsKept ==
    ASSUME NEW h, NEW g, NEW S, Keeps(h, g, S), NEW p
    PROVE  /\ OptionsPart(h, p, S) => OptionsPart(g, p, S)
           /\ ImagePart(h, p, S) => ImagePart(g, p, S)
           /\ DestinationPart(h, p, S) => DestinationPart(g, p, S)
<1>1. OptionsPart(h, p, S) => OptionsPart(g, p, S)
  BY DEF OptionsPart, OptionsAt, CompressorAt, Leaf, Keeps
<1>2. ImagePart(h, p, S) => ImagePart(g, p, S)
  <2>1. ASSUME NEW o, NEW c, NEW n, S = {p, o, c, n}, ImageAt(h, p, o, c, n)
        PROVE  ImageAt(g, p, o, c, n)
    <3>1. g.objs[p] = h.objs[p] /\ g.objs[o] = h.objs[o] /\ g.objs[c] = h.objs[c] /\ g.objs[n] = h.objs[n]
      BY <2>1 DEF Keeps
    <3> QED
      BY <2>1, <3>1 DEF ImageAt, OptionsAt, CompressorAt, Leaf
  <2> QED
    BY <2>1 DEF ImagePart
<1>3. DestinationPart(h, p, S) => DestinationPart(g, p, S)
  BY DEF DestinationPart, DestinationAt, Leaf, Keeps
<1> QED
  BY <1>1, <1>2, <1>3

LEMMA InitHandles == MkInit => HandlesInv
<1> SUFFICES ASSUME MkInit PROVE HandlesInv
  OBVIOUS
<1>1. /\ heap = [objs |-> <<>>, calls |-> 0, failAt |-> run.failAt, bad |-> FALSE]
      /\ options = NULL /\ image = NULL /\ dest = NULL
  BY DEF MkInit, NewHeap
<1>2. heap.objs = <<>> /\ heap.bad = FALSE /\ Heaps(heap)
  BY <1>1 DEF Heaps
<1>3. Live(heap) = {}
  BY <1>2 DEF Live
<1>4. Parts(heap, options, image, dest, {}, {}, {})
  BY <1>1, <1>2, <1>3 DEF Parts, OptionsPart, ImagePart, DestinationPart, Holds
<1> QED
  BY <1>1, <1>4 DEF HandlesInv, PartsInv, StageInv, MkInit

\* Before a crash no step of main finds a compressor in the hands of parse_options.
LEMMA HandlesHaveParts ==
    ASSUME HandlesInv, stage # "crashed"
    PROVE  compressor = NULL /\ \E S, T, U : Parts(heap, options, image, dest, S, T, U)
BY DEF HandlesInv, PartsInv, CrashedInParse

LEMMA CreateOptionsHandles == HandlesInv /\ CreateOptions => HandlesInv'
<1> SUFFICES ASSUME HandlesInv, CreateOptions PROVE HandlesInv'
  OBVIOUS
<1>0. stage # "crashed" /\ compressor' = compressor
  BY DEF CreateOptions
<1>1. PICK S, T, U : Parts(heap, options, image, dest, S, T, U)
  BY <1>0, HandlesHaveParts
<1>a. compressor = NULL
  BY <1>0, HandlesHaveParts
<1> DEFINE o == OptionsCreate(heap)
<1>2. /\ stage = "start" /\ stage' = "options" /\ heap' = o.heap /\ options' = o.ptr
      /\ dest' = dest /\ image' = image
  BY DEF CreateOptions
<1>3. options = NULL /\ image = NULL /\ dest = NULL
  BY <1>2 DEF HandlesInv, StageInv
<1>4. Holds(heap, {})
  BY <1>1, <1>3 DEF Parts, OptionsPart, ImagePart, DestinationPart
<1>5. OptionsMade(heap, o, {})
  BY <1>4, OptionsCreateHolds
<1> HIDE DEF o
<1>6. \E W : OptionsPart(heap', options', W) /\ Holds(heap', W)
  <2>1. CASE o.ptr = NULL
    BY <1>2, <1>5, <2>1 DEF OptionsMade, OptionsPart
  <2>2. CASE o.ptr # NULL
    <3>1. PICK c : Holds(o.heap, {} \cup {o.ptr, c}) /\ OptionsAt(o.heap, o.ptr, c)
      BY <1>5, <2>2 DEF OptionsMade
    <3>2. {} \cup {o.ptr, c} = {o.ptr, c}
      OBVIOUS
    <3> QED
      BY <1>2, <2>2, <3>1, <3>2 DEF OptionsPart
  <2> QED
    BY <2>1, <2>2
<1>7. PICK W : OptionsPart(heap', options', W) /\ Holds(heap', W)
  BY <1>6
<1>8. Parts(heap', options', image', dest', W, {}, {})
  <2>1. W \cup {} \cup {} = W
    OBVIOUS
  <2> QED
    BY <1>2, <1>3, <1>7, <2>1 DEF Parts, ImagePart, DestinationPart
<1> QED
  BY <1>0, <1>a, <1>2, <1>3, <1>8 DEF HandlesInv, PartsInv, StageInv

LEMMA ParseOptionHandles == HandlesInv /\ ParseOption => HandlesInv'
<1> SUFFICES ASSUME HandlesInv, ParseOption PROVE HandlesInv'
  OBVIOUS
<1>0. stage # "crashed"
  BY DEF ParseOption
<1>1. PICK S, T, U : Parts(heap, options, image, dest, S, T, U)
  BY <1>0, HandlesHaveParts
<1>a. compressor = NULL
  BY <1>0, HandlesHaveParts
<1> DEFINE name == run.compressors[optind]
           c == ParseCompressor(name)
<1>2. /\ stage = "options" /\ options' = options /\ dest' = dest /\ image' = image
      /\ IF c.ptr = NULL THEN stage' = "exit" /\ heap' = c.heap /\ compressor' = compressor
         ELSE IF options = NULL THEN stage' = "crashed" /\ heap' = c.heap /\ compressor' = c.ptr
         ELSE /\ heap' = CompressorDestroy(SetCompressor(c.heap, options, c.ptr), c.ptr)
              /\ stage' = stage /\ compressor' = compressor
  BY DEF ParseOption
<1>3. image = NULL /\ dest = NULL /\ T = {} /\ U = {} /\ OptionsPart(heap, options, S) /\ Holds(heap, S)
  <2>1. image = NULL /\ dest = NULL
    BY <1>2 DEF HandlesInv, StageInv
  <2>2. T = {} /\ U = {}
    BY <1>1, <2>1 DEF Parts, ImagePart, DestinationPart
  <2>3. S \cup T \cup U = S
    BY <2>2
  <2> QED
    BY <1>1, <2>1, <2>2, <2>3 DEF Parts
<1>4. LeafMade(heap, c, S) \/ (c.ptr = NULL /\ c.heap = heap)
  <2>1. CASE name \in DOMAIN Compressors
    <3>1. c = CompressorCreate(heap, name) /\ name \in Algorithms
      BY <2>1 DEF ParseCompressor, Algorithms
    <3> QED
      BY <1>3, <3>1, CompressorCreateHolds
  <2>2. CASE name \notin DOMAIN Compressors
    BY <2>2 DEF ParseCompressor, Fail
  <2> QED
    BY <2>1, <2>2
<1> HIDE DEF c
<1>5. StageInv'
  BY <1>2, <1>3 DEF StageInv
<1>6. CASE c.ptr # NULL /\ options = NULL
  <2>1. S = {} /\ Holds(c.heap, S \cup {c.ptr}) /\ CompressorAt(c.heap, c.ptr)
    BY <1>3, <1>4, <1>6 DEF LeafMade, OptionsPart
  <2>2. S \cup {c.ptr} = {c.ptr}
    BY <2>1
  <2>3. heap' = c.heap /\ compressor' = c.ptr /\ stage' = "crashed"
    BY <1>2, <1>6
  <2>4. CrashedInParse'
    BY <1>2, <1>3, <1>6, <2>1, <2>2, <2>3 DEF CrashedInParse, CompressorAt, Leaf
  <2> QED
    BY <1>5, <2>4 DEF HandlesInv
<1>7. ASSUME c.ptr = NULL \/ options # NULL
      PROVE  \E W : OptionsPart(heap', options, W) /\ Holds(heap', W)
  <2>1. CASE c.ptr = NULL
    <3>1. Holds(c.heap, S) /\ Keeps(heap, c.heap, S)
      BY <1>3, <1>4, <2>1 DEF LeafMade, Keeps
    <3> QED
      BY <1>2, <1>3, <2>1, <3>1, PartsKept
  <2>3. CASE c.ptr # NULL /\ options # NULL
    <3>1. PICK k : S = {options, k} /\ OptionsAt(heap, options, k)
      BY <1>3, <2>3 DEF OptionsPart
    <3> DEFINE g == SetCompressor(c.heap, options, c.ptr)
    <3>2. /\ Holds(c.heap, S \cup {c.ptr}) /\ c.ptr \notin S /\ Keeps(heap, c.heap, S)
          /\ CompressorAt(c.heap, c.ptr)
      BY <1>4, <2>3 DEF LeafMade
    <3>3. S \cup {c.ptr} = {c.ptr} \cup {options, k} /\ options \notin {c.ptr} /\ k \notin {c.ptr}
      BY <3>1, <3>2
    <3>4. OptionsAt(c.heap, options, k)
      BY <3>1, <3>2 DEF OptionsAt, CompressorAt, Leaf, Keeps
    <3>5. Keeps(c.heap, g, {c.ptr})
          /\ \E m : m \notin {c.ptr} /\ Holds(g, {c.ptr} \cup {options, m}) /\ OptionsAt(g, options, m)
      <4>1. c.heap.objs[c.ptr].alg \in Algorithms /\ c.ptr \in {c.ptr}
        BY <3>2 DEF CompressorAt
      <4> QED
        BY <3>2, <3>3, <3>4, <4>1, SetCompressorHolds
    <3> HIDE DEF g
    <3>6. PICK m : m \notin {c.ptr} /\ Holds(g, {c.ptr} \cup {options, m}) /\ OptionsAt(g, options, m)
      BY <3>5
    <3>7. ({c.ptr} \cup {options, m}) \ {c.ptr} = {options, m} /\ c.ptr \in {c.ptr} \cup {options, m}
      BY <3>3, <3>6
    <3>8. Holds(Free(g, c.ptr), {options, m}) /\ Keeps(g, Free(g, c.ptr), {options, m})
      BY <3>6, <3>7, FreeHolds
    <3>9. heap' = Free(g, c.ptr)
      BY <1>2, <2>3 DEF CompressorDestroy, g
    <3>10. OptionsAt(heap', options, m)
      BY <3>6, <3>8, <3>9 DEF OptionsAt, CompressorAt, Leaf, Keeps
    <3> QED
      BY <2>3, <3>8, <3>9, <3>10 DEF OptionsPart
  <2> QED
    BY <1>7, <2>1, <2>3
<1>8. CASE c.ptr = NULL \/ options # NULL
  <2>1. PICK W : OptionsPart(heap', options, W) /\ Holds(heap', W)
    BY <1>7, <1>8
  <2>2. W \cup {} \cup {} = W
    OBVIOUS
  <2>3. Parts(heap', options', image', dest', W, {}, {})
    BY <1>2, <1>3, <2>1, <2>2 DEF Parts, ImagePart, DestinationPart
  <2>4. compressor' = NULL
    BY <1>2, <1>8, <1>a
  <2> QED
    BY <1>5, <2>3, <2>4 DEF HandlesInv, PartsInv
<1> QED
  BY <1>8, <1>6

LEMMA CreateDestinationHandles == HandlesInv /\ CreateDestination => HandlesInv'
<1> SUFFICES ASSUME HandlesInv, CreateDestination PROVE HandlesInv'
  OBVIOUS
<1>0. stage # "crashed" /\ compressor' = compressor
  BY DEF CreateDestination
<1>1. PICK S, T, U : Parts(heap, options, image, dest, S, T, U)
  BY <1>0, HandlesHaveParts
<1>a. compressor = NULL
  BY <1>0, HandlesHaveParts
<1> DEFINE d == DestinationCreateForFile(heap)
<1>2. /\ stage = "destination" /\ stage' = "image" /\ heap' = d.heap /\ dest' = d.ptr
      /\ options' = options /\ image' = image
  BY DEF CreateDestination
<1>3. image = NULL /\ dest = NULL /\ T = {} /\ U = {} /\ OptionsPart(heap, options, S) /\ Holds(heap, S)
  <2>1. image = NULL /\ dest = NULL
    BY <1>2 DEF HandlesInv, StageInv
  <2>2. T = {} /\ U = {}
    BY <1>1, <2>1 DEF Parts, ImagePart, DestinationPart
  <2>3. S \cup T \cup U = S
    BY <2>2
  <2> QED
    BY <1>1, <2>1, <2>2, <2>3 DEF Parts
<1>4. DestinationMade(heap, d, S)
  BY <1>3, DestinationCreateHolds
<1> HIDE DEF d
<1>5. Keeps(heap, heap', S) /\ OptionsPart(heap', options', S)
  BY <1>2, <1>3, <1>4, PartsKept DEF DestinationMade
<1>6. \E W : S \cap W = {} /\ DestinationPart(heap', dest', W) /\ Holds(heap', S \cup W)
  <2>1. CASE d.ptr = NULL
    <3>1. Holds(heap', S) /\ S \cup {} = S
      BY <1>2, <1>4, <2>1 DEF DestinationMade
    <3> QED
      BY <1>2, <2>1, <3>1 DEF DestinationPart
  <2>2. CASE d.ptr # NULL
    <3>1. PICK f : f \notin S /\ Holds(d.heap, S \cup {d.ptr, f}) /\ DestinationAt(d.heap, d.ptr, f)
      BY <1>4, <2>2 DEF DestinationMade
    <3>2. S \cap {d.ptr, f} = {}
      BY <1>4, <2>2, <3>1 DEF DestinationMade
    <3> QED
      BY <1>2, <2>2, <3>1, <3>2 DEF DestinationPart
  <2> QED
    BY <2>1, <2>2
<1>7. PICK W : S \cap W = {} /\ DestinationPart(heap', dest', W) /\ Holds(heap', S \cup W)
  BY <1>6
<1>8. Parts(heap', options', image', dest', S, {}, W)
  <2>1. S \cup {} \cup W = S \cup W
    OBVIOUS
  <2> QED
    BY <1>2, <1>3, <1>5, <1>7, <2>1 DEF Parts, ImagePart
<1>9. StageInv'
  BY <1>2, <1>3 DEF StageInv
<1> QED
  BY <1>0, <1>a, <1>8, <1>9 DEF HandlesInv, PartsInv

LEMMA CreateImageHandles == HandlesInv /\ CreateImage => HandlesInv'
<1> SUFFICES ASSUME HandlesInv, CreateImage PROVE HandlesInv'
  OBVIOUS
<1>0. stage # "crashed" /\ compressor' = compressor
  BY DEF CreateImage
<1>1. PICK S, T, U : Parts(heap, options, image, dest, S, T, U)
  BY <1>0, HandlesHaveParts
<1>a. compressor = NULL
  BY <1>0, HandlesHaveParts
<1> DEFINE i == ImageCreate(heap, options)
           W == S \cup U
<1>2. /\ stage = "image" /\ stage' = IF options = NULL \/ i.ptr = NULL THEN "crashed" ELSE "root"
      /\ heap' = IF options = NULL THEN i.heap ELSE OptionsDestroy(i.heap, options)
      /\ options' = NULL /\ image' = i.ptr /\ dest' = dest
  BY DEF CreateImage
<1>3. /\ image = NULL /\ T = {} /\ S \cap U = {} /\ Holds(heap, W)
      /\ OptionsPart(heap, options, S) /\ DestinationPart(heap, dest, U)
  <2>1. image = NULL
    BY <1>2 DEF HandlesInv, StageInv
  <2>2. T = {}
    BY <1>1, <2>1 DEF Parts, ImagePart
  <2>3. S \cup T \cup U = W
    BY <2>2
  <2> QED
    BY <1>1, <2>1, <2>2, <2>3 DEF Parts
<1>4. ImageMade(heap, i, W)
  <2>1. options = NULL \/ \E k : options \in W /\ k \in W /\ OptionsAt(heap, options, k)
    BY <1>3 DEF OptionsPart
  <2> HIDE DEF W
  <2> QED
    BY <1>3, <2>1, ImageCreateHolds
<1> HIDE DEF i
<1>5. \E X : W \cap X = {} /\ ImagePart(i.heap, i.ptr, X) /\ Holds(i.heap, W \cup X)
  <2>1. CASE i.ptr = NULL
    <3>1. Holds(i.heap, W) /\ W \cup {} = W
      BY <1>4, <2>1 DEF ImageMade
    <3> HIDE DEF W
    <3> QED
      BY <2>1, <3>1 DEF ImagePart
  <2>2. CASE i.ptr # NULL
    <3>1. PICK o, c, n : /\ o \notin W /\ c \notin W /\ n \notin W
                         /\ Holds(i.heap, W \cup {i.ptr, o, c, n})
                         /\ ImageAt(i.heap, i.ptr, o, c, n)
      <4> HIDE DEF W
      <4> QED
        BY <1>4, <2>2 DEF ImageMade
    <3>2. W \cap {i.ptr, o, c, n} = {}
      <4>1. i.ptr \notin W
        BY <1>4, <2>2 DEF ImageMade
      <4> HIDE DEF W
      <4> QED
        BY <3>1, <4>1
    <3> HIDE DEF W
    <3> QED
      BY <2>2, <3>1, <3>2 DEF ImagePart
  <2> QED
    BY <2>1, <2>2
<1>6. PICK X : W \cap X = {} /\ ImagePart(i.heap, i.ptr, X) /\ Holds(i.heap, W \cup X)
  BY <1>5
<1>7. Keeps(heap, i.heap, W)
  BY <1>4 DEF ImageMade
<1>8. Holds(heap', U \cup X) /\ Keeps(i.heap, heap', U \cup X)
  <2>1. CASE options = NULL
    <3>1. S = {} /\ W \cup X = U \cup X
      BY <1>3, <2>1 DEF OptionsPart
    <3> QED
      BY <1>2, <1>6, <2>1, <3>1 DEF Keeps
  <2>2. CASE options # NULL
    <3>1. PICK k : S = {options, k} /\ OptionsAt(heap, options, k)
      BY <1>3, <2>2 DEF OptionsPart
    <3>2. OptionsAt(i.heap, options, k)
      BY <1>7, <3>1 DEF OptionsAt, CompressorAt, Leaf, Keeps
    <3> DEFINE V == U \cup X
    <3>3. W \cup X = V \cup {options, k} /\ options \notin V /\ k \notin V
      BY <1>3, <1>6, <3>1
    <3>4. heap' = OptionsDestroy(i.heap, options)
      BY <1>2, <2>2
    <3> HIDE DEF V, W
    <3>5. Holds(heap', V) /\ Keeps(i.heap, heap', V)
      BY <1>6, <3>2, <3>3, <3>4, OptionsDestroyHolds
    <3> QED
      BY <3>5 DEF V
  <2> QED
    BY <2>1, <2>2
<1>9. ImagePart(heap', image', X) /\ DestinationPart(heap', dest', U)
  <2>1. Keeps(i.heap, heap', X) /\ Keeps(heap, heap', U)
    BY <1>7, <1>8 DEF Keeps
  <2>2. ImagePart(heap', i.ptr, X)
    BY <1>6, <2>1, PartsKept
  <2>3. DestinationPart(heap', dest, U)
    BY <1>3, <2>1, PartsKept
  <2> QED
    BY <1>2, <2>2, <2>3
<1>10. Parts(heap', options', image', dest', {}, X, U)
  <2>1. {} \cup X \cup U = U \cup X /\ X \cap U = {}
    BY <1>6
  <2> QED
    BY <1>2, <1>8, <1>9, <2>1 DEF Parts, OptionsPart
<1>11. StageInv'
  BY <1>2 DEF StageInv
<1> QED
  BY <1>0, <1>a, <1>10, <1>11 DEF HandlesInv, PartsInv

LEMMA MainCloseHandles == HandlesInv /\ MainClose => HandlesInv'
<1> SUFFICES ASSUME HandlesInv, MainClose PROVE HandlesInv'
  OBVIOUS
<1>0. stage # "crashed" /\ compressor' = compressor
  BY DEF MainClose
<1>1. PICK S, T, U : Parts(heap, options, image, dest, S, T, U)
  BY <1>0, HandlesHaveParts
<1>a. compressor = NULL
  BY <1>0, HandlesHaveParts
<1>2. /\ stage = "finalize" /\ stage' = "release" /\ heap' = ImageDestroy(heap, image)
      /\ image' = NULL /\ options' = options /\ dest' = dest
  BY DEF MainClose
<1>3. image # NULL
  BY <1>2 DEF HandlesInv, StageInv
<1>4. PICK o, c, n : T = {image, o, c, n} /\ ImageAt(heap, image, o, c, n)
  BY <1>1, <1>3 DEF Parts, ImagePart
<1> DEFINE W == S \cup U
<1>5. S \cup T \cup U = W \cup {image, o, c, n} /\ {image, o, c, n} \cap W = {}
  BY <1>1, <1>4 DEF Parts
<1>6. Holds(heap', W) /\ Keeps(heap, heap', W)
  <2>1. Holds(heap, W \cup {image, o, c, n})
    BY <1>1, <1>5 DEF Parts
  <2> HIDE DEF W
  <2> QED
    BY <1>2, <1>4, <1>5, <2>1, ImageDestroyHolds
<1>7. Keeps(heap, heap', S) /\ Keeps(heap, heap', U)
  BY <1>6 DEF Keeps
<1>8. OptionsPart(heap', options', S) /\ DestinationPart(heap', dest', U)
  BY <1>1, <1>2, <1>7, PartsKept DEF Parts
<1>9. Parts(heap', options', image', dest', S, {}, U)
  <2>1. S \cup {} \cup U = W
    OBVIOUS
  <2>2. S \cap U = {}
    BY <1>1 DEF Parts
  <2> QED
    BY <1>2, <1>6, <1>8, <2>1, <2>2 DEF Parts, ImagePart
<1>10. StageInv'
  BY <1>2 DEF StageInv
<1> QED
  BY <1>0, <1>a, <1>9, <1>10 DEF HandlesInv, PartsInv

LEMMA MainReleaseHandles == HandlesInv /\ MainRelease => HandlesInv'
<1> SUFFICES ASSUME HandlesInv, MainRelease PROVE HandlesInv'
  OBVIOUS
<1>0. stage # "crashed" /\ compressor' = compressor
  BY DEF MainRelease
<1>1. PICK S, T, U : Parts(heap, options, image, dest, S, T, U)
  BY <1>0, HandlesHaveParts
<1>a. compressor = NULL
  BY <1>0, HandlesHaveParts
<1>2. stage' \in {"crashed", "done"} /\ options' = options /\ image' = image
  BY DEF MainRelease
<1>3. StageInv'
  BY <1>2 DEF StageInv
<1>4. CASE dest = NULL
  <2>1. heap' = heap /\ dest' = dest
    BY <1>4 DEF MainRelease
  <2> QED
    BY <1>0, <1>a, <1>1, <1>2, <1>3, <2>1 DEF HandlesInv, PartsInv
<1>5. CASE dest # NULL
  <2>1. heap' = DestinationRelease(heap, dest) /\ dest' = NULL
    BY <1>5 DEF MainRelease
  <2>2. PICK f : U = {dest, f} /\ DestinationAt(heap, dest, f)
    BY <1>1, <1>5 DEF Parts, DestinationPart
  <2> DEFINE W == S \cup T
  <2>3. S \cup T \cup U = W \cup {dest, f} /\ dest \notin W /\ f \notin W
    BY <1>1, <2>2 DEF Parts
  <2>4. Holds(heap', W) /\ Keeps(heap, heap', W)
    <3>1. Holds(heap, W \cup {dest, f})
      BY <1>1, <2>3 DEF Parts
    <3> HIDE DEF W
    <3> QED
      BY <2>1, <2>2, <2>3, <3>1, DestinationReleaseHolds
  <2>5. Keeps(heap, heap', S) /\ Keeps(heap, heap', T)
    BY <2>4 DEF Keeps
  <2>6. OptionsPart(heap', options', S) /\ ImagePart(heap', image', T)
    BY <1>1, <1>2, <2>5, PartsKept DEF Parts
  <2>7. Parts(heap', options', image', dest', S, T, {})
    <3>1. S \cup T \cup {} = W /\ S \cap T = {}
      BY <1>1 DEF Parts
    <3> QED
      BY <2>1, <2>4, <2>6, <3>1 DEF Parts, DestinationPart
  <2> QED
    BY <1>0, <1>a, <1>3, <2>7 DEF HandlesInv, PartsInv
<1> QED
  BY <1>4, <1>5

\* Nothing else changes a handle or the heap, and main goes from stage to stage.
Moves ==
    \/ stage' = stage
    \/ stage # "crashed" /\ stage' \in {"exit", "crashed"}
    \/ stage = "options" /\ stage' = "destination"
    \/ stage \in {"root", "walk", "setroot"} /\ stage' \in {"walk", "setroot", "finalize"}

LEMMA MovesHandles ==
    ASSUME HandlesInv, UNCHANGED <<heap, options, image, dest, compressor>>, Moves
    PROVE  HandlesInv'
<1>1. StageInv'
  BY DEF HandlesInv, StageInv, Moves
<1>2. CASE PartsInv
  <2>1. PICK S, T, U : Parts(heap, options, image, dest, S, T, U)
    BY <1>2 DEF PartsInv
  <2>2. Parts(heap', options', image', dest', S, T, U)
    BY <2>1
  <2>3. compressor' = NULL
    BY <1>2 DEF PartsInv
  <2> QED
    BY <1>1, <2>2, <2>3 DEF PartsInv, HandlesInv
<1>3. CASE CrashedInParse
  <2>1. stage' = "crashed"
    BY <1>3 DEF CrashedInParse, Moves
  <2> QED
    BY <1>1, <1>3, <2>1 DEF HandlesInv, CrashedInParse
<1> QED
  BY <1>2, <1>3 DEF HandlesInv

LEMMA MainHandles == HandlesInv /\ Main => HandlesInv'
<1> SUFFICES ASSUME HandlesInv, Main PROVE HandlesInv'
  OBVIOUS
<1>1. CASE CreateOptions \/ ParseOption \/ CreateDestination \/ CreateImage \/ MainClose \/ MainRelease
  BY <1>1, CreateOptionsHandles, ParseOptionHandles, CreateDestinationHandles, CreateImageHandles,
     MainCloseHandles, MainReleaseHandles
<1>2. CASE \/ ParseArguments \/ RootDirectory \/ RootFails \/ MainSetRoot
           \/ FinalizeStep \/ FinalizeCrash \/ WorkerCrash
  <2>1. UNCHANGED <<heap, options, image, dest, compressor>> /\ Moves
    BY <1>2 DEF ParseArguments, RootDirectory, RootFails, MainSetRoot, FinalizeStep, FinalizeCrash,
                WorkerCrash, mainVars, Moves
  <2> QED
    BY <2>1, MovesHandles
<1> QED
  BY <1>1, <1>2 DEF Main

LEMMA AddDirectoryHandles == HandlesInv /\ AddDirectory => HandlesInv'
<1> SUFFICES ASSUME HandlesInv, AddDirectory PROVE HandlesInv'
  OBVIOUS
<1>1. UNCHANGED <<heap, options, image, dest, compressor>> /\ Moves
  <2>1. CASE \E n \in Files : ReadEntry(n)
    BY <2>1 DEF ReadEntry, mainVars, Moves
  <2>2. CASE PathTooLong \/ NextPass \/ SkipEntry \/ UnknownKind \/ NullFollowed
    BY <2>2 DEF PathTooLong, NextPass, SkipEntry, UnknownKind, NullFollowed, NeedsFile, NeedsOther,
                AtFile, InPass, mainVars, Moves
  <2>3. CASE AddFile \/ AddOther
    BY <2>3 DEF AddFile, AddOther, mainVars, Moves
  <2>4. CASE EnterFile \/ EnterOther
    BY <2>4 DEF EnterFile, EnterOther, Enter, mainVars, Moves
  <2>5. CASE Return
    BY <2>5 DEF Return, InPass, mainVars, Moves
  <2> QED
    BY <2>1, <2>2, <2>3, <2>4, <2>5 DEF AddDirectory
<1> QED
  BY <1>1, MovesHandles

-----------------------------------------------------------------------------
(* What can be reached from the handles.                                   *)

Reach(h, s) == s \cup UNION {{h.objs[p].to[k] : k \in DOMAIN h.objs[p].to} : p \in s}
PointsTo(h, p, q) == \E k \in DOMAIN h.objs[p].to : h.objs[p].to[k] = q

LEMMA ReachDef ==
    ASSUME NEW h, NEW s, NEW q
    PROVE  q \in Reach(h, s) <=> q \in s \/ \E p \in s : PointsTo(h, p, q)
BY DEF Reach, PointsTo

LEMMA OwnedReach ==
    ASSUME NEW h, NEW ps
    PROVE  Owned(h, ps) = Reach(h, Reach(h, Reach(h, ps \ {NULL})))
BY Zenon DEF Owned, Reach

LEMMA PointerFacts ==
    ASSUME NEW h, NEW p, NEW q
    PROVE  /\ Leaf(h, p) => ~PointsTo(h, p, q)
           /\ \A c : h.objs[p].to = <<c>> => (PointsTo(h, p, q) <=> q = c)
           /\ \A o, n : h.objs[p].to = <<o, n>> => (PointsTo(h, p, q) <=> q \in {o, n})
<1>1. Leaf(h, p) => ~PointsTo(h, p, q)
  BY DEF Leaf, PointsTo
<1>2. ASSUME NEW c, h.objs[p].to = <<c>> PROVE PointsTo(h, p, q) <=> q = c
  BY <1>2 DEF PointsTo
<1>3. ASSUME NEW o, NEW n, h.objs[p].to = <<o, n>> PROVE PointsTo(h, p, q) <=> q \in {o, n}
  <2>1. DOMAIN <<o, n>> = {1, 2} /\ <<o, n>>[1] = o /\ <<o, n>>[2] = n
    OBVIOUS
  <2> QED
    BY <1>3, <2>1 DEF PointsTo
<1> QED
  BY <1>1, <1>2, <1>3

\* A set of objects that can be reached from a handle and does not point outside.
Reached(h, r, S) ==
    /\ \A p \in S : \A q : PointsTo(h, p, q) => q \in S
    /\ \A x \in S : \/ x = r \/ PointsTo(h, r, x)
                     \/ \E y : PointsTo(h, r, y) /\ PointsTo(h, y, x)

LEMMA PartsReached ==
    ASSUME NEW h, NEW r, NEW S,
           OptionsPart(h, r, S) \/ ImagePart(h, r, S) \/ DestinationPart(h, r, S)
    PROVE  Reached(h, r, S) /\ (r # NULL => r \in S) /\ (r = NULL => S = {})
<1>1. CASE r = NULL
  BY <1>1 DEF OptionsPart, ImagePart, DestinationPart, Reached
<1>2. CASE r # NULL /\ OptionsPart(h, r, S)
  <2>1. PICK c : S = {r, c} /\ h.objs[r].to = <<c>> /\ Leaf(h, c)
    BY <1>2 DEF OptionsPart, OptionsAt, CompressorAt
  <2>2. \A q : (PointsTo(h, r, q) <=> q = c) /\ ~PointsTo(h, c, q)
    BY <2>1, PointerFacts
  <2> QED
    BY <1>2, <2>1, <2>2 DEF Reached
<1>3. CASE r # NULL /\ DestinationPart(h, r, S)
  <2>1. PICK c : S = {r, c} /\ h.objs[r].to = <<c>> /\ Leaf(h, c)
    BY <1>3 DEF DestinationPart, DestinationAt
  <2>2. \A q : (PointsTo(h, r, q) <=> q = c) /\ ~PointsTo(h, c, q)
    BY <2>1, PointerFacts
  <2> QED
    BY <1>3, <2>1, <2>2 DEF Reached
<1>4. CASE r # NULL /\ ImagePart(h, r, S)
  <2>1. PICK o, c, n : /\ S = {r, o, c, n} /\ h.objs[r].to = <<o, n>>
                       /\ h.objs[o].to = <<c>> /\ Leaf(h, c) /\ Leaf(h, n)
    BY <1>4 DEF ImagePart, ImageAt, OptionsAt, CompressorAt
  <2>2. \A q : /\ PointsTo(h, r, q) <=> q \in {o, n}
               /\ PointsTo(h, o, q) <=> q = c
               /\ ~PointsTo(h, c, q) /\ ~PointsTo(h, n, q)
    BY <2>1, PointerFacts
  <2> QED
    BY <1>4, <2>1, <2>2 DEF Reached
<1> QED
  BY <1>1, <1>2, <1>3, <1>4

LEMMA AllReached ==
    ASSUME NEW h, NEW o, NEW i, NEW d, NEW S, NEW T, NEW U,
           Parts(h, o, i, d, S, T, U)
    PROVE  Owned(h, {o, i, d}) = S \cup T \cup U
<1> DEFINE W == S \cup T \cup U
           R0 == {o, i, d} \ {NULL}
           R1 == Reach(h, R0)
           R2 == Reach(h, R1)
           R3 == Reach(h, R2)
<1>1. /\ Reached(h, o, S) /\ (o # NULL => o \in S) /\ (o = NULL => S = {})
      /\ Reached(h, i, T) /\ (i # NULL => i \in T) /\ (i = NULL => T = {})
      /\ Reached(h, d, U) /\ (d # NULL => d \in U) /\ (d = NULL => U = {})
  BY PartsReached DEF Parts
<1>2. R0 \subseteq W
  BY <1>1
<1>3. ASSUME NEW X, X \subseteq W PROVE Reach(h, X) \subseteq W
  <2>1. ASSUME NEW p \in W, NEW q, PointsTo(h, p, q) PROVE q \in W
    BY <1>1, <2>1 DEF Reached
  <2> QED
    BY <1>3, <2>1, ReachDef
<1>4. R3 \subseteq W
  <2> HIDE DEF W, R0
  <2>1. R1 \subseteq W
    BY <1>2, <1>3
  <2>2. R2 \subseteq W
    BY <1>3, <2>1
  <2> QED
    BY <1>3, <2>2
<1>5. ASSUME NEW r \in R0, NEW X, Reached(h, r, X) PROVE X \subseteq R3
  <2> HIDE DEF R0
  <2>1. \A x : PointsTo(h, r, x) => x \in R1
    BY ReachDef
  <2>2. \A x, y : PointsTo(h, r, y) /\ PointsTo(h, y, x) => x \in R2
    <3> HIDE DEF R1
    <3> QED
      BY <2>1, ReachDef
  <2>3. r \in R1
    BY ReachDef
  <2>4. R1 \subseteq R2
    <3> HIDE DEF R1
    <3> QED
      BY ReachDef
  <2>5. R2 \subseteq R3
    <3> HIDE DEF R2
    <3> QED
      BY ReachDef
  <2> HIDE DEF R1, R2, R3
  <2> QED
    BY <1>5, <2>1, <2>2, <2>3, <2>4, <2>5 DEF Reached
<1>6. S \subseteq R3 /\ T \subseteq R3 /\ U \subseteq R3
  <2>1. /\ o # NULL => o \in R0
        /\ i # NULL => i \in R0
        /\ d # NULL => d \in R0
    OBVIOUS
  <2> HIDE DEF R0, R3
  <2> QED
    BY <1>1, <1>5, <2>1
<1>7. Owned(h, {o, i, d}) = R3
  BY OwnedReach, Zenon
<1> HIDE DEF R3
<1> QED
  BY <1>4, <1>6, <1>7

-----------------------------------------------------------------------------
\* The handles of main own disjoint parts of the heap which together are all of it,
\* and nothing was used or freed after it was freed: for every command line of mksqfs,
\* every source, and whichever call to the system fails.
THEOREM HandlesInvariant == MkSpec => []HandlesInv
<1>1. HandlesInv /\ [MkNext]_mkVars => HandlesInv'
  <2> SUFFICES ASSUME HandlesInv, [MkNext]_mkVars PROVE HandlesInv'
    OBVIOUS
  <2>1. CASE Main
    BY <2>1, MainHandles
  <2>2. CASE AddDirectory
    BY <2>2, AddDirectoryHandles
  <2>3. CASE UNCHANGED mkVars
    <3>1. UNCHANGED <<heap, options, image, dest, compressor>> /\ Moves
      BY <2>3 DEF mkVars, mainVars, Moves
    <3> QED
      BY <3>1, MovesHandles
  <2> QED
    BY <2>1, <2>2, <2>3 DEF MkNext, Stopped
<1> QED
  BY <1>1, InitHandles, PTL DEF MkSpec

\* The functions of image.c, compressor.c and destination.c that mksqfs calls give back
\* what they took when they fail half-way, an image keeps a copy of the options of its
\* own, and when main ends nothing is left.
THEOREM HandlesAlwaysBalanced == MkSpec => []HandlesBalanced
<1>1. HandlesInv => HandlesBalanced
  <2> SUFFICES ASSUME HandlesInv PROVE HandlesBalanced
    OBVIOUS
  <2> DEFINE handles == {options, image, dest, compressor}
  <2>1. CASE PartsInv
    <3>1. PICK S, T, U : Parts(heap, options, image, dest, S, T, U)
      BY <2>1 DEF PartsInv
    <3>2. heap.bad = FALSE /\ Live(heap) = S \cup T \cup U
      BY <3>1 DEF Parts, Holds
    <3>3. Owned(heap, {options, image, dest}) = S \cup T \cup U
      BY <3>1, AllReached
    <3>4. handles \ {NULL} = {options, image, dest} \ {NULL}
      BY <2>1 DEF PartsInv
    <3>5. Owned(heap, handles) = Owned(heap, {options, image, dest})
      <4>1. Owned(heap, handles) = Reach(heap, Reach(heap, Reach(heap, handles \ {NULL})))
        BY OwnedReach, Zenon
      <4>2. Owned(heap, {options, image, dest})
                = Reach(heap, Reach(heap, Reach(heap, {options, image, dest} \ {NULL})))
        BY OwnedReach, Zenon
      <4> HIDE DEF handles
      <4> QED
        BY <3>4, <4>1, <4>2, Zenon
    <3> QED
      BY <3>2, <3>3, <3>5 DEF HandlesBalanced
  <2>2. CASE CrashedInParse
    <3>1. heap.bad = FALSE /\ Live(heap) = {compressor}
      BY <2>2 DEF CrashedInParse, Holds
    <3>2. handles \ {NULL} = {compressor}
      BY <2>2 DEF CrashedInParse
    <3>3. Reach(heap, {compressor}) = {compressor}
      <4>1. \A q : ~PointsTo(heap, compressor, q)
        BY <2>2, PointerFacts DEF CrashedInParse
      <4>2. \A q : q \in Reach(heap, {compressor}) <=> q \in {compressor}
        BY <4>1, ReachDef
      <4> QED
        BY <4>2
    <3>4. Owned(heap, handles) = Reach(heap, Reach(heap, Reach(heap, handles \ {NULL})))
      BY OwnedReach, Zenon
    <3>5. Owned(heap, handles) = {compressor}
      <4> HIDE DEF handles
      <4> QED
        BY <3>2, <3>3, <3>4, Zenon
    <3> QED
      BY <3>1, <3>5 DEF HandlesBalanced
  <2> QED
    BY <2>1, <2>2 DEF HandlesInv
<1> QED
  BY <1>1, HandlesInvariant, PTL

-----------------------------------------------------------------------------
(* The walk mirrors the source.  The invariant speaks of two things main   *)
(* does not keep: f gives every file of the source its inode, 0 as long as *)
(* there is none, and E are the files that have been entered.              *)

Src == run.source
AllNodes == 0 .. Len(Src)
CacheEntry == [dev : Nat, ino : Nat, inode : Inodes]
FrameType(I) == [inode : I, unread : SUBSET Files, list : Seq(Files),
                 pass : {"scan", "files", "others"}, at : Nat \ {0}, sub : I \cup {0}]

\* Types, and where main is when there is a walk, a first inode and a root.
WalkTypeOK ==
    /\ run \in Runs
    /\ cache \in [0 .. HashSize - 1 -> Seq(CacheEntry)]
    /\ walk \in Seq(FrameType(Inodes))
    /\ target \in Seq(Nat) /\ Len(target) = Len(kind)
    /\ stage \in {"start", "options", "destination", "image", "root"}
          => kind = <<>> /\ cache = [b \in 0 .. HashSize - 1 |-> <<>>]
    /\ stage \in {"walk", "setroot"} => kind # <<>> /\ root = 0 /\ phase = "build"
    /\ stage \in {"walk", "setroot"} => kind[1] = "dir"
    /\ stage = "walk" => walk # <<>>
    /\ stage = "setroot" \/ root # 0 => walk = <<>>
    /\ root \in {0, 1} /\ (stage = "finalize" => root = 1)

\* The directory that call k of add_directory treats, 0 for the first one.
NodeAt(w, k) == IF k = 1 THEN 0 ELSE w[k - 1].list[w[k - 1].at]

Sorted(list) ==
    \A i, j \in DOMAIN list : i < j => Src[list[i]].name < Src[list[j]].name

\* A call for directory d has the files it has read, sorted, and sub is the inode of
\* the one at hand, which is not a regular file.
FrameOK(fr, d) ==
    /\ fr.unread \subseteq FilesOf(d)
    /\ {fr.list[j] : j \in DOMAIN fr.list} = FilesOf(d) \ fr.unread
    /\ Sorted(fr.list)
    /\ fr.pass # "scan" => fr.unread = {}
    /\ fr.pass = "scan" => fr.at = 1
    /\ fr.sub # 0 => /\ fr.pass = "others" /\ fr.at <= Len(fr.list)
                     /\ Src[fr.list[fr.at]].kind # "file"

\* Every call but the last waits for the next one, further down in the source.
Calls(fr, next) ==
    /\ fr.sub # 0 /\ Src[fr.list[fr.at]].kind = "dir" /\ next.inode = fr.sub
WalkOK(w) ==
    /\ \A k \in DOMAIN w : FrameOK(w[k], NodeAt(w, k))
    /\ \A k \in 1 .. Len(w) - 1 : Calls(w[k], w[k + 1])
    /\ \A j, k \in DOMAIN w : j < k => NodeAt(w, j) < NodeAt(w, k)

SameFile(m, n) ==
    /\ Src[m].kind = "file" /\ Src[n].kind = "file"
    /\ Src[m].dev = Src[n].dev /\ Src[m].ino = Src[n].ino
EntryOf(f, n) == [name |-> Src[n].name, inode |-> f[n]]
Cached(f, n) == [dev |-> Src[n].dev, ino |-> Src[n].ino, inode |-> f[n]]

\* Inodes are those of files, and shared by the paths of a regular file only.
NodesMade(f, E) ==
    /\ f \in [AllNodes -> Inodes \cup {0}] /\ E \in SUBSET Files
    /\ f[0] = 1 /\ \A n \in E : f[n] # 0
    /\ \A n \in Files : f[n] # 0 =>
          /\ f[Src[n].parent] # 0
          /\ kind[f[n]] = Src[n].kind /\ target[f[n]] = TargetOf(Src[n])
    /\ \A n \in Files : f[n] # 1
    /\ \A m, n \in Files : f[m] # 0 /\ f[n] # 0 => (f[m] = f[n] <=> m = n \/ SameFile(m, n))

\* Entries are those of the files entered.
EntriesMade(f, E) ==
    /\ \A i \in Inodes : \A k \in DOMAIN entries[i] :
          \E n \in E : f[Src[n].parent] = i /\ entries[i][k] = EntryOf(f, n)
    /\ \A n \in E : \E k \in DOMAIN entries[f[Src[n].parent]] :
          entries[f[Src[n].parent]][k] = EntryOf(f, n)
    /\ \A i \in Inodes : \A j, k \in DOMAIN entries[i] :
          entries[i][j].name = entries[i][k].name => j = k

\* The cache has the regular files that have an inode.
CacheMade(f) ==
    /\ \A b \in 0 .. HashSize - 1 : \A k \in DOMAIN cache[b] :
          \E n \in Files : Src[n].kind = "file" /\ f[n] # 0 /\ cache[b][k] = Cached(f, n)
    /\ \A n \in Files : Src[n].kind = "file" /\ f[n] # 0 =>
          \E k \in DOMAIN cache[Bucket(Src[n])] : cache[Bucket(Src[n])][k] = Cached(f, n)

\* What a running call has entered, and the file it has made an inode for.
Treated(fr, j) ==
    CASE fr.pass = "scan" -> FALSE
      [] fr.pass = "files" -> j < fr.at /\ Src[fr.list[j]].kind = "file"
      [] fr.pass = "others" -> j < fr.at \/ Src[fr.list[j]].kind = "file"
Pending(f, fr, n) ==
    /\ fr.at <= Len(fr.list) /\ n = fr.list[fr.at]
    /\ \/ fr.pass = "files" /\ Src[n].kind = "file"
       \/ fr.pass = "others" /\ fr.sub = f[n]
CallsMade(f, E, w) ==
    /\ \A k \in DOMAIN w :
          /\ f[NodeAt(w, k)] = w[k].inode
          /\ \A j \in DOMAIN w[k].list : w[k].list[j] \in E <=> Treated(w[k], j)
          /\ \A n \in w[k].unread : n \notin E
          /\ w[k].sub # 0 => f[w[k].list[w[k].at]] = w[k].sub
    /\ \A n \in Files : f[n] # 0 /\ n \notin E => \E k \in DOMAIN w : Pending(f, w[k], n)

\* A directory that has an inode and no running call is complete.
Returned(f, E, w) ==
    \A n \in Files :
        f[Src[n].parent] # 0 /\ (\A k \in DOMAIN w : NodeAt(w, k) # Src[n].parent) => n \in E

\* Files get their inodes in the order of their directory.
Numbered(f, E) ==
    \A m, n \in Files :
        Src[m].parent = Src[n].parent /\ Precedes(Src[m], Src[n]) /\ f[n] # 0
            => m \in E /\ (~OtherPath(n) => f[m] < f[n])

Mirrors(f, E) ==
    /\ NodesMade(f, E) /\ EntriesMade(f, E) /\ CacheMade(f)
    /\ CallsMade(f, E, walk) /\ Returned(f, E, walk) /\ Numbered(f, E)

\* The invariant, in a walk and behind it, unless an entry could not be allocated.
Walking == stage \in {"walk", "setroot"} \/ root # 0
MirrorInv == ~oom /\ Walking => \E f, E : Mirrors(f, E)
WalkInv == WalkTypeOK /\ (stage = "walk" => WalkOK(walk)) /\ MirrorInv

-----------------------------------------------------------------------------
(* The source and the lists of the walk.                                   *)

\* What a file of a source is.
FileType == [parent : Nat, name : Names, kind : Kinds \cup {"socket"}, dev : Nat, ino : Nat,
             xattrs : {"none", "known", "foreign"}, target : Nat]

\* What SourcesAreTrees says of the source at hand.
LEMMA SourceFacts ==
    ASSUME run \in Runs
    PROVE  /\ Len(Src) \in Nat /\ Files = 1 .. Len(Src)
           /\ \A n \in Files :
                 /\ Src[n] \in FileType /\ Src[n].name \in Nat
                 /\ Src[n].parent \in AllNodes /\ Src[n].parent < n
                 /\ Src[n].parent # 0 => Src[n].parent \in Files /\ Src[Src[n].parent].kind = "dir"
           /\ \A m, n \in Files : Src[m].parent = Src[n].parent /\ Src[m].name = Src[n].name => m = n
           /\ \A n \in AllNodes : n # 0 => n \in Files
           /\ 0 \in AllNodes /\ 0 \notin Files /\ Files \subseteq AllNodes /\ AllNodes \subseteq Nat
<1>1. IsSource(Src)
  BY SourcesAreTrees DEF Src
<1>2. Src \in Seq(FileType)
  BY <1>1 DEF IsSource, FileType
<1>3. Len(Src) \in Nat /\ Files = 1 .. Len(Src) /\ DOMAIN Src = Files
  BY <1>2 DEF Files, Src
<1>4. ASSUME NEW n \in Files
      PROVE  /\ Src[n] \in FileType /\ Src[n].name \in Nat
             /\ Src[n].parent \in AllNodes /\ Src[n].parent < n
             /\ Src[n].parent # 0 => Src[n].parent \in Files /\ Src[Src[n].parent].kind = "dir"
  <2>1. Src[n] \in FileType
    BY <1>2, <1>3
  <2>2. Src[n].parent \in Nat /\ Src[n].name \in Names
    BY <2>1 DEF FileType
  <2>3. Src[n].parent < n /\ (Src[n].parent # 0 => Src[Src[n].parent].kind = "dir")
    BY <1>1, <1>3 DEF IsSource
  <2> QED BY <1>3, <2>1, <2>2, <2>3, NamesAreOrdered DEF AllNodes
<1>5. \A m, n \in Files : Src[m].parent = Src[n].parent /\ Src[m].name = Src[n].name => m = n
  BY <1>1, <1>3 DEF IsSource
<1> QED BY <1>3, <1>4, <1>5 DEF AllNodes

\* The elements of a list.
Elements(s) == {s[j] : j \in DOMAIN s}

\* An entry goes into the list behind the smaller ones.
LEMMA InsertedFacts ==
    ASSUME run \in Runs, NEW s \in Seq(Files), Sorted(s), NEW n \in Files,
           \A j \in DOMAIN s : Src[s[j]].name # Src[n].name
    PROVE  /\ Inserted(s, n) \in Seq(Files) /\ Sorted(Inserted(s, n))
           /\ Elements(Inserted(s, n)) = Elements(s) \cup {n}
<1>1. PICK N \in Nat : N = Len(s) /\ DOMAIN s = 1 .. N
  OBVIOUS
<1> DEFINE name(x) == Src[x].name
           T == {j \in DOMAIN s : \A i \in 1 .. j : name(s[i]) < name(n)}
<1>2. name(n) \in Nat /\ \A j \in 1 .. N : s[j] \in Files /\ name(s[j]) \in Nat
  BY <1>1, SourceFacts
<1>3. T \in SUBSET (1 .. N) /\ \A k \in T : \A j \in 1 .. k : j \in T
  BY <1>1
<1>4. Inserted(s, n) = SubSeq(s, 1, Cardinality(T)) \o <<n>> \o SubSeq(s, Cardinality(T) + 1, Len(s))
  BY DEF Inserted, Src
<1>5. \A k \in 1 .. N : k \in T <=> \A j \in 1 .. k : name(s[j]) < name(n)
  BY <1>1
<1>6. \A i, j \in 1 .. N : i < j => name(s[i]) < name(s[j])
  BY <1>1 DEF Sorted
<1>7. \A j \in 1 .. N : name(s[j]) # name(n)
  BY <1>1
<1> HIDE DEF T
<1>8. PICK m \in 0 .. N : T = 1 .. m /\ Cardinality(T) = m
  BY <1>3, ClosedBelow
<1>9. \A k \in 1 .. m : name(s[k]) < name(n)
  BY <1>5, <1>8
<1>10. \A k \in m + 1 .. N : name(n) < name(s[k])
  <2> SUFFICES ASSUME NEW k \in m + 1 .. N PROVE name(n) < name(s[k])
    OBVIOUS
  <2>1. m + 1 \in 1 .. N /\ m + 1 \notin T
    BY <1>8
  <2>2. PICK j \in 1 .. m + 1 : ~(name(s[j]) < name(n))
    BY <2>1, <1>5
  <2>3. j \in 1 .. N /\ j <= k
    BY <1>8, <1>9, <2>2
  <2>4. name(s[j]) \in Nat /\ name(s[k]) \in Nat /\ (j = k \/ name(s[j]) < name(s[k]))
    BY <1>2, <1>6, <2>3
  <2>5. name(n) < name(s[j])
    BY <1>2, <1>7, <2>2, <2>3
  <2> HIDE DEF name
  <2> QED BY <1>2, <2>4, <2>5
<1> DEFINE u == SubSeq(s, 1, m)
           v == SubSeq(s, m + 1, N)
           t == u \o <<n>> \o v
<1>11. t = Inserted(s, n)
  BY <1>1, <1>4, <1>8
<1>12. u \in Seq(Files) /\ v \in Seq(Files) /\ Len(u) = m /\ Len(v) = N - m
       /\ (\A k \in 1 .. m : u[k] = s[k]) /\ \A k \in 1 .. N - m : v[k] = s[m + k]
  BY <1>1
<1> HIDE DEF u, v
<1>13. t \in Seq(Files) /\ Len(t) = N + 1
       /\ (\A k \in 1 .. m : t[k] = s[k]) /\ t[m + 1] = n
       /\ \A k \in m + 2 .. N + 1 : t[k] = s[k - 1]
  <2>1. u \o <<n>> \in Seq(Files) /\ Len(u \o <<n>>) = m + 1
        /\ (\A k \in 1 .. m : (u \o <<n>>)[k] = s[k]) /\ (u \o <<n>>)[m + 1] = n
    BY <1>12
  <2> DEFINE x == u \o <<n>>
  <2> HIDE DEF x
  <2>2. t = x \o v /\ x \in Seq(Files) /\ Len(x) = m + 1
        /\ (\A k \in 1 .. m : x[k] = s[k]) /\ x[m + 1] = n
    BY <2>1 DEF x
  <2> HIDE DEF t
  <2>3. /\ t \in Seq(Files) /\ Len(t) = m + 1 + (N - m)
        /\ \A k \in 1 .. m + 1 : t[k] = x[k]
        /\ \A k \in 1 .. N - m : t[m + 1 + k] = v[k]
    <3>1. /\ x \o v \in Seq(Files) /\ Len(x \o v) = Len(x) + Len(v)
          /\ \A k \in 1 .. Len(x) : (x \o v)[k] = x[k]
          /\ \A k \in 1 .. Len(v) : (x \o v)[Len(x) + k] = v[k]
      <4>1. x \in Seq(Files) /\ v \in Seq(Files)
        BY <1>12, <2>2
      <4> QED BY <4>1, SMT
    <3> QED BY <1>12, <2>2, <3>1
  <2>4. ASSUME NEW k \in m + 2 .. N + 1 PROVE t[k] = s[k - 1]
    <3>1. k - (m + 1) \in 1 .. N - m /\ m + 1 + (k - (m + 1)) = k
      OBVIOUS
    <3>2. t[k] = v[k - (m + 1)]
      BY <2>3, <3>1
    <3>3. v[k - (m + 1)] = s[m + (k - (m + 1))] /\ m + (k - (m + 1)) = k - 1
      BY <1>12, <3>1
    <3> QED BY <3>2, <3>3
  <2> QED BY <2>2, <2>3, <2>4
<1> HIDE DEF t
<1>14. DOMAIN t = 1 .. N + 1
  BY <1>13
<1>15. Sorted(t)
  <2> SUFFICES ASSUME NEW i \in 1 .. N + 1, NEW j \in 1 .. N + 1, i < j
               PROVE  name(t[i]) < name(t[j])
    BY <1>14 DEF Sorted
  <2>1. CASE j <= m
    BY <1>6, <1>13, <2>1
  <2>2. CASE j = m + 1
    BY <1>9, <1>13, <2>2
  <2>3. CASE j > m + 1 /\ i <= m
    BY <1>6, <1>13, <2>3
  <2>4. CASE j > m + 1 /\ i = m + 1
    BY <1>10, <1>13, <2>4
  <2>5. CASE j > m + 1 /\ i > m + 1
    <3>1. i - 1 \in 1 .. N /\ j - 1 \in 1 .. N /\ i - 1 < j - 1
          /\ i \in m + 2 .. N + 1 /\ j \in m + 2 .. N + 1
      BY <2>5
    <3> QED BY <1>6, <1>13, <3>1
  <2> QED BY <2>1, <2>2, <2>3, <2>4, <2>5
<1>16. Elements(t) = Elements(s) \cup {n}
  <2>1. ASSUME NEW i \in 1 .. N + 1 PROVE t[i] \in Elements(s) \cup {n}
    <3>1. i \in 1 .. m \/ i = m + 1 \/ i \in m + 2 .. N + 1
      OBVIOUS
    <3>2. t[i] = n \/ \E j \in 1 .. N : t[i] = s[j]
      BY <1>13, <3>1
    <3> QED BY <1>1, <3>2 DEF Elements
  <2>2. ASSUME NEW i \in 1 .. N PROVE s[i] \in Elements(t)
    <3>1. i \in 1 .. m \/ i + 1 \in m + 2 .. N + 1
      OBVIOUS
    <3>2. \E j \in 1 .. N + 1 : t[j] = s[i]
      <4>1. CASE i \in 1 .. m
        BY <1>13, <4>1
      <4>2. CASE i + 1 \in m + 2 .. N + 1
        <5>1. t[i + 1] = s[i + 1 - 1] /\ i + 1 - 1 = i
          BY <1>13, <4>2
        <5> QED BY <5>1
      <4> QED BY <3>1, <4>1, <4>2
    <3> QED BY <1>14, <3>2 DEF Elements
  <2>3. n \in Elements(t)
    BY <1>13, <1>14 DEF Elements
  <2> QED BY <1>1, <1>14, <2>1, <2>2, <2>3 DEF Elements
<1> QED BY <1>11, <1>13, <1>15, <1>16

-----------------------------------------------------------------------------
(* The running calls of add_directory.                                     *)

\* Types of the parts of a running call.
LEMMA FrameFacts ==
    ASSUME run \in Runs, NEW I \in SUBSET (Nat \ {0}), NEW fr \in FrameType(I)
    PROVE  /\ fr.inode \in I /\ fr.inode # 0 /\ fr.list \in Seq(Files)
           /\ fr.unread \in SUBSET Files
           /\ fr.pass \in {"scan", "files", "others"} /\ fr.at \in Nat /\ fr.at # 0
           /\ fr.sub \in I \cup {0}
           /\ Len(fr.list) \in Nat /\ DOMAIN fr.list = 1 .. Len(fr.list)
           /\ \A j \in DOMAIN fr.list : fr.list[j] \in Files
  BY DEF FrameType

\* The call that runs.
LEMMA TopOfWalk ==
    ASSUME WalkTypeOK, stage = "walk"
    PROVE  /\ Len(walk) \in Nat /\ Len(walk) >= 1 /\ DOMAIN walk = 1 .. Len(walk)
           /\ This = walk[Len(walk)] /\ This \in FrameType(Inodes) /\ Len(walk) \in DOMAIN walk
           /\ \A k \in 1 .. Len(walk) : walk[k] \in FrameType(Inodes)
  BY DEF WalkTypeOK, This

\* Every call but the first is for a subdirectory of the one before.
Called(w, k) ==
    /\ NodeAt(w, k) \in Files /\ Src[NodeAt(w, k)].kind = "dir"
    /\ Src[NodeAt(w, k)].parent = NodeAt(w, k - 1)

\* The files in the list of a call are those of its directory, and calls treat different
\* directories.
LEMMA NodeFacts ==
    ASSUME run \in Runs, NEW I \in SUBSET (Nat \ {0}), NEW w \in Seq(FrameType(I)), WalkOK(w)
    PROVE  /\ \A k \in DOMAIN w : NodeAt(w, k) \in AllNodes
           /\ \A k \in DOMAIN w : k # 1 => Called(w, k)
           /\ \A k \in DOMAIN w : \A j \in DOMAIN w[k].list :
                 w[k].list[j] \in Files /\ Src[w[k].list[j]].parent = NodeAt(w, k)
           /\ \A k \in DOMAIN w : \A n \in w[k].unread :
                 n \in Files /\ Src[n].parent = NodeAt(w, k)
           /\ \A j, k \in DOMAIN w : NodeAt(w, j) = NodeAt(w, k) => j = k
<1>1. PICK N \in Nat : N = Len(w) /\ DOMAIN w = 1 .. N
  OBVIOUS
<1>2. \A k \in 1 .. N : w[k] \in FrameType(I)
  BY <1>1
<1>3. ASSUME NEW k \in 1 .. N, NEW j \in DOMAIN w[k].list
      PROVE  w[k].list[j] \in Files /\ Src[w[k].list[j]].parent = NodeAt(w, k)
  <2>1. FrameOK(w[k], NodeAt(w, k))
    BY <1>1 DEF WalkOK
  <2>2. w[k].list[j] \in FilesOf(NodeAt(w, k))
    BY <2>1 DEF FrameOK
  <2> QED BY <2>2 DEF FilesOf, Src
<1>4. ASSUME NEW k \in 1 .. N, NEW n \in w[k].unread
      PROVE  n \in Files /\ Src[n].parent = NodeAt(w, k)
  <2>1. FrameOK(w[k], NodeAt(w, k))
    BY <1>1 DEF WalkOK
  <2> QED BY <2>1 DEF FrameOK, FilesOf, Src
<1>5. ASSUME NEW k \in 1 .. N, k # 1 PROVE Called(w, k)
  <2>1. k - 1 \in 1 .. N /\ k - 1 \in 1 .. Len(w) - 1 /\ k - 1 + 1 = k
    BY <1>1, <1>5
  <2>2. Calls(w[k - 1], w[k]) /\ FrameOK(w[k - 1], NodeAt(w, k - 1))
    BY <1>1, <2>1 DEF WalkOK
  <2>3. NodeAt(w, k) = w[k - 1].list[w[k - 1].at]
    BY <1>5 DEF NodeAt
  <2>4. w[k - 1].at \in DOMAIN w[k - 1].list
    BY <1>2, <2>1, <2>2, FrameFacts DEF Calls, FrameOK
  <2>5. NodeAt(w, k) \in Files /\ Src[NodeAt(w, k)].parent = NodeAt(w, k - 1)
    BY <1>3, <2>1, <2>3, <2>4
  <2> QED BY <2>2, <2>3, <2>5 DEF Calls, Called
<1>6. ASSUME NEW k \in 1 .. N PROVE NodeAt(w, k) \in AllNodes
  BY <1>5, SourceFacts DEF Called, NodeAt
<1>7. ASSUME NEW j \in 1 .. N, NEW k \in 1 .. N, NodeAt(w, j) = NodeAt(w, k) PROVE j = k
  <2>1. NodeAt(w, j) \in Nat /\ NodeAt(w, k) \in Nat
    BY <1>6, SourceFacts
  <2>2. (j < k => NodeAt(w, j) < NodeAt(w, k)) /\ (k < j => NodeAt(w, k) < NodeAt(w, j))
    BY <1>1 DEF WalkOK
  <2> QED BY <1>7, <2>1, <2>2
<1> QED BY <1>1, <1>3, <1>4, <1>5, <1>6, <1>7

\* The call at hand goes on; the ones above it wait.
TopTo(v, w, fr) == w = [v EXCEPT ![Len(v)] = fr]

\* The call that runs goes on.
LEMMA TopChanged ==
    ASSUME run \in Runs, NEW I \in SUBSET (Nat \ {0}), NEW v \in Seq(FrameType(I)), v # <<>>, WalkOK(v),
           NEW fr \in FrameType(I), fr.inode = v[Len(v)].inode, FrameOK(fr, NodeAt(v, Len(v))),
           NEW w, TopTo(v, w, fr)
    PROVE  /\ w \in Seq(FrameType(I)) /\ w # <<>> /\ WalkOK(w)
           /\ Len(w) = Len(v) /\ DOMAIN w = DOMAIN v /\ w[Len(v)] = fr
           /\ \A k \in DOMAIN v : k # Len(v) => w[k] = v[k]
           /\ \A k \in DOMAIN v : NodeAt(w, k) = NodeAt(v, k)
<1>1. PICK N \in Nat : N = Len(v) /\ DOMAIN v = 1 .. N /\ N >= 1
  OBVIOUS
<1>2. w \in Seq(FrameType(I)) /\ Len(w) = N /\ DOMAIN w = 1 .. N /\ w[N] = fr
      /\ \A k \in 1 .. N : k # N => w[k] = v[k]
  BY <1>1 DEF TopTo
<1>3. ASSUME NEW k \in 1 .. N PROVE NodeAt(w, k) = NodeAt(v, k)
  <2>1. k # 1 => k - 1 \in 1 .. N /\ k - 1 # N
    BY <1>1
  <2> QED BY <1>2, <2>1 DEF NodeAt
<1>4. ASSUME NEW k \in 1 .. N PROVE FrameOK(w[k], NodeAt(w, k))
  BY <1>1, <1>2, <1>3 DEF WalkOK
<1>5. ASSUME NEW k \in 1 .. N - 1 PROVE Calls(w[k], w[k + 1])
  <2>1. k \in 1 .. N /\ k # N /\ k + 1 \in 1 .. N
    BY <1>1
  <2>2. Calls(v[k], v[k + 1]) /\ w[k] = v[k]
    BY <1>1, <1>2, <2>1 DEF WalkOK
  <2>3. w[k + 1].inode = v[k + 1].inode
    BY <1>1, <1>2, <2>1
  <2> QED BY <2>2, <2>3 DEF Calls
<1>6. \A j, k \in 1 .. N : j < k => NodeAt(w, j) < NodeAt(w, k)
  BY <1>1, <1>3 DEF WalkOK
<1>7. WalkOK(w)
  BY <1>2, <1>4, <1>5, <1>6 DEF WalkOK
<1>8. w # <<>>
  BY <1>1, <1>2
<1> QED BY <1>1, <1>2, <1>3, <1>7, <1>8

\* A call begins, and one ends.
Pushed(v, w, fr) == fr = v[Len(v)] /\ w = Append(v, Frame(fr.sub, fr.list[fr.at]))

\* A call returns.
Popped(v, w) == w = SubSeq(v, 1, Len(v) - 1)

\* The recursive call for the directory at hand, whose inode is i.
LEMMA CallMade ==
    ASSUME run \in Runs, NEW I \in SUBSET (Nat \ {0}), NEW v \in Seq(FrameType(I)), v # <<>>, WalkOK(v),
           NEW fr \in FrameType(I), fr.sub # 0,
           fr.at \in DOMAIN fr.list, Src[fr.list[fr.at]].kind = "dir",
           NEW w, Pushed(v, w, fr)
    PROVE  /\ w \in Seq(FrameType(I)) /\ w # <<>> /\ WalkOK(w)
           /\ Len(w) = Len(v) + 1 /\ DOMAIN w = 1 .. Len(v) + 1
           /\ DOMAIN v = 1 .. Len(v) /\ Len(v) \in Nat
           /\ w[Len(v) + 1] = Frame(fr.sub, fr.list[fr.at])
           /\ NodeAt(w, Len(v) + 1) = fr.list[fr.at]
           /\ \A k \in DOMAIN v : w[k] = v[k] /\ NodeAt(w, k) = NodeAt(v, k)
<1>1. PICK N \in Nat : N = Len(v) /\ DOMAIN v = 1 .. N /\ N >= 1
  OBVIOUS
<1>0. fr = v[Len(v)] /\ w = Append(v, Frame(fr.sub, fr.list[fr.at]))
  BY DEF Pushed
<1> DEFINE n == fr.list[fr.at]
           new == Frame(fr.sub, n)
<1>2. n \in Files
  BY FrameFacts
<1>3. new \in FrameType(I) /\ new.inode = fr.sub /\ new.unread = FilesOf(n) /\ new.list = <<>>
      /\ new.pass = "scan" /\ new.at = 1 /\ new.sub = 0
  <2>1. fr.sub \in I
    BY FrameFacts
  <2>2. FilesOf(n) \in SUBSET Files
    BY DEF FilesOf
  <2> QED BY <2>1, <2>2 DEF Frame, FrameType
<1> HIDE DEF new
<1>4. w = Append(v, new)
  BY <1>0 DEF new
<1>5. w \in Seq(FrameType(I)) /\ Len(w) = N + 1 /\ DOMAIN w = 1 .. N + 1 /\ w[N + 1] = new
      /\ \A k \in 1 .. N : w[k] = v[k]
  BY <1>1, <1>3, <1>4
<1>6. ASSUME NEW k \in 1 .. N PROVE NodeAt(w, k) = NodeAt(v, k)
  <2>1. k # 1 => k - 1 \in 1 .. N
    BY <1>1
  <2> QED BY <1>5, <2>1 DEF NodeAt
<1>7. NodeAt(w, N + 1) = n
  <2>1. N + 1 # 1 /\ N + 1 - 1 = N
    BY <1>1
  <2> QED BY <1>0, <1>1, <1>5, <2>1 DEF NodeAt
<1>8. FrameOK(new, n)
  <2>1. {new.list[j] : j \in DOMAIN new.list} = {}
    BY <1>3
  <2>2. Sorted(new.list)
    BY <1>3 DEF Sorted
  <2> QED BY <1>3, <2>1, <2>2 DEF FrameOK
<1>9. ASSUME NEW k \in 1 .. N + 1 PROVE FrameOK(w[k], NodeAt(w, k))
  <2>1. k \in 1 .. N \/ k = N + 1
    BY <1>1
  <2> QED BY <1>1, <1>5, <1>6, <1>7, <1>8, <2>1 DEF WalkOK
<1>10. ASSUME NEW k \in 1 .. N PROVE Calls(w[k], w[k + 1])
  <2>1. CASE k = N
    BY <1>0, <1>1, <1>3, <1>5, <2>1 DEF Calls
  <2>2. CASE k # N
    <3>1. k \in 1 .. N - 1 /\ k + 1 \in 1 .. N
      BY <1>1, <2>2
    <3> QED BY <1>1, <1>5, <3>1 DEF WalkOK
  <2> QED BY <2>1, <2>2
<1>11. NodeAt(v, N) < n /\ \A k \in 1 .. N : NodeAt(v, k) \in Nat
  <2>1. Src[n].parent = NodeAt(v, N)
    BY <1>0, <1>1, NodeFacts
  <2> QED BY <1>1, <1>2, <2>1, SourceFacts, NodeFacts
<1>12. ASSUME NEW j \in 1 .. N + 1, NEW k \in 1 .. N + 1, j < k PROVE NodeAt(w, j) < NodeAt(w, k)
  <2>1. CASE k = N + 1
    <3>1. j \in 1 .. N /\ (j = N \/ j < N)
      BY <1>1, <1>12, <2>1
    <3>2. j < N => NodeAt(v, j) < NodeAt(v, N)
      BY <1>1, <3>1 DEF WalkOK
    <3>3. n \in Nat
      BY <1>2, SourceFacts
    <3> QED BY <1>1, <1>6, <1>7, <1>11, <2>1, <3>1, <3>2, <3>3
  <2>2. CASE k # N + 1
    <3>1. j \in 1 .. N /\ k \in 1 .. N
      BY <1>1, <1>12, <2>2
    <3> QED BY <1>1, <1>6, <1>12, <3>1 DEF WalkOK
  <2> QED BY <2>1, <2>2
<1>13. WalkOK(w)
  <2>1. Len(w) - 1 = N
    BY <1>5
  <2> QED BY <1>5, <1>9, <1>10, <1>12, <2>1 DEF WalkOK
<1>14. w # <<>>
  BY <1>1, <1>5
<1> QED BY <1>1, <1>5, <1>6, <1>7, <1>13, <1>14 DEF new

\* add_directory returns to its caller.
LEMMA CallEnded ==
    ASSUME run \in Runs, NEW I \in SUBSET (Nat \ {0}), NEW v \in Seq(FrameType(I)), v # <<>>, WalkOK(v),
           NEW w, Popped(v, w)
    PROVE  /\ w \in Seq(FrameType(I)) /\ WalkOK(w) /\ Len(v) \in Nat /\ Len(v) >= 1
           /\ Len(w) = Len(v) - 1 /\ DOMAIN w = 1 .. Len(v) - 1
           /\ DOMAIN v = 1 .. Len(v)
           /\ \A k \in DOMAIN w : w[k] = v[k] /\ NodeAt(w, k) = NodeAt(v, k)
<1>1. PICK N \in Nat : N = Len(v) /\ DOMAIN v = 1 .. N /\ N >= 1
  OBVIOUS
<1>2. w \in Seq(FrameType(I)) /\ Len(w) = N - 1 /\ DOMAIN w = 1 .. N - 1
      /\ \A k \in 1 .. N - 1 : w[k] = v[k]
  BY <1>1 DEF Popped
<1>3. ASSUME NEW k \in 1 .. N - 1 PROVE NodeAt(w, k) = NodeAt(v, k)
  <2>1. k # 1 => k - 1 \in 1 .. N - 1
    BY <1>1
  <2> QED BY <1>2, <2>1 DEF NodeAt
<1>4. ASSUME NEW k \in 1 .. N - 1 PROVE k \in 1 .. N
  BY <1>1
<1>5. ASSUME NEW k \in 1 .. Len(w) - 1 PROVE Calls(w[k], w[k + 1])
  <2>1. k \in 1 .. N - 1 /\ k + 1 \in 1 .. N - 1
    BY <1>1, <1>2
  <2>2. Calls(v[k], v[k + 1])
    BY <1>1, <2>1 DEF WalkOK
  <2> QED BY <1>2, <2>1, <2>2
<1>6. WalkOK(w)
  BY <1>1, <1>2, <1>3, <1>4, <1>5 DEF WalkOK
<1> QED BY <1>1, <1>2, <1>3, <1>6

-----------------------------------------------------------------------------
(* The steps of the program as steps of the walk and of the tree.          *)

\* Where main is before and behind the work on the tree.
Early == {"start", "options", "destination", "image", "root"}
Ended == {"release", "done", "exit", "crashed"}

\* Steps that leave the walk and the tree alone.
QuietStep ==
    /\ UNCHANGED <<run, walkVars, treeAll>>
    /\ \/ stage' = stage
       \/ stage \in Early /\ stage' \in Early
       \/ stage' \in Ended

\* Every step of the program is one of these.
LEMMA StepCases ==
    ASSUME [MkNext]_mkVars
    PROVE  \/ QuietStep \/ RootDirectory \/ MainSetRoot \/ FinalizeStep
           \/ \E n \in Files : ReadEntry(n)
           \/ NextPass \/ SkipEntry \/ AddFile \/ EnterFile \/ AddOther \/ EnterOther \/ Return
<1> USE DEF QuietStep, Early, Ended, mainVars
<1>1. CASE CreateOptions
  BY <1>1 DEF CreateOptions
<1>2. CASE ParseOption
  <2>1. stage = "options" /\ UNCHANGED <<run, options, dest, image, treeAll, walkVars>>
    BY <1>2 DEF ParseOption
  <2>2. stage' \in {"exit", "crashed"} \/ stage' = stage
    BY <1>2 DEF ParseOption
  <2> QED BY <2>1, <2>2
<1>3. CASE ParseArguments
  BY <1>3 DEF ParseArguments
<1>4. CASE CreateDestination
  BY <1>4 DEF CreateDestination
<1>5. CASE CreateImage
  BY <1>5 DEF CreateImage
<1>6. CASE FinalizeCrash
  BY <1>6 DEF FinalizeCrash
<1>7. CASE WorkerCrash
  BY <1>7 DEF WorkerCrash
<1>8. CASE MainClose
  BY <1>8 DEF MainClose
<1>9. CASE MainRelease
  BY <1>9 DEF MainRelease
<1>10. CASE PathTooLong
  BY <1>10 DEF PathTooLong
<1>11. CASE UnknownKind
  BY <1>11 DEF UnknownKind
<1>12. CASE NullFollowed
  BY <1>12 DEF NullFollowed
<1>13. CASE Stopped \/ UNCHANGED mkVars
  BY <1>13 DEF Stopped, mkVars
<1>14. CASE RootFails
  BY <1>14 DEF RootFails
<1> QED BY <1>1, <1>2, <1>3, <1>4, <1>5, <1>6, <1>7, <1>8, <1>9, <1>10, <1>11, <1>12, <1>13,
           <1>14
        DEF MkNext, Main, AddDirectory

\* What depends on the source only.
LEMMA SameSource ==
    ASSUME run' = run
    PROVE  /\ Src' = Src /\ Files' = Files /\ AllNodes' = AllNodes
           /\ \A d : FilesOf(d)' = FilesOf(d)
           /\ \A I : FrameType(I)' = FrameType(I)
  BY DEF Src, Files, AllNodes, FilesOf, FrameType

\* A walk of the same source.
LEMMA SameWalk ==
    ASSUME run' = run, WalkOK(walk')
    PROVE  WalkOK(walk)'
<1>1. Src' = Src /\ \A d : FilesOf(d)' = FilesOf(d)
  BY SameSource
<1>2. ASSUME NEW fr, NEW d, FrameOK(fr, d) PROVE FrameOK(fr, d)'
  BY <1>1, <1>2 DEF FrameOK, Sorted
<1>3. ASSUME NEW fr, NEW next, Calls(fr, next) PROVE Calls(fr, next)'
  BY <1>1, <1>3 DEF Calls
<1>4. ASSUME NEW w, WalkOK(w) PROVE WalkOK(w)'
  <2>1. \A k \in DOMAIN w : FrameOK(w[k], NodeAt(w, k))'
    BY <1>2, <1>4 DEF WalkOK, NodeAt
  <2>2. \A k \in 1 .. Len(w) - 1 : Calls(w[k], w[k + 1])'
    BY <1>3, <1>4 DEF WalkOK
  <2> QED BY <1>4, <2>1, <2>2 DEF WalkOK, NodeAt
<1> QED BY <1>4

-----------------------------------------------------------------------------
(* Steps outside the walk.                                                 *)

\* What does not depend on the calls.
MirrorsTree(f, E) == NodesMade(f, E) /\ EntriesMade(f, E) /\ CacheMade(f) /\ Numbered(f, E)

\* What has been made stays made.
LEMMA SameTree ==
    ASSUME UNCHANGED <<run, kind, target, entries, cache>>, NEW f, NEW E, MirrorsTree(f, E)
    PROVE  MirrorsTree(f, E)'
<1>1. /\ Src' = Src /\ Files' = Files /\ AllNodes' = AllNodes /\ Inodes' = Inodes
      /\ kind' = kind /\ target' = target /\ entries' = entries /\ cache' = cache
  BY SameSource DEF Inodes
<1>2. \A m, n : SameFile(m, n)' = SameFile(m, n)
  BY <1>1 DEF SameFile
<1>3. \A n : EntryOf(f, n)' = EntryOf(f, n) /\ Cached(f, n)' = Cached(f, n)
  BY <1>1 DEF EntryOf, Cached
<1>4. NodesMade(f, E)'
  BY <1>1, <1>2 DEF MirrorsTree, NodesMade
<1>5. EntriesMade(f, E)'
  BY <1>1, <1>3 DEF MirrorsTree, EntriesMade
<1>6. CacheMade(f)'
  BY <1>1, <1>3 DEF MirrorsTree, CacheMade
<1>7. \A n : OtherPath(n)' = OtherPath(n)
  BY <1>1 DEF OtherPath, Src
<1>8. Numbered(f, E)'
  BY <1>1, <1>7 DEF MirrorsTree, Numbered
<1> QED BY <1>4, <1>5, <1>6, <1>8 DEF MirrorsTree

\* The same for the calls that run.
LEMMA SameCalls ==
    ASSUME run' = run, NEW f, NEW E, CallsMade(f, E, walk'), Returned(f, E, walk')
    PROVE  CallsMade(f, E, walk)' /\ Returned(f, E, walk)'
<1>1. Src' = Src /\ Files' = Files
  BY SameSource
<1>2. (\A fr, j : Treated(fr, j)' = Treated(fr, j)) /\ \A fr, n : Pending(f, fr, n)' = Pending(f, fr, n)
  BY <1>1 DEF Treated, Pending
<1>3. ASSUME NEW w, CallsMade(f, E, w) PROVE CallsMade(f, E, w)'
  BY <1>1, <1>2, <1>3 DEF CallsMade, NodeAt
<1>4. ASSUME NEW w, Returned(f, E, w) PROVE Returned(f, E, w)'
  BY <1>1, <1>4 DEF Returned, NodeAt
<1> QED BY <1>3, <1>4

\* Nothing that the invariant speaks of has changed.
LEMMA SameMirror ==
    ASSUME UNCHANGED <<run, kind, target, entries, cache, walk>>, NEW f, NEW E, Mirrors(f, E)
    PROVE  Mirrors(f, E)'
<1>1. MirrorsTree(f, E) /\ CallsMade(f, E, walk') /\ Returned(f, E, walk')
  BY DEF Mirrors, MirrorsTree
<1>2. MirrorsTree(f, E)' /\ CallsMade(f, E, walk)' /\ Returned(f, E, walk)'
  BY <1>1, SameTree, SameCalls
<1> QED BY <1>2 DEF Mirrors, MirrorsTree

\* The same for all inodes and entries together.
LEMMA SameMirrorInv ==
    ASSUME MirrorInv, UNCHANGED <<run, kind, target, entries, cache, walk, oom>>, Walking' => Walking
    PROVE  MirrorInv'
<1> SUFFICES ASSUME ~oom', Walking' PROVE (\E f, E : Mirrors(f, E))'
  BY DEF MirrorInv
<1>1. PICK f, E : Mirrors(f, E)
  BY DEF MirrorInv
<1>2. Mirrors(f, E)'
  BY <1>1, SameMirror
<1> QED BY <1>2

\* And for types.
LEMMA SameTypes ==
    ASSUME UNCHANGED <<run, kind, target, cache, walk>>
    PROVE  /\ Src' = Src /\ Files' = Files /\ Inodes' = Inodes
           /\ CacheEntry' = CacheEntry /\ FrameType(Inodes)' = FrameType(Inodes)
  BY SameSource DEF Inodes, CacheEntry, FrameType

\* A quiet step keeps the invariant.
LEMMA QuietKeeps ==
    ASSUME WalkInv, QuietStep
    PROVE  WalkInv'
<1>1. /\ UNCHANGED <<run, kind, target, entries, cache, walk, oom, root, phase>>
      /\ stage' \in {"walk", "setroot", "finalize"} => stage' = stage
      /\ stage' \in Early => stage \in Early
  BY DEF QuietStep, walkVars, treeAll, treeVars, runVars, Early, Ended
<1>2. WalkTypeOK'
  BY <1>1, SameTypes DEF WalkInv, WalkTypeOK, Early
<1>3. ASSUME stage' = "walk" PROVE WalkOK(walk)'
  BY <1>1, <1>3, SameWalk DEF WalkInv
<1>4. Walking' => Walking
  BY <1>1 DEF Walking
<1>5. MirrorInv'
  BY <1>1, <1>4, SameMirrorInv DEF WalkInv
<1> QED BY <1>2, <1>3, <1>5 DEF WalkInv

\* Serialization leaves the tree alone.
LEMMA SerializeStepFacts ==
    ASSUME SerializeStep
    PROVE  UNCHANGED treeVars
  BY DEF SerializeStep, SerializeRoot, VisitEncoded, VisitDirectory, VisitLeaf, EncodeDirectory,
         EncodeFail

\* libsqfs_image_finalize is a step of the tree.
LEMMA FinalizeKeeps ==
    ASSUME WalkInv, FinalizeStep
    PROVE  WalkInv' /\ Next
<1>1. /\ UNCHANGED <<run, kind, target, entries, cache, walk, oom, root>>
      /\ stage = "finalize" /\ stage' = "finalize"
  BY SerializeStepFacts DEF FinalizeStep, walkVars, mainVars, treeVars
<1>2. WalkTypeOK'
  BY <1>1, SameTypes DEF WalkInv, WalkTypeOK
<1>3. Walking' => Walking
  BY <1>1 DEF Walking
<1>4. MirrorInv'
  BY <1>1, <1>3, SameMirrorInv DEF WalkInv
<1>5. Next
  BY DEF FinalizeStep, Next
<1> QED BY <1>1, <1>2, <1>4, <1>5 DEF WalkInv

\* libsqfs_image_set_root follows the walk.
LEMMA MainSetRootKeeps ==
    ASSUME IInv, WalkInv, MainSetRoot
    PROVE  WalkInv' /\ Next
<1>1. /\ UNCHANGED <<run, kind, target, entries, cache, walk, oom, phase>>
      /\ stage = "setroot" /\ stage' = "finalize" /\ root' = 1 /\ SetRoot(1)
  BY DEF MainSetRoot, SetRoot, walkVars, mainVars, runVars, tableVars
<1>2. WalkTypeOK'
  BY <1>1, SameTypes DEF WalkInv, WalkTypeOK
<1>3. Walking' => Walking
  BY <1>1 DEF Walking
<1>4. MirrorInv'
  BY <1>1, <1>3, SameMirrorInv DEF WalkInv
<1>5. 1 \in Inodes
  <2>1. kind # <<>> /\ kind \in Seq(Kinds)
    BY <1>1 DEF WalkInv, WalkTypeOK, IInv, TreeInv, TreeTypeOK
  <2> QED BY <2>1 DEF Inodes
<1>6. Next
  BY <1>1, <1>5 DEF Next, Build
<1> QED BY <1>1, <1>2, <1>4, <1>6 DEF WalkInv

-----------------------------------------------------------------------------
(* Steps of the walk: types and calls.                                     *)

\* Types of the tree.
LEMMA TypesOfTree ==
    ASSUME IInv
    PROVE  /\ TreeTypeOK /\ kind \in Seq(Kinds) /\ Len(kind) \in Nat /\ Inodes = 1 .. Len(kind)
           /\ Inodes \in SUBSET (Nat \ {0}) /\ entries \in Seq(Seq(Entry))
           /\ Len(entries) = Len(kind) /\ DOMAIN entries = Inodes /\ DOMAIN kind = Inodes
  BY DEF IInv, TreeInv, TreeTypeOK, Inodes

\* A new inode, with the number after the last.
LEMMA MakeFacts ==
    ASSUME IInv, target \in Seq(Nat), Len(target) = Len(kind), NEW k \in Kinds, NEW xs,
           NEW len \in Nat, NEW i, i = Len(kind) + 1, Make(k, xs, len)
    PROVE  /\ Next /\ UNCHANGED <<root, oom, phase>> /\ phase = "build"
           /\ Inodes' = Inodes \cup {i} /\ i \in Nat \ {0} /\ i \notin Inodes
           /\ \A j \in Inodes : j < i
           /\ Len(kind') = i /\ kind'[i] = k /\ (\A j \in Inodes : kind'[j] = kind[j])
           /\ entries'[i] = <<>> /\ (\A j \in Inodes : entries'[j] = entries[j])
           /\ target' \in Seq(Nat) /\ Len(target') = Len(kind')
           /\ target'[i] = len /\ (\A j \in Inodes : target'[j] = target[j])
           /\ kind' # <<>>
<1> DEFINE m == [kind |-> k, xattr |-> xs = "known"]
<1>1. m \in Makes
  BY MakesEveryKind
<1>2. CreateInode(m) /\ target' = Append(target, len)
  BY DEF Make
<1>3. Next
  BY <1>1, <1>2 DEF Next, Build
<1>4. /\ kind' = Append(kind, k) /\ entries' = Append(entries, <<>>)
      /\ UNCHANGED <<root, oom, phase>> /\ phase = "build"
  BY <1>2 DEF CreateInode, runVars
<1>5. /\ kind \in Seq(Kinds) /\ Len(kind) \in Nat /\ Inodes = 1 .. Len(kind)
      /\ entries \in Seq(Seq(Entry)) /\ Len(entries) = Len(kind)
  BY TypesOfTree
<1>6. /\ Len(kind') = i /\ kind'[i] = k /\ (\A j \in 1 .. Len(kind) : kind'[j] = kind[j])
      /\ kind' \in Seq(Kinds)
  BY <1>4, <1>5
<1>7. entries'[i] = <<>> /\ (\A j \in 1 .. Len(kind) : entries'[j] = entries[j])
  BY <1>4, <1>5
<1>8. /\ target' \in Seq(Nat) /\ Len(target') = i
      /\ target'[i] = len /\ (\A j \in 1 .. Len(kind) : target'[j] = target[j])
  BY <1>2, <1>5
<1>9. Inodes' = 1 .. i /\ kind' # <<>>
  BY <1>5, <1>6 DEF Inodes
<1> QED BY <1>3, <1>4, <1>5, <1>6, <1>7, <1>8, <1>9

\* An inode is entered, or that fails; the list goes on.
Stepped(fr) == [fr EXCEPT !.at = @ + 1, !.sub = 0]

\* A call goes on to the next entry.
LEMMA SteppedFacts ==
    ASSUME run \in Runs, NEW I \in SUBSET (Nat \ {0}), NEW fr \in FrameType(I), NEW d, FrameOK(fr, d),
           fr.pass # "scan"
    PROVE  /\ Stepped(fr) \in FrameType(I) /\ FrameOK(Stepped(fr), d)
           /\ Stepped(fr).inode = fr.inode /\ Stepped(fr).list = fr.list
           /\ Stepped(fr).unread = fr.unread /\ Stepped(fr).pass = fr.pass
           /\ Stepped(fr).at = fr.at + 1 /\ Stepped(fr).sub = 0
<1>1. /\ Stepped(fr) \in FrameType(I)
      /\ Stepped(fr).inode = fr.inode /\ Stepped(fr).list = fr.list
      /\ Stepped(fr).unread = fr.unread /\ Stepped(fr).pass = fr.pass
      /\ Stepped(fr).at = fr.at + 1 /\ Stepped(fr).sub = 0
  <2>1. /\ fr.inode \in I /\ fr.unread \in SUBSET Files /\ fr.list \in Seq(Files)
        /\ fr.pass \in {"scan", "files", "others"} /\ fr.at \in Nat \ {0} /\ fr.sub \in I \cup {0}
        /\ fr = [inode |-> fr.inode, unread |-> fr.unread, list |-> fr.list, pass |-> fr.pass,
                 at |-> fr.at, sub |-> fr.sub]
    BY DEF FrameType
  <2>2. Stepped(fr) = [inode |-> fr.inode, unread |-> fr.unread, list |-> fr.list, pass |-> fr.pass,
                       at |-> fr.at + 1, sub |-> 0]
    <3>1. PICK g : g = [fr EXCEPT !.at = @ + 1]
      OBVIOUS
    <3>2. g = [inode |-> fr.inode, unread |-> fr.unread, list |-> fr.list, pass |-> fr.pass,
               at |-> fr.at + 1, sub |-> fr.sub]
      BY <2>1, <3>1
    <3>3. Stepped(fr) = [g EXCEPT !.sub = 0]
      BY <3>1 DEF Stepped
    <3> QED BY <3>2, <3>3
  <2>3. fr.at + 1 \in Nat \ {0} /\ 0 \in I \cup {0}
    BY <2>1
  <2> QED BY <2>1, <2>2, <2>3 DEF FrameType
<1>2. FrameOK(Stepped(fr), d)
  BY <1>1 DEF FrameOK
<1> QED BY <1>1, <1>2

\* The file at hand is one of the directory of the call that runs.
LEMMA AtFileFacts ==
    ASSUME WalkInv, NEW pass, AtFile(pass), IInv
    PROVE  /\ stage = "walk" /\ This.pass = pass /\ This.at \in DOMAIN This.list
           /\ Current \in Files /\ Current = This.list[This.at] /\ File = Src[Current]
           /\ Src[Current].parent = NodeAt(walk, Len(walk))
           /\ FrameOK(This, NodeAt(walk, Len(walk))) /\ WalkOK(walk)
           /\ Src[Current] \in FileType
<1>1. stage = "walk" /\ This.pass = pass /\ This.at <= Len(This.list)
  BY DEF AtFile, InPass
<1>2. This \in FrameType(Inodes) /\ Len(walk) \in DOMAIN walk /\ This = walk[Len(walk)] /\ run \in Runs
      /\ walk \in Seq(FrameType(Inodes))
  BY <1>1, TopOfWalk DEF WalkInv, WalkTypeOK
<1>3. This.at \in DOMAIN This.list
  BY <1>1, <1>2, FrameFacts, TypesOfTree
<1>4. WalkOK(walk)
  BY <1>1 DEF WalkInv
<1>5. FrameOK(This, NodeAt(walk, Len(walk)))
  BY <1>2, <1>4 DEF WalkOK
<1>6. This.list[This.at] \in Files /\ Src[This.list[This.at]].parent = NodeAt(walk, Len(walk))
  BY <1>2, <1>3, <1>4, NodeFacts, TypesOfTree
<1> QED BY <1>1, <1>2, <1>3, <1>4, <1>5, <1>6, SourceFacts DEF Current, File, Src

\* libsqfs_directory_add_entry, whether it fails or not, is a step of the tree.
LEMMA EnterFacts ==
    ASSUME IInv, WalkInv, NEW pass, AtFile(pass), pass # "scan", NEW i \in Inodes, Enter(i)
    PROVE  /\ Next /\ UNCHANGED <<run, kind, target, cache, root, phase, stage>>
           /\ TopTo(walk, walk', Stepped(This))
           /\ \/ oom'
              \/ oom' = oom /\ entries' = [entries EXCEPT ![This.inode] = EntriesWith(This.inode, File.name, i)]
           /\ This.inode \in Inodes /\ File.name \in Names
<1>1. This \in FrameType(Inodes) /\ run \in Runs
  BY AtFileFacts, TopOfWalk DEF WalkInv, WalkTypeOK
<1>2. This.inode \in Inodes
  BY <1>1, FrameFacts, TypesOfTree
<1>3. File.name \in Names
  BY <1>1, AtFileFacts, SourceFacts DEF FileType
<1>4. AddEntry(This.inode, File.name, i) \/ AddEntryFail(This.inode, File.name, i)
  BY DEF Enter
<1>5. Next
  BY <1>2, <1>3, <1>4 DEF Next, Build
<1>6. UNCHANGED <<kind, root, phase>>
  BY <1>4 DEF AddEntry, AddEntryFail, runVars
<1>7. UNCHANGED <<run, target, cache, stage>> /\ TopTo(walk, walk', Stepped(This))
  BY DEF Enter, mainVars, Step, SetThis, TopTo, Stepped
<1>8. \/ oom'
      \/ oom' = oom /\ entries' = [entries EXCEPT ![This.inode] = EntriesWith(This.inode, File.name, i)]
  BY <1>4 DEF AddEntry, AddEntryFail
<1> QED BY <1>2, <1>3, <1>5, <1>6, <1>7, <1>8

\* What a lookup finds.
LEMMA LookupFacts ==
    ASSUME cache \in [0 .. HashSize - 1 -> Seq(CacheEntry)], NEW g \in FileType
    PROVE  /\ Bucket(g) \in 0 .. HashSize - 1
           /\ Lookup(g) # 0 => \E k \in DOMAIN cache[Bucket(g)] :
                 Same(cache[Bucket(g)][k], g) /\ cache[Bucket(g)][k].inode = Lookup(g)
           /\ Lookup(g) = 0 => \A k \in DOMAIN cache[Bucket(g)] : ~Same(cache[Bucket(g)][k], g)
<1>1. Bucket(g) \in 0 .. HashSize - 1
  <2>1. g.dev + g.ino \in Nat
    BY DEF FileType
  <2>2. \A x \in Nat : x % HashSize \in 0 .. HashSize - 1
    BY HashSizePositive
  <2> QED BY <2>1, <2>2 DEF Bucket
<1>2. PICK s : s = cache[Bucket(g)] /\ s \in Seq(CacheEntry)
  BY <1>1
<1> DEFINE hits == {k \in DOMAIN s : Same(s[k], g)}
<1>3. Lookup(g) = IF hits = {} THEN 0 ELSE s[CHOOSE k \in hits : \A j \in hits : k <= j].inode
  BY <1>2 DEF Lookup
<1>4. hits \in SUBSET Nat
  BY <1>2
<1>5. CASE hits = {}
  BY <1>1, <1>2, <1>3, <1>5
<1>6. CASE hits # {}
  <2>1. \E k \in hits : \A j \in hits : k <= j
    BY <1>4, <1>6, LeastNumber
  <2>2. PICK k : k \in hits /\ Lookup(g) = s[k].inode
    BY <1>3, <1>6, <2>1
  <2>3. Lookup(g) # 0
    <3>1. s[k] \in CacheEntry
      BY <1>2, <2>2
    <3> QED BY <2>2, <3>1 DEF CacheEntry, Inodes
  <2> QED BY <1>1, <1>2, <2>2, <2>3
<1> QED BY <1>5, <1>6

\* What inode_cache_lookup returns is an inode or nothing.
LEMMA LookupType ==
    ASSUME IInv, cache \in [0 .. HashSize - 1 -> Seq(CacheEntry)], NEW g \in FileType
    PROVE  Lookup(g) \in Inodes \cup {0}
<1> SUFFICES ASSUME Lookup(g) # 0 PROVE Lookup(g) \in Inodes
  OBVIOUS
<1>1. Bucket(g) \in 0 .. HashSize - 1 /\ \E k \in DOMAIN cache[Bucket(g)] : cache[Bucket(g)][k].inode = Lookup(g)
  BY LookupFacts
<1>2. PICK k \in DOMAIN cache[Bucket(g)] : cache[Bucket(g)][k].inode = Lookup(g)
  BY <1>1
<1>3. cache[Bucket(g)][k] \in CacheEntry
  BY <1>1
<1> QED BY <1>2, <1>3 DEF CacheEntry

-----------------------------------------------------------------------------
(* Types and calls after a step.                                           *)

\* Types and calls after a step.
TypeNext == WalkTypeOK' /\ (stage' = "walk" => WalkOK(walk)')

\* The walk goes on with the inodes there are.
LEMMA StayTypes ==
    ASSUME IInv, WalkInv, stage = "walk", stage' \in {"walk", "setroot"},
           UNCHANGED <<run, kind, target, cache, root, phase>>,
           walk' \in Seq(FrameType(Inodes)), walk' # <<>> <=> stage' = "walk", WalkOK(walk')
    PROVE  TypeNext
<1>1. FrameType(Inodes)' = FrameType(Inodes) /\ CacheEntry' = CacheEntry /\ Inodes' = Inodes
  BY SameSource DEF Inodes, CacheEntry, FrameType
<1>2. WalkTypeOK'
  BY <1>1 DEF WalkInv, WalkTypeOK
<1>3. WalkOK(walk)'
  BY SameWalk
<1> QED BY <1>2, <1>3 DEF TypeNext

\* The same with a new inode.
LEMMA MadeTypes ==
    ASSUME IInv, WalkTypeOK, NEW k \in Kinds, NEW xs, NEW len \in Nat, Make(k, xs, len),
           kind = <<>> => k = "dir", kind # <<>> => kind[1] = "dir",
           root = 0, stage' = "walk", run' = run, walk' # <<>>, WalkOK(walk'),
           walk' \in Seq(FrameType(Inodes')), cache' \in [0 .. HashSize - 1 -> Seq(CacheEntry')]
    PROVE  TypeNext
<1>1. PICK i : i = Len(kind) + 1
  OBVIOUS
<1>2. target \in Seq(Nat) /\ Len(target) = Len(kind)
  BY DEF WalkTypeOK
<1>3. /\ UNCHANGED <<root, oom, phase>> /\ phase = "build"
      /\ kind'[i] = k /\ (\A j \in Inodes : kind'[j] = kind[j])
      /\ target' \in Seq(Nat) /\ Len(target') = Len(kind') /\ kind' # <<>>
  BY <1>1, <1>2, MakeFacts
<1>4. kind'[1] = "dir"
  <2>1. kind \in Seq(Kinds) /\ Inodes = 1 .. Len(kind)
    BY TypesOfTree
  <2>2. CASE kind = <<>>
    BY <1>1, <1>3, <2>2
  <2>3. CASE kind # <<>>
    BY <1>3, <2>1, <2>3
  <2> QED BY <2>2, <2>3
<1>5. FrameType(Inodes)' = FrameType(Inodes')
  BY DEF FrameType, Files
<1>6. WalkTypeOK'
  BY <1>3, <1>4, <1>5 DEF WalkTypeOK
<1>7. WalkOK(walk)'
  BY SameWalk
<1> QED BY <1>6, <1>7 DEF TypeNext

\* Frames stay frames when there are more inodes.
LEMMA MoreInodes ==
    ASSUME NEW I, NEW J, I \subseteq J
    PROVE  /\ FrameType(I) \subseteq FrameType(J)
           /\ Seq(FrameType(I)) \subseteq Seq(FrameType(J))
<1>1. FrameType(I) \subseteq FrameType(J)
  BY DEF FrameType
<1> QED BY <1>1

\* The walk begins.
LEMMA RootDirectoryType ==
    ASSUME IInv, WalkInv, RootDirectory
    PROVE  TypeNext /\ Next
<1>1. /\ stage = "root" /\ Make("dir", "none", 0) /\ walk' = <<Frame(1, 0)>> /\ stage' = "walk"
      /\ run' = run /\ cache' = cache
  BY DEF RootDirectory, mainVars
<1>2. /\ kind = <<>> /\ cache = [b \in 0 .. HashSize - 1 |-> <<>>] /\ WalkTypeOK
      /\ target \in Seq(Nat) /\ Len(target) = Len(kind)
  BY <1>1 DEF WalkInv, WalkTypeOK
<1>3. "dir" \in Kinds /\ Len(kind) + 1 = 1
  BY <1>2 DEF Kinds
<1>4. Next /\ Inodes' = Inodes \cup {1}
  BY <1>1, <1>2, <1>3, MakeFacts
<1>5. root = 0
  BY <1>2, TypesOfTree DEF TreeTypeOK, WalkTypeOK
<1> DEFINE fr == Frame(1, 0)
<1>6. /\ fr \in FrameType(Inodes') /\ fr.unread = FilesOf(0) /\ fr.list = <<>>
      /\ fr.pass = "scan" /\ fr.at = 1 /\ fr.sub = 0
  BY <1>4 DEF Frame, FrameType, FilesOf
<1>7. FrameOK(fr, 0)
  <2>1. {fr.list[j] : j \in DOMAIN fr.list} = {}
    BY <1>6
  <2>2. Sorted(fr.list)
    BY <1>6 DEF Sorted
  <2> QED BY <1>6, <2>1, <2>2 DEF FrameOK
<1> HIDE DEF fr
<1>8. walk' = <<fr>>
  BY <1>1 DEF fr
<1>9. walk' \in Seq(FrameType(Inodes')) /\ walk' # <<>> /\ DOMAIN walk' = {1} /\ Len(walk') = 1 /\ walk'[1] = fr
  BY <1>6, <1>8
<1>10. NodeAt(walk', 1) = 0
  BY DEF NodeAt
<1>11. WalkOK(walk')
  BY <1>7, <1>9, <1>10 DEF WalkOK
<1>12. cache' \in [0 .. HashSize - 1 -> Seq(CacheEntry')]
  BY <1>1, <1>2
<1>13. TypeNext
  BY <1>1, <1>2, <1>3, <1>5, <1>9, <1>11, <1>12, MadeTypes
<1> QED BY <1>4, <1>13

\* What a step of the call at hand that makes no inode does.
TopStep(fr) ==
    /\ stage = "walk" /\ stage' = "walk" /\ TopTo(walk, walk', fr)
    /\ UNCHANGED <<run, kind, target, cache, root, phase, entries, oom>> /\ UNCHANGED treeAll
    /\ fr \in FrameType(Inodes) /\ fr.inode = This.inode
    /\ FrameOK(fr, NodeAt(walk, Len(walk)))

\* A step that changes only the call that runs keeps types and calls.
LEMMA TopTypes ==
    ASSUME IInv, WalkInv, NEW fr, TopStep(fr)
    PROVE  TypeNext
<1>1. /\ run \in Runs /\ Inodes \in SUBSET (Nat \ {0}) /\ walk \in Seq(FrameType(Inodes))
      /\ walk # <<>> /\ WalkOK(walk) /\ This = walk[Len(walk)]
  BY TypesOfTree DEF TopStep, WalkInv, WalkTypeOK, This
<1>2. walk' \in Seq(FrameType(Inodes)) /\ walk' # <<>> /\ WalkOK(walk')
  BY <1>1, TopChanged DEF TopStep
<1> QED BY <1>2, StayTypes DEF TopStep

\* The call that runs, its directory and its types.
LEMMA TopCall ==
    ASSUME IInv, WalkInv, stage = "walk"
    PROVE  /\ run \in Runs /\ Inodes \in SUBSET (Nat \ {0}) /\ walk \in Seq(FrameType(Inodes))
           /\ walk # <<>> /\ WalkOK(walk) /\ This = walk[Len(walk)] /\ This \in FrameType(Inodes)
           /\ Len(walk) \in DOMAIN walk /\ FrameOK(This, NodeAt(walk, Len(walk)))
           /\ DOMAIN walk = 1 .. Len(walk) /\ Len(walk) \in Nat
<1>1. /\ run \in Runs /\ Inodes \in SUBSET (Nat \ {0}) /\ walk \in Seq(FrameType(Inodes))
      /\ walk # <<>> /\ WalkOK(walk) /\ This = walk[Len(walk)]
  BY TypesOfTree DEF WalkInv, WalkTypeOK, This
<1>2. Len(walk) \in DOMAIN walk /\ This \in FrameType(Inodes)
      /\ DOMAIN walk = 1 .. Len(walk) /\ Len(walk) \in Nat
  BY <1>1
<1>3. FrameOK(This, NodeAt(walk, Len(walk)))
  BY <1>1, <1>2 DEF WalkOK
<1> QED BY <1>1, <1>2, <1>3

\* readdir returns an entry, and it goes into the list.
Read(fr, n) == [fr EXCEPT !.unread = @ \ {n}, !.list = Inserted(fr.list, n)]

\* An entry is read and goes to its place in the list.
LEMMA ReadFacts ==
    ASSUME IInv, WalkInv, NEW n \in Files, ReadEntry(n)
    PROVE  /\ TopStep(Read(This, n)) /\ This.pass = "scan" /\ n \in This.unread
           /\ LET fr == Read(This, n) IN
              /\ fr.inode = This.inode /\ fr.unread = This.unread \ {n}
              /\ fr.list = Inserted(This.list, n) /\ Elements(fr.list) = Elements(This.list) \cup {n}
              /\ fr.pass = "scan" /\ fr.sub = This.sub /\ fr.at = This.at
<1>1. stage = "walk" /\ This.pass = "scan" /\ n \in This.unread
  BY DEF ReadEntry, InPass
<1>2. /\ UNCHANGED <<run, kind, target, cache, root, phase, entries, oom>> /\ UNCHANGED treeAll
      /\ stage' = "walk" /\ TopTo(walk, walk', Read(This, n))
  BY <1>1 DEF ReadEntry, SetThis, Read, TopTo, mainVars, treeAll, treeVars, runVars
<1> DEFINE fr == Read(This, n)
           d == NodeAt(walk, Len(walk))
<1>3. This \in FrameType(Inodes) /\ FrameOK(This, d) /\ run \in Runs
  BY <1>1, TopCall
<1>4. /\ This.inode \in Inodes /\ This.unread \in SUBSET Files /\ This.list \in Seq(Files)
      /\ This.pass \in {"scan", "files", "others"} /\ This.at \in Nat \ {0}
      /\ This.sub \in Inodes \cup {0}
      /\ This = [inode |-> This.inode, unread |-> This.unread, list |-> This.list, pass |-> This.pass,
                 at |-> This.at, sub |-> This.sub]
  BY <1>3 DEF FrameType
<1>5. fr = [inode |-> This.inode, unread |-> This.unread \ {n}, list |-> Inserted(This.list, n),
            pass |-> This.pass, at |-> This.at, sub |-> This.sub]
  <2>1. PICK g : g = [This EXCEPT !.unread = @ \ {n}]
    OBVIOUS
  <2>2. g = [inode |-> This.inode, unread |-> This.unread \ {n}, list |-> This.list,
             pass |-> This.pass, at |-> This.at, sub |-> This.sub]
    BY <1>4, <2>1
  <2>3. fr = [g EXCEPT !.list = Inserted(This.list, n)]
    BY <2>1 DEF Read
  <2> QED BY <2>2, <2>3
<1>6. /\ fr.inode = This.inode /\ fr.unread = This.unread \ {n}
      /\ fr.list = Inserted(This.list, n)
      /\ fr.pass = "scan" /\ fr.sub = This.sub /\ fr.at = This.at
  BY <1>1, <1>5
<1>7. Sorted(This.list) /\ \A j \in DOMAIN This.list : Src[This.list[j]].name # Src[n].name
  <2> SUFFICES ASSUME NEW j \in DOMAIN This.list PROVE Src[This.list[j]].name # Src[n].name
    BY <1>3 DEF FrameOK
  <2>1. This.list[j] \in FilesOf(d) /\ This.list[j] \notin This.unread
    BY <1>3 DEF FrameOK
  <2>2. n \in FilesOf(d) /\ This.list[j] # n
    BY <1>1, <1>3, <2>1 DEF FrameOK
  <2>3. Src[This.list[j]].parent = d /\ Src[n].parent = d /\ This.list[j] \in Files
    BY <2>1, <2>2 DEF FilesOf, Src
  <2> QED BY <1>3, <2>2, <2>3, SourceFacts
<1>8. /\ Inserted(This.list, n) \in Seq(Files) /\ Sorted(Inserted(This.list, n))
      /\ Elements(Inserted(This.list, n)) = Elements(This.list) \cup {n}
  BY <1>3, <1>4, <1>7, InsertedFacts
<1>9. fr \in FrameType(Inodes)
  BY <1>4, <1>5, <1>8 DEF FrameType
<1> HIDE DEF fr
<1>10. FrameOK(fr, d)
  <2>1. This.unread \subseteq FilesOf(d) /\ Elements(This.list) = FilesOf(d) \ This.unread
    BY <1>3 DEF FrameOK, Elements
  <2>2. Elements(fr.list) = FilesOf(d) \ fr.unread
    BY <1>1, <1>6, <1>8, <2>1
  <2>3. fr.at = 1 /\ fr.sub = 0
    BY <1>1, <1>3, <1>6 DEF FrameOK
  <2> QED BY <1>6, <1>8, <2>1, <2>2, <2>3 DEF FrameOK, Elements
<1>11. TopStep(fr)
  BY <1>1, <1>2, <1>6, <1>9, <1>10 DEF TopStep, fr
<1> QED BY <1>1, <1>6, <1>8, <1>11 DEF fr

\* The list is complete, or the regular files are done.
LEMMA NextPassFacts ==
    ASSUME IInv, WalkInv, NextPass
    PROVE  \E fr : /\ TopStep(fr) /\ fr.list = This.list /\ fr.unread = This.unread
                   /\ fr.sub = 0 /\ This.sub = 0 /\ fr.at = 1
                   /\ \/ This.pass = "scan" /\ fr.pass = "files"
                      \/ This.pass = "files" /\ This.at > Len(This.list) /\ fr.pass = "others"
<1>1. /\ stage = "walk" /\ stage' = "walk"
      /\ UNCHANGED <<run, kind, target, cache, root, phase, entries, oom>> /\ UNCHANGED treeAll
  BY DEF NextPass, InPass, mainVars, treeAll, treeVars, runVars
<1> DEFINE d == NodeAt(walk, Len(walk))
<1>2. This \in FrameType(Inodes) /\ FrameOK(This, d)
  BY <1>1, TopCall
<1>3. /\ This.inode \in Inodes /\ This.unread \in SUBSET Files /\ This.list \in Seq(Files)
      /\ This.pass \in {"scan", "files", "others"} /\ This.at \in Nat \ {0}
      /\ This.sub \in Inodes \cup {0}
      /\ This = [inode |-> This.inode, unread |-> This.unread, list |-> This.list, pass |-> This.pass,
                 at |-> This.at, sub |-> This.sub]
  BY <1>2 DEF FrameType
<1>4. ASSUME NEW fr, NEW p \in {"files", "others"}, This.pass # "others", This.unread = {},
             fr = [inode |-> This.inode, unread |-> This.unread, list |-> This.list, pass |-> p,
                   at |-> 1, sub |-> This.sub], TopTo(walk, walk', fr)
      PROVE  /\ TopStep(fr) /\ fr.list = This.list /\ fr.unread = This.unread
             /\ fr.sub = 0 /\ This.sub = 0 /\ fr.at = 1 /\ fr.pass = p
  <2>1. This.sub = 0
    BY <1>2, <1>4 DEF FrameOK
  <2>2. fr \in FrameType(Inodes)
    BY <1>3, <1>4 DEF FrameType
  <2>3. FrameOK(fr, d)
    BY <1>2, <1>4, <2>1 DEF FrameOK
  <2> QED BY <1>1, <1>4, <2>1, <2>2, <2>3 DEF TopStep
<1>5. CASE InPass("scan") /\ This.unread = {} /\ SetThis([This EXCEPT !.pass = "files"])
  <2>1. This.pass = "scan" /\ This.at = 1
    BY <1>2, <1>5 DEF InPass, FrameOK
  <2>2. PICK fr : fr = [This EXCEPT !.pass = "files"]
    OBVIOUS
  <2>3. fr = [inode |-> This.inode, unread |-> This.unread, list |-> This.list, pass |-> "files",
              at |-> 1, sub |-> This.sub]
    BY <1>3, <2>1, <2>2
  <2>4. TopTo(walk, walk', fr)
    BY <1>5, <2>2 DEF SetThis, TopTo
  <2> QED BY <1>4, <1>5, <2>1, <2>3, <2>4
<1>6. CASE /\ InPass("files") /\ This.at > Len(This.list)
           /\ SetThis([This EXCEPT !.pass = "others", !.at = 1])
  <2>1. This.pass = "files" /\ This.unread = {}
    BY <1>2, <1>6 DEF InPass, FrameOK
  <2>2. PICK g : g = [This EXCEPT !.pass = "others"]
    OBVIOUS
  <2>3. PICK fr : fr = [g EXCEPT !.at = 1]
    OBVIOUS
  <2>4. g = [inode |-> This.inode, unread |-> This.unread, list |-> This.list, pass |-> "others",
             at |-> This.at, sub |-> This.sub]
    BY <1>3, <2>2
  <2>5. fr = [inode |-> This.inode, unread |-> This.unread, list |-> This.list, pass |-> "others",
              at |-> 1, sub |-> This.sub]
    BY <2>3, <2>4
  <2>6. fr = [This EXCEPT !.pass = "others", !.at = 1]
    BY <2>2, <2>3
  <2>7. TopTo(walk, walk', fr)
    BY <1>6, <2>6 DEF SetThis, TopTo
  <2> QED BY <1>4, <1>6, <2>1, <2>5, <2>7
<1> QED BY <1>5, <1>6 DEF NextPass

\* An entry the other pass treats.
LEMMA SkipFacts ==
    ASSUME IInv, WalkInv, SkipEntry
    PROVE  /\ TopStep(Stepped(This)) /\ This.at \in DOMAIN This.list
           /\ \/ This.pass = "files" /\ Src[This.list[This.at]].kind # "file"
              \/ This.pass = "others" /\ Src[This.list[This.at]].kind = "file"
<1>1. PICK pass \in {"files", "others"} :
         AtFile(pass) /\ (IF pass = "files" THEN File.kind # "file" ELSE File.kind = "file")
  BY DEF SkipEntry
<1>2. /\ stage = "walk" /\ stage' = "walk"
      /\ UNCHANGED <<run, kind, target, cache, root, phase, entries, oom>> /\ UNCHANGED treeAll
      /\ TopTo(walk, walk', Stepped(This))
  BY <1>1, AtFileFacts DEF SkipEntry, mainVars, treeAll, treeVars, runVars, Step, SetThis, TopTo, Stepped
<1>3. /\ This.pass = pass /\ This.at \in DOMAIN This.list /\ File = Src[This.list[This.at]]
  BY <1>1, AtFileFacts
<1>4. /\ Stepped(This) \in FrameType(Inodes) /\ FrameOK(Stepped(This), NodeAt(walk, Len(walk)))
      /\ Stepped(This).inode = This.inode
  BY <1>1, <1>2, <1>3, TopCall, SteppedFacts
<1> QED BY <1>1, <1>2, <1>3, <1>4 DEF TopStep

\* add_file.
LEMMA AddFileFacts ==
    ASSUME IInv, WalkInv, AddFile
    PROVE  /\ TypeNext /\ Next /\ AtFile("files") /\ File.kind = "file" /\ Lookup(File) = 0
           /\ Make("file", File.xattrs, 0) /\ walk' = walk /\ run' = run /\ stage' = stage
           /\ Bucket(File) \in 0 .. HashSize - 1
           /\ cache' = [cache EXCEPT ![Bucket(File)] =
                           <<[dev |-> File.dev, ino |-> File.ino, inode |-> Len(kind) + 1]>> \o @]
<1>1. /\ AtFile("files") /\ File.kind = "file" /\ Lookup(File) = 0
      /\ Make("file", File.xattrs, 0) /\ walk' = walk /\ run' = run /\ stage' = stage
      /\ cache' = [cache EXCEPT ![Bucket(File)] =
                      <<[dev |-> File.dev, ino |-> File.ino, inode |-> Len(kind) + 1]>> \o @]
  BY DEF AddFile, NeedsFile, Insert, mainVars
<1>2. File \in FileType /\ stage = "walk"
  BY <1>1, AtFileFacts
<1>3. cache \in [0 .. HashSize - 1 -> Seq(CacheEntry)] /\ WalkTypeOK
      /\ target \in Seq(Nat) /\ Len(target) = Len(kind) /\ kind # <<>> /\ kind[1] = "dir" /\ root = 0
  BY <1>2 DEF WalkInv, WalkTypeOK
<1>4. Bucket(File) \in 0 .. HashSize - 1
  BY <1>2, <1>3, LookupFacts
<1>5. PICK i : i = Len(kind) + 1
  OBVIOUS
<1>6. "file" \in Kinds /\ 0 \in Nat
  BY DEF Kinds
<1>7. Next /\ Inodes' = Inodes \cup {i}
  BY <1>1, <1>3, <1>5, <1>6, MakeFacts
<1>8. walk \in Seq(FrameType(Inodes')) /\ walk # <<>> /\ WalkOK(walk)
  BY <1>2, <1>7, MoreInodes, TopCall
<1>9. cache' \in [0 .. HashSize - 1 -> Seq(CacheEntry')]
  <2>1. CacheEntry \subseteq CacheEntry'
    BY <1>7 DEF CacheEntry
  <2>2. [dev |-> File.dev, ino |-> File.ino, inode |-> i] \in CacheEntry'
    BY <1>2, <1>7 DEF CacheEntry, FileType
  <2>3. \A s \in Seq(CacheEntry) : <<[dev |-> File.dev, ino |-> File.ino, inode |-> i]>> \o s \in Seq(CacheEntry')
    BY <2>1, <2>2
  <2>4. \A s \in Seq(CacheEntry) : s \in Seq(CacheEntry')
    BY <2>1
  <2> QED BY <1>1, <1>3, <1>4, <1>5, <2>3, <2>4
<1>10. TypeNext
  BY <1>1, <1>2, <1>3, <1>6, <1>8, <1>9, MadeTypes
<1> QED BY <1>1, <1>4, <1>7, <1>10

\* The inode of a file is entered.
LEMMA EnterTypes ==
    ASSUME IInv, WalkInv, NEW pass, AtFile(pass), pass # "scan", NEW i \in Inodes, Enter(i)
    PROVE  /\ TypeNext /\ Next
<1>1. /\ Next /\ UNCHANGED <<run, kind, target, cache, root, phase, stage>>
      /\ TopTo(walk, walk', Stepped(This))
  BY EnterFacts
<1>2. stage = "walk" /\ This.pass = pass
  BY AtFileFacts
<1>3. /\ Stepped(This) \in FrameType(Inodes) /\ FrameOK(Stepped(This), NodeAt(walk, Len(walk)))
      /\ Stepped(This).inode = This.inode
  BY <1>2, TopCall, SteppedFacts
<1>4. walk' \in Seq(FrameType(Inodes)) /\ walk' # <<>> /\ WalkOK(walk')
  BY <1>1, <1>2, <1>3, TopCall, TopChanged
<1>5. TypeNext
  BY <1>1, <1>2, <1>4, StayTypes
<1> QED BY <1>1, <1>5

\* Types and calls when a regular file is entered.
LEMMA EnterFileFacts ==
    ASSUME IInv, WalkInv, EnterFile
    PROVE  /\ TypeNext /\ Next /\ AtFile("files") /\ File.kind = "file" /\ Lookup(File) \in Inodes
           /\ Enter(Lookup(File))
<1>1. AtFile("files") /\ File.kind = "file" /\ Lookup(File) # 0 /\ Enter(Lookup(File))
  BY DEF EnterFile
<1>2. File \in FileType
  BY <1>1, AtFileFacts
<1>3. Lookup(File) \in Inodes
  BY <1>1, <1>2, LookupType DEF WalkInv, WalkTypeOK
<1> QED BY <1>1, <1>3, EnterTypes

\* The same for the other files.
LEMMA EnterOtherFacts ==
    ASSUME IInv, WalkInv, EnterOther
    PROVE  /\ TypeNext /\ Next /\ AtFile("others") /\ This.sub \in Inodes /\ Enter(This.sub)
<1>1. AtFile("others") /\ This.sub # 0 /\ Enter(This.sub)
  BY DEF EnterOther
<1>2. This.sub \in Inodes
  BY <1>1, AtFileFacts, TopCall, FrameFacts
<1> QED BY <1>1, <1>2, EnterTypes

\* add_directory returns.
LEMMA ReturnFacts ==
    ASSUME IInv, WalkInv, Return
    PROVE  /\ TypeNext /\ UNCHANGED treeAll /\ UNCHANGED <<run, kind, target, cache, entries, oom>>
           /\ stage = "walk" /\ stage' \in {"walk", "setroot"}
           /\ This.pass = "others" /\ This.at > Len(This.list)
           /\ walk' = SubSeq(walk, 1, Len(walk) - 1)
<1>1. /\ UNCHANGED treeAll /\ UNCHANGED <<run, kind, target, cache, entries, oom, root, phase>>
      /\ stage = "walk" /\ stage' = (IF Len(walk) = 1 THEN "setroot" ELSE "walk")
      /\ This.pass = "others" /\ This.at > Len(This.list)
      /\ walk' = SubSeq(walk, 1, Len(walk) - 1)
  BY DEF Return, InPass, mainVars, treeAll, treeVars, runVars
<1>2. /\ walk' \in Seq(FrameType(Inodes)) /\ WalkOK(walk') /\ Len(walk) \in Nat
      /\ Len(walk') = Len(walk) - 1 /\ Len(walk) >= 1
  BY <1>1, TopCall, CallEnded DEF Popped
<1>3. walk' # <<>> <=> stage' = "walk"
  <2>1. walk' # <<>> <=> Len(walk') # 0
    BY <1>2
  <2>2. Len(walk') # 0 <=> Len(walk) # 1
    BY <1>2
  <2> QED BY <1>1, <2>1, <2>2
<1>4. TypeNext
  BY <1>1, <1>2, <1>3, StayTypes
<1> QED BY <1>1, <1>4

\* add_symlink and the like: the inode is there, and a directory is walked at once.
Subbed(fr, i) == [fr EXCEPT !.sub = i]

\* The walk v when add_directory has made inode i, with the frame fr of the call.
AddOtherShape(v, fr, i) ==
    /\ v \in Seq(FrameType(Inodes')) /\ v # <<>> /\ WalkOK(v)
    /\ Len(v) = Len(walk) /\ DOMAIN v = DOMAIN walk /\ v[Len(walk)] = fr
    /\ \A k \in DOMAIN walk : k # Len(walk) => v[k] = walk[k]
    /\ \A k \in DOMAIN walk : NodeAt(v, k) = NodeAt(walk, k)
    /\ fr.list = This.list /\ fr.at = This.at /\ fr.pass = "others" /\ fr.unread = This.unread
    /\ fr.inode = This.inode /\ fr.sub = i
    /\ walk' = IF File.kind = "dir" THEN Append(v, Frame(i, Current)) ELSE v

\* Types and calls when an inode is made for a file that is not a regular one.
LEMMA AddOtherFacts ==
    ASSUME IInv, WalkInv, AddOther, NEW i, i = Len(kind) + 1
    PROVE  /\ TypeNext /\ Next /\ AtFile("others") /\ File.kind # "file" /\ This.sub = 0
           /\ File.kind \in Kinds /\ Make(File.kind, File.xattrs, TargetOf(File))
           /\ UNCHANGED <<run, stage, cache>>
           /\ \E v, fr : AddOtherShape(v, fr, i)
<1>1. /\ AtFile("others") /\ File.kind # "file" /\ This.sub = 0 /\ File.kind # "socket"
      /\ Make(File.kind, File.xattrs, TargetOf(File)) /\ UNCHANGED <<run, stage, cache>>
  BY DEF AddOther, NeedsOther, mainVars
<1>2. /\ stage = "walk" /\ This.pass = "others" /\ This.at \in DOMAIN This.list
      /\ Current \in Files /\ Current = This.list[This.at] /\ File = Src[Current]
      /\ File \in FileType /\ FrameOK(This, NodeAt(walk, Len(walk)))
  BY <1>1, AtFileFacts
<1>3. File.kind \in Kinds /\ File.target \in Nat
  BY <1>1, <1>2 DEF FileType
<1>4. TargetOf(File) \in Nat
  BY <1>3, TargetMaxIsNat DEF TargetOf
<1>5. /\ cache \in [0 .. HashSize - 1 -> Seq(CacheEntry)] /\ WalkTypeOK
      /\ target \in Seq(Nat) /\ Len(target) = Len(kind) /\ kind # <<>> /\ kind[1] = "dir" /\ root = 0
  BY <1>2 DEF WalkInv, WalkTypeOK
<1>6. Next /\ Inodes' = Inodes \cup {i} /\ i \in Nat \ {0}
  BY <1>1, <1>3, <1>4, <1>5, MakeFacts
<1>7. /\ run \in Runs /\ Inodes \in SUBSET (Nat \ {0}) /\ walk # <<>> /\ WalkOK(walk)
      /\ walk \in Seq(FrameType(Inodes)) /\ This \in FrameType(Inodes) /\ This = walk[Len(walk)]
      /\ Len(walk) \in DOMAIN walk
  BY <1>2, TopCall
<1>8. Inodes' \in SUBSET (Nat \ {0}) /\ walk \in Seq(FrameType(Inodes')) /\ This \in FrameType(Inodes')
  BY <1>6, <1>7, MoreInodes
<1>9. PICK fr : fr = Subbed(This, i)
  OBVIOUS
<1>10. /\ fr \in FrameType(Inodes')
       /\ fr.list = This.list /\ fr.at = This.at /\ fr.pass = "others" /\ fr.unread = This.unread
       /\ fr.inode = This.inode /\ fr.sub = i
  <2>1. /\ This.inode \in Inodes' /\ This.unread \in SUBSET Files /\ This.list \in Seq(Files)
        /\ This.pass \in {"scan", "files", "others"} /\ This.at \in Nat \ {0}
        /\ This = [inode |-> This.inode, unread |-> This.unread, list |-> This.list,
                   pass |-> This.pass, at |-> This.at, sub |-> This.sub]
    BY <1>8 DEF FrameType
  <2>2. fr = [inode |-> This.inode, unread |-> This.unread, list |-> This.list,
              pass |-> This.pass, at |-> This.at, sub |-> i]
    BY <1>9, <2>1 DEF Subbed
  <2> QED BY <1>2, <1>6, <2>1, <2>2 DEF FrameType
<1>11. FrameOK(fr, NodeAt(walk, Len(walk)))
  <2>1. fr.at <= Len(fr.list)
    BY <1>2, <1>7, <1>10, FrameFacts
  <2>2. Src[fr.list[fr.at]].kind # "file"
    BY <1>1, <1>2, <1>10
  <2> QED BY <1>2, <1>10, <2>1, <2>2 DEF FrameOK
<1>12. PICK v : v = [walk EXCEPT ![Len(walk)].sub = i]
  OBVIOUS
<1>13. TopTo(walk, v, fr)
  BY <1>7, <1>9, <1>12 DEF TopTo, Subbed
<1>14. /\ v \in Seq(FrameType(Inodes')) /\ v # <<>> /\ WalkOK(v)
       /\ Len(v) = Len(walk) /\ DOMAIN v = DOMAIN walk /\ v[Len(walk)] = fr
       /\ \A k \in DOMAIN walk : k # Len(walk) => v[k] = walk[k]
       /\ \A k \in DOMAIN walk : NodeAt(v, k) = NodeAt(walk, k)
  BY <1>7, <1>8, <1>10, <1>11, <1>13, TopChanged
<1>15. walk' = IF File.kind = "dir" THEN Append(v, Frame(i, Current)) ELSE v
  BY <1>12 DEF AddOther
<1>16. walk' \in Seq(FrameType(Inodes')) /\ walk' # <<>> /\ WalkOK(walk')
  <2>1. CASE File.kind = "dir"
    <3>1. /\ fr.sub # 0 /\ fr.at \in DOMAIN fr.list /\ Src[fr.list[fr.at]].kind = "dir"
          /\ fr = v[Len(v)] /\ walk' = Append(v, Frame(fr.sub, fr.list[fr.at]))
      BY <1>2, <1>6, <1>10, <1>14, <1>15, <2>1
    <3> QED BY <1>7, <1>8, <1>10, <1>14, <3>1, CallMade DEF Pushed
  <2>2. CASE File.kind # "dir"
    BY <1>14, <1>15, <2>2
  <2> QED BY <2>1, <2>2
<1>17. cache' \in [0 .. HashSize - 1 -> Seq(CacheEntry')]
  <2>1. CacheEntry \subseteq CacheEntry'
    BY <1>6 DEF CacheEntry
  <2>2. \A s \in Seq(CacheEntry) : s \in Seq(CacheEntry')
    BY <2>1
  <2> QED BY <1>1, <1>5, <2>2
<1>18. TypeNext
  BY <1>1, <1>2, <1>3, <1>4, <1>5, <1>16, <1>17, MadeTypes
<1>19. AddOtherShape(v, fr, i)
  BY <1>10, <1>14, <1>15 DEF AddOtherShape
<1> QED BY <1>1, <1>3, <1>6, <1>18, <1>19

-----------------------------------------------------------------------------
(* The calls and what has been made.                                       *)

\* What is made in a step belongs to the directory at hand.
InTop(m) == m \in Files /\ Src[m].parent = NodeAt(walk, Len(walk))

\* From f and E to g and F nothing is lost.
Grows(f, E, g, F) ==
    /\ \A m \in AllNodes : g[m] = f[m] \/ InTop(m)
    /\ \A m \in E : m \in F
    /\ \A m \in F : m \in E \/ InTop(m)

\* The walk with another top.
Retopped(w, fr) ==
    /\ Len(w) = Len(walk) /\ DOMAIN w = DOMAIN walk /\ w[Len(walk)] = fr
    /\ fr.inode = walk[Len(walk)].inode
    /\ \A k \in DOMAIN walk : k # Len(walk) => w[k] = walk[k]
    /\ \A k \in DOMAIN walk : NodeAt(w, k) = NodeAt(walk, k)

\* What CallsMade says of one call.
CallMadeBy(f, E, fr) ==
    /\ \A j \in DOMAIN fr.list : fr.list[j] \in E <=> Treated(fr, j)
    /\ \A n \in fr.unread : n \notin E
    /\ fr.sub # 0 => f[fr.list[fr.at]] = fr.sub

\* The calls one by one.
LEMMA CallsOf ==
    ASSUME NEW f, NEW E, NEW w
    PROVE  CallsMade(f, E, w) <=>
              /\ \A k \in DOMAIN w : f[NodeAt(w, k)] = w[k].inode /\ CallMadeBy(f, E, w[k])
              /\ \A n \in Files : f[n] # 0 /\ n \notin E => \E k \in DOMAIN w : Pending(f, w[k], n)
  BY DEF CallsMade, CallMadeBy

\* Only the call that runs has changed, and what has been made may have grown.
LEMMA CallsTop ==
    ASSUME run \in Runs, NEW I \in SUBSET (Nat \ {0}), walk \in Seq(FrameType(I)), walk # <<>>,
           WalkOK(walk), NEW f, NEW E, CallsMade(f, E, walk), NEW g, NEW F, Grows(f, E, g, F),
           NEW w, NEW fr, Retopped(w, fr), CallMadeBy(g, F, fr),
           \A m \in Files : /\ g[m] # 0 /\ m \notin F
                            /\ f[m] = 0 \/ Pending(f, walk[Len(walk)], m)
                            => Pending(g, fr, m)
    PROVE  CallsMade(g, F, w)
<1>1. PICK N \in Nat : N = Len(walk) /\ DOMAIN walk = 1 .. N /\ N \in 1 .. N
  OBVIOUS
<1>2. /\ \A k \in 1 .. N : NodeAt(walk, k) \in AllNodes
      /\ \A k \in 1 .. N : \A j \in DOMAIN walk[k].list :
            walk[k].list[j] \in Files /\ Src[walk[k].list[j]].parent = NodeAt(walk, k)
      /\ \A k \in 1 .. N : \A n \in walk[k].unread :
            n \in Files /\ Src[n].parent = NodeAt(walk, k)
      /\ \A j, k \in 1 .. N : NodeAt(walk, j) = NodeAt(walk, k) => j = k
  BY <1>1, NodeFacts
<1>3. /\ \A k \in 1 .. N : f[NodeAt(walk, k)] = walk[k].inode /\ CallMadeBy(f, E, walk[k])
      /\ \A n \in Files : f[n] # 0 /\ n \notin E => \E k \in 1 .. N : Pending(f, walk[k], n)
  BY <1>1, CallsOf
<1>4. /\ DOMAIN w = 1 .. N /\ w[N] = fr /\ fr.inode = walk[N].inode
      /\ \A k \in 1 .. N : k # N => w[k] = walk[k]
      /\ \A k \in 1 .. N : NodeAt(w, k) = NodeAt(walk, k)
  BY <1>1 DEF Retopped
<1>5. ASSUME NEW k \in 1 .. N PROVE g[NodeAt(w, k)] = w[k].inode
  <2> DEFINE m == NodeAt(walk, k)
  <2>1. ~InTop(m)
    <3> SUFFICES ASSUME m \in Files, Src[m].parent = NodeAt(walk, N) PROVE FALSE
      BY <1>1 DEF InTop
    <3>1. NodeAt(walk, N) < m /\ m \in Nat /\ NodeAt(walk, N) \in Nat
      BY <1>2, SourceFacts
    <3>2. k # N => k < N
      BY <1>1
    <3>3. k # N => m < NodeAt(walk, N)
      BY <1>1, <3>2 DEF WalkOK
    <3> HIDE DEF m
    <3>4. k = N => m = NodeAt(walk, N)
      BY DEF m
    <3> QED BY <3>1, <3>3, <3>4
  <2>2. g[m] = f[m]
    BY <1>2, <2>1 DEF Grows
  <2> QED BY <1>3, <1>4, <2>2
<1>6. ASSUME NEW k \in 1 .. N PROVE CallMadeBy(g, F, w[k])
  <2>1. CASE k = N
    BY <1>4, <2>1
  <2>2. CASE k # N
    <3>1. w[k] = walk[k] /\ CallMadeBy(f, E, walk[k]) /\ NodeAt(walk, k) # NodeAt(walk, N)
      BY <1>1, <1>2, <1>3, <1>4, <2>2
    <3>2. \A m : m \in Files /\ Src[m].parent = NodeAt(walk, k) => ~InTop(m)
      BY <1>1, <3>1 DEF InTop
    <3>3. \A m \in Files : ~InTop(m) => (m \in F <=> m \in E)
      BY DEF Grows
    <3>4. \A m \in Files : ~InTop(m) => g[m] = f[m]
      BY SourceFacts DEF Grows
    <3>5. ASSUME NEW j \in DOMAIN walk[k].list
          PROVE  walk[k].list[j] \in F <=> Treated(walk[k], j)
      BY <1>2, <3>1, <3>2, <3>3 DEF CallMadeBy
    <3>6. ASSUME NEW n \in walk[k].unread PROVE n \notin F
      BY <1>2, <3>1, <3>2, <3>3 DEF CallMadeBy
    <3>7. ASSUME walk[k].sub # 0 PROVE g[walk[k].list[walk[k].at]] = walk[k].sub
      <4>1. FrameOK(walk[k], NodeAt(walk, k)) /\ walk[k] \in FrameType(I)
        BY <1>1 DEF WalkOK
      <4>2. walk[k].at \in DOMAIN walk[k].list
        BY <3>7, <4>1, FrameFacts DEF FrameOK
      <4> QED BY <1>2, <3>1, <3>2, <3>4, <3>7, <4>2 DEF CallMadeBy
    <3> QED BY <3>1, <3>5, <3>6, <3>7 DEF CallMadeBy
  <2> QED BY <2>1, <2>2
<1>7. ASSUME NEW m \in Files, g[m] # 0, m \notin F PROVE \E k \in 1 .. N : Pending(g, w[k], m)
  <2>1. CASE f[m] = 0 \/ Pending(f, walk[N], m)
    BY <1>1, <1>4, <1>7, <2>1
  <2>2. CASE f[m] # 0 /\ ~Pending(f, walk[N], m)
    <3>1. m \notin E
      BY <1>7 DEF Grows
    <3>2. PICK k \in 1 .. N : Pending(f, walk[k], m)
      BY <1>3, <2>2, <3>1
    <3>3. k # N /\ w[k] = walk[k] /\ walk[k] \in FrameType(I)
      BY <1>1, <1>4, <2>2, <3>2
    <3>4. walk[k].at \in DOMAIN walk[k].list /\ m = walk[k].list[walk[k].at]
      BY <3>2, <3>3, FrameFacts DEF Pending
    <3>5. Src[m].parent = NodeAt(walk, k)
      BY <1>2, <3>4
    <3>6. ~InTop(m)
      BY <1>1, <1>2, <3>3, <3>5 DEF InTop
    <3>7. g[m] = f[m]
      BY <3>6, SourceFacts DEF Grows
    <3>8. Pending(g, w[k], m)
      BY <3>2, <3>3, <3>7 DEF Pending
    <3> QED BY <3>8
  <2> QED BY <2>1, <2>2
<1> QED BY <1>4, <1>5, <1>6, <1>7, CallsOf

\* A call that has ended has entered everything, as long as no directory is new.
LEMMA ReturnedTop ==
    ASSUME run \in Runs, NEW f, NEW E, Returned(f, E, walk), NEW g, NEW F, Grows(f, E, g, F),
           \A m \in Files : g[m] # f[m] => Src[m].kind # "dir",
           NEW w, NEW fr, Retopped(w, fr)
    PROVE  Returned(g, F, w)
<1> SUFFICES ASSUME NEW n \in Files, g[Src[n].parent] # 0,
                    \A k \in DOMAIN w : NodeAt(w, k) # Src[n].parent
             PROVE  n \in F
  BY DEF Returned
<1>1. Src[n].parent \in AllNodes /\ (Src[n].parent # 0 => Src[n].parent \in Files /\ Src[Src[n].parent].kind = "dir")
      /\ 0 \in AllNodes /\ 0 \notin Files
  BY SourceFacts
<1>2. g[Src[n].parent] = f[Src[n].parent]
  BY <1>1 DEF Grows, InTop
<1>3. \A k \in DOMAIN walk : NodeAt(walk, k) # Src[n].parent
  BY DEF Retopped
<1>4. n \in E
  BY <1>2, <1>3 DEF Returned
<1> QED BY <1>4 DEF Grows

-----------------------------------------------------------------------------
(* The steps of the walk.                                                  *)

\* The walk goes on without making or entering anything.
LEMMA TopMirror ==
    ASSUME IInv, WalkInv, NEW fr, TopStep(fr),
           \A f, E : CallMadeBy(f, E, This) =>
               /\ CallMadeBy(f, E, fr)
               /\ \A m \in Files : f[m] # 0 /\ Pending(f, This, m) => Pending(f, fr, m)
    PROVE  MirrorInv'
<1> SUFFICES ASSUME ~oom' PROVE \E f, E : Mirrors(f, E)'
  BY DEF MirrorInv
<1>1. ~oom /\ stage = "walk" /\ run' = run /\ UNCHANGED <<run, kind, target, entries, cache>>
  BY DEF TopStep
<1>2. PICK f, E : Mirrors(f, E)
  BY <1>1 DEF WalkInv, MirrorInv, Walking
<1>3. /\ run \in Runs /\ Inodes \in SUBSET (Nat \ {0}) /\ walk \in Seq(FrameType(Inodes))
      /\ walk # <<>> /\ WalkOK(walk) /\ This = walk[Len(walk)] /\ Len(walk) \in DOMAIN walk
  BY <1>1, TopCall
<1>4. Retopped(walk', fr)
  <2>1. /\ fr \in FrameType(Inodes) /\ fr.inode = walk[Len(walk)].inode
        /\ FrameOK(fr, NodeAt(walk, Len(walk))) /\ TopTo(walk, walk', fr)
    BY <1>3 DEF TopStep
  <2> QED BY <1>3, <2>1, TopChanged DEF Retopped
<1>5. Grows(f, E, f, E)
  BY DEF Grows
<1>6. CallsMade(f, E, walk) /\ Returned(f, E, walk) /\ MirrorsTree(f, E)
  BY <1>2 DEF Mirrors, MirrorsTree
<1>7. CallMadeBy(f, E, This)
  BY <1>3, <1>6, CallsOf
<1>8. CallsMade(f, E, walk')
  BY <1>3, <1>4, <1>5, <1>6, <1>7, CallsTop
<1>9. Returned(f, E, walk')
  BY <1>3, <1>4, <1>5, <1>6, ReturnedTop
<1>10. MirrorsTree(f, E)'
  BY <1>1, <1>6, SameTree
<1>11. CallsMade(f, E, walk)' /\ Returned(f, E, walk)'
  BY <1>1, <1>8, <1>9, SameCalls
<1> QED BY <1>10, <1>11 DEF Mirrors, MirrorsTree

\* Reading an entry changes nothing of the mirror.
LEMMA ReadEntryKeeps ==
    ASSUME IInv, WalkInv, NEW n \in Files, ReadEntry(n)
    PROVE  WalkInv' /\ UNCHANGED treeAll
<1> DEFINE fr == Read(This, n)
<1>1. /\ TopStep(fr) /\ This.pass = "scan" /\ n \in This.unread
      /\ fr.inode = This.inode /\ fr.unread = This.unread \ {n}
      /\ Elements(fr.list) = Elements(This.list) \cup {n}
      /\ fr.pass = "scan" /\ fr.sub = This.sub /\ fr.at = This.at
  BY ReadFacts
<1> HIDE DEF fr
<1>2. This.sub = 0
  <2>1. FrameOK(This, NodeAt(walk, Len(walk)))
    BY <1>1, TopCall DEF TopStep
  <2> QED BY <1>1, <2>1 DEF FrameOK
<1>3. ASSUME NEW f, NEW E, CallMadeBy(f, E, This) PROVE CallMadeBy(f, E, fr)
  <2>1. \A x \in Elements(This.list) : x \notin E
    BY <1>1, <1>3 DEF CallMadeBy, Treated, Elements
  <2>2. n \notin E
    BY <1>1, <1>3 DEF CallMadeBy
  <2>3. \A j \in DOMAIN fr.list : fr.list[j] \in Elements(fr.list)
    BY DEF Elements
  <2>4. \A j \in DOMAIN fr.list : ~Treated(fr, j)
    BY <1>1 DEF Treated
  <2>5. \A j \in DOMAIN fr.list : fr.list[j] \notin E
    BY <1>1, <2>1, <2>2, <2>3
  <2>6. \A m \in fr.unread : m \notin E
    BY <1>1, <1>3 DEF CallMadeBy
  <2> QED BY <1>1, <1>2, <2>4, <2>5, <2>6 DEF CallMadeBy
<1>4. \A f, m : ~Pending(f, This, m)
  BY <1>1 DEF Pending
<1>5. MirrorInv'
  BY <1>1, <1>3, <1>4, TopMirror
<1>6. TypeNext
  BY <1>1, TopTypes
<1> QED BY <1>1, <1>5, <1>6 DEF WalkInv, TypeNext, TopStep

\* Nor does the next pass.
LEMMA NextPassKeeps ==
    ASSUME IInv, WalkInv, NextPass
    PROVE  WalkInv' /\ UNCHANGED treeAll
<1>1. PICK fr : /\ TopStep(fr) /\ fr.list = This.list /\ fr.unread = This.unread
                /\ fr.sub = 0 /\ This.sub = 0 /\ fr.at = 1
                /\ \/ This.pass = "scan" /\ fr.pass = "files"
                   \/ This.pass = "files" /\ This.at > Len(This.list) /\ fr.pass = "others"
  BY NextPassFacts
<1>2. This \in FrameType(Inodes) /\ run \in Runs /\ Inodes \in SUBSET (Nat \ {0})
  BY <1>1, TopCall DEF TopStep
<1>3. This.at \in Nat /\ Len(This.list) \in Nat /\ DOMAIN This.list = 1 .. Len(This.list)
  BY <1>2, FrameFacts
<1>4. \A j \in DOMAIN This.list : Treated(This, j) <=> Treated(fr, j)
  <2> SUFFICES ASSUME NEW j \in DOMAIN This.list PROVE Treated(This, j) <=> Treated(fr, j)
    OBVIOUS
  <2>1. j \in Nat /\ j >= 1 /\ j <= Len(This.list) /\ ~(j < 1)
    BY <1>3
  <2>2. CASE This.pass = "scan" /\ fr.pass = "files"
    BY <1>1, <2>1, <2>2 DEF Treated
  <2>3. CASE This.pass = "files" /\ This.at > Len(This.list) /\ fr.pass = "others"
    <3>1. j < This.at
      BY <1>3, <2>1, <2>3
    <3> QED BY <1>1, <2>1, <2>3, <3>1 DEF Treated
  <2> QED BY <1>1, <2>2, <2>3
<1>5. ASSUME NEW f, NEW E, CallMadeBy(f, E, This) PROVE CallMadeBy(f, E, fr)
  BY <1>1, <1>4, <1>5 DEF CallMadeBy
<1>6. \A f, m : ~Pending(f, This, m)
  BY <1>1, <1>3 DEF Pending
<1>7. MirrorInv'
  BY <1>1, <1>5, <1>6, TopMirror
<1>8. TypeNext
  BY <1>1, TopTypes
<1> QED BY <1>1, <1>7, <1>8 DEF WalkInv, TypeNext, TopStep

\* Which entries are treated when the list goes on.
LEMMA TreatedStepped ==
    ASSUME run \in Runs, NEW I \in SUBSET (Nat \ {0}), NEW fr \in FrameType(I), fr.pass # "scan",
           fr.at \in DOMAIN fr.list, NEW d, FrameOK(fr, d)
    PROVE  /\ \A j \in DOMAIN fr.list : j # fr.at => (Treated(fr, j) <=> Treated(Stepped(fr), j))
           /\ Treated(Stepped(fr), fr.at) <=> fr.pass = "others" \/ Src[fr.list[fr.at]].kind = "file"
           /\ Treated(fr, fr.at) <=> fr.pass = "others" /\ Src[fr.list[fr.at]].kind = "file"
<1>1. /\ Stepped(fr).list = fr.list /\ Stepped(fr).pass = fr.pass /\ Stepped(fr).at = fr.at + 1
      /\ fr.at \in Nat /\ fr.pass \in {"files", "others"}
      /\ \A j \in DOMAIN fr.list : j \in Nat
  BY SteppedFacts, FrameFacts
<1>2. \A j \in DOMAIN fr.list : j # fr.at => (j < fr.at <=> j < fr.at + 1)
  BY <1>1
<1>3. fr.at < fr.at + 1 /\ ~(fr.at < fr.at)
  BY <1>1
<1> QED BY <1>1, <1>2, <1>3 DEF Treated

\* Nor does passing over an entry.
LEMMA SkipEntryKeeps ==
    ASSUME IInv, WalkInv, SkipEntry
    PROVE  WalkInv' /\ UNCHANGED treeAll
<1> DEFINE fr == Stepped(This)
<1>1. /\ TopStep(fr) /\ This.at \in DOMAIN This.list
      /\ \/ This.pass = "files" /\ Src[This.list[This.at]].kind # "file"
         \/ This.pass = "others" /\ Src[This.list[This.at]].kind = "file"
  BY SkipFacts
<1>2. /\ This \in FrameType(Inodes) /\ run \in Runs /\ Inodes \in SUBSET (Nat \ {0})
      /\ FrameOK(This, NodeAt(walk, Len(walk)))
  BY <1>1, TopCall DEF TopStep
<1>3. fr.list = This.list /\ fr.unread = This.unread /\ fr.sub = 0
  BY <1>1, <1>2, SteppedFacts
<1>4. \A j \in DOMAIN This.list : Treated(This, j) <=> Treated(fr, j)
  BY <1>1, <1>2, TreatedStepped
<1> HIDE DEF fr
<1>5. ASSUME NEW f, NEW E, CallMadeBy(f, E, This) PROVE CallMadeBy(f, E, fr)
  BY <1>3, <1>4, <1>5 DEF CallMadeBy
<1>6. \A f, m : f[m] # 0 => ~Pending(f, This, m)
  <2>1. This.sub # 0 => Src[This.list[This.at]].kind # "file"
    BY <1>2 DEF FrameOK
  <2> QED BY <1>1, <2>1 DEF Pending
<1>7. MirrorInv'
  BY <1>1, <1>5, <1>6, TopMirror
<1>8. TypeNext
  BY <1>1, TopTypes
<1> QED BY <1>1, <1>7, <1>8 DEF WalkInv, TypeNext, TopStep

-----------------------------------------------------------------------------
(* A new inode for the file at hand.                                       *)

\* The entry at hand has not been entered, the ones that precede it have.
LEMMA CurrentFacts ==
    ASSUME IInv, WalkInv, NEW pass \in {"files", "others"}, AtFile(pass),
           pass = "files" <=> File.kind = "file", NEW f, NEW E, Mirrors(f, E),
           NEW n, n = Current
    PROVE  /\ n \in Files /\ n \notin E /\ InTop(n) /\ n \in AllNodes /\ n # 0
           /\ f[Src[n].parent] = This.inode /\ This.inode \in Inodes
           /\ Src[n] = File /\ Src[n] \in FileType /\ run \in Runs
           /\ \A m \in Files : Src[m].parent = Src[n].parent /\ Precedes(Src[m], Src[n]) => m \in E
           /\ \A k \in DOMAIN walk : Pending(f, walk[k], n) => walk[k] = This
<1>1. /\ stage = "walk" /\ This.pass = pass /\ This.at \in DOMAIN This.list
      /\ n \in Files /\ n = This.list[This.at] /\ File = Src[n]
      /\ Src[n].parent = NodeAt(walk, Len(walk))
      /\ FrameOK(This, NodeAt(walk, Len(walk))) /\ WalkOK(walk) /\ Src[n] \in FileType
  BY AtFileFacts
<1>2. /\ run \in Runs /\ Inodes \in SUBSET (Nat \ {0}) /\ walk \in Seq(FrameType(Inodes))
      /\ walk # <<>> /\ This = walk[Len(walk)] /\ This \in FrameType(Inodes)
      /\ Len(walk) \in DOMAIN walk
  BY <1>1, TopCall
<1>3. /\ This.inode \in Inodes /\ This.at \in Nat
      /\ DOMAIN This.list = 1 .. Len(This.list) /\ Len(This.list) \in Nat
  BY <1>2, FrameFacts
<1>4. CallMadeBy(f, E, This) /\ f[Src[n].parent] = This.inode
  BY <1>1, <1>2, CallsOf DEF Mirrors
<1>5. n \notin E
  <2>1. ~(This.at < This.at) /\ (pass = "others" => Src[This.list[This.at]].kind # "file")
    BY <1>1, <1>3
  <2>2. ~Treated(This, This.at)
    BY <1>1, <2>1 DEF Treated
  <2> QED BY <1>1, <1>4, <2>2 DEF CallMadeBy
<1>6. ASSUME NEW m \in Files, Src[m].parent = Src[n].parent, Precedes(Src[m], Src[n])
      PROVE  m \in E
  <2>1. m \in FilesOf(NodeAt(walk, Len(walk))) /\ This.unread = {}
    BY <1>1, <1>6 DEF FilesOf, Src, FrameOK
  <2>2. PICK j \in DOMAIN This.list : This.list[j] = m
    BY <1>1, <2>1 DEF FrameOK
  <2>3. Src[m].name < Src[n].name => j < This.at
    <3>1. \A x, y \in DOMAIN This.list : x < y => Src[This.list[x]].name < Src[This.list[y]].name
      BY <1>1 DEF FrameOK, Sorted
    <3>2. Src[m].name \in Nat /\ Src[n].name \in Nat
      BY <1>1, <1>2, SourceFacts
    <3>3. j \in Nat /\ (This.at < j \/ This.at = j \/ j < This.at)
      BY <1>3, <2>2
    <3>4. This.at < j => Src[n].name < Src[m].name
      BY <1>1, <2>2, <3>1
    <3>5. This.at = j => Src[n].name = Src[m].name
      BY <1>1, <2>2
    <3> QED BY <3>2, <3>3, <3>4, <3>5
  <2>4. Treated(This, j)
    BY <1>1, <1>6, <2>2, <2>3 DEF Treated, Precedes
  <2> QED BY <1>4, <2>2, <2>4 DEF CallMadeBy
<1>7. ASSUME NEW k \in DOMAIN walk, Pending(f, walk[k], n) PROVE walk[k] = This
  <2>1. walk[k].at \in DOMAIN walk[k].list /\ n = walk[k].list[walk[k].at]
    BY <1>2, <1>7, FrameFacts DEF Pending
  <2>2. Src[n].parent = NodeAt(walk, k)
    BY <1>1, <1>2, <2>1, NodeFacts
  <2>3. k = Len(walk)
    BY <1>1, <1>2, <2>2, NodeFacts
  <2> QED BY <1>2, <2>3
<1>8. InTop(n) /\ n \in AllNodes /\ n # 0
  BY <1>1, <1>2, SourceFacts DEF InTop
<1> QED BY <1>1, <1>2, <1>3, <1>4, <1>5, <1>6, <1>7, <1>8

\* No inode has been made for an entry that is not a regular file, unless it is in sub.
LEMMA OtherIsNew ==
    ASSUME IInv, WalkInv, AtFile("others"), File.kind # "file", This.sub = 0,
           NEW f, NEW E, Mirrors(f, E)
    PROVE  f[Current] = 0
<1> SUFFICES ASSUME f[Current] # 0 PROVE FALSE
  OBVIOUS
<1>1. /\ Current \in Files /\ Current \notin E
      /\ \A k \in DOMAIN walk : Pending(f, walk[k], Current) => walk[k] = This
  BY CurrentFacts
<1>2. PICK k \in DOMAIN walk : Pending(f, walk[k], Current)
  BY <1>1 DEF Mirrors, CallsMade
<1>3. Pending(f, This, Current) /\ This.pass = "others"
  BY <1>1, <1>2, AtFileFacts
<1> QED BY <1>3 DEF Pending

\* What inode_cache_lookup finds are the inodes of paths to the same file.
LEMMA LookupMade ==
    ASSUME IInv, WalkInv, NEW f, NEW E, Mirrors(f, E), NEW n \in Files, Src[n].kind = "file"
    PROVE  /\ Lookup(Src[n]) = 0 => \A m \in Files : m = n \/ SameFile(m, n) => f[m] = 0
           /\ Lookup(Src[n]) # 0 => \E m \in Files : SameFile(m, n) /\ f[m] = Lookup(Src[n])
<1>1. /\ run \in Runs /\ cache \in [0 .. HashSize - 1 -> Seq(CacheEntry)]
  BY DEF WalkInv, WalkTypeOK
<1>2. Src[n] \in FileType
  BY <1>1, SourceFacts
<1> DEFINE s == cache[Bucket(Src[n])]
<1>3. /\ Bucket(Src[n]) \in 0 .. HashSize - 1
      /\ Lookup(Src[n]) # 0 => \E k \in DOMAIN s : Same(s[k], Src[n]) /\ s[k].inode = Lookup(Src[n])
      /\ Lookup(Src[n]) = 0 => \A k \in DOMAIN s : ~Same(s[k], Src[n])
  BY <1>1, <1>2, LookupFacts
<1>4. CacheMade(f)
  BY DEF Mirrors
<1>5. ASSUME Lookup(Src[n]) = 0, NEW m \in Files, m = n \/ SameFile(m, n), f[m] # 0 PROVE FALSE
  <2>1. Src[m].kind = "file" /\ Src[m].dev = Src[n].dev /\ Src[m].ino = Src[n].ino
    BY <1>5 DEF SameFile
  <2>2. Bucket(Src[m]) = Bucket(Src[n])
    BY <2>1 DEF Bucket
  <2>3. PICK k \in DOMAIN s : s[k] = Cached(f, m)
    BY <1>4, <1>5, <2>1, <2>2 DEF CacheMade
  <2>4. Same(s[k], Src[n])
    BY <2>1, <2>3 DEF Same, Cached
  <2> QED BY <1>3, <1>5, <2>4
<1>6. ASSUME Lookup(Src[n]) # 0 PROVE \E m \in Files : SameFile(m, n) /\ f[m] = Lookup(Src[n])
  <2>1. PICK k \in DOMAIN s : Same(s[k], Src[n]) /\ s[k].inode = Lookup(Src[n])
    BY <1>3, <1>6
  <2>2. PICK m \in Files : Src[m].kind = "file" /\ s[k] = Cached(f, m)
    BY <1>3, <1>4 DEF CacheMade
  <2>3. SameFile(m, n) /\ f[m] = Lookup(Src[n])
    BY <2>1, <2>2 DEF Same, Cached, SameFile
  <2> QED BY <2>3
<1> QED BY <1>5, <1>6

\* A new inode i for node n.
MadeFor(f, E, n, i) ==
    /\ NodesMade(f, E) /\ EntriesMade(f, E) /\ Numbered(f, E)
    /\ n \in Files /\ f[n] = 0 /\ f[Src[n].parent] # 0
    /\ \A m \in Files : SameFile(m, n) => f[m] = 0
    /\ \A m \in Files : Src[m].parent = Src[n].parent /\ Precedes(Src[m], Src[n]) => m \in E
    /\ Inodes' = Inodes \cup {i} /\ i \in Nat \ {0} /\ i \notin Inodes /\ \A j \in Inodes : j < i
    /\ kind'[i] = Src[n].kind /\ (\A j \in Inodes : kind'[j] = kind[j])
    /\ target'[i] = TargetOf(Src[n]) /\ (\A j \in Inodes : target'[j] = target[j])
    /\ entries'[i] = <<>> /\ (\A j \in Inodes : entries'[j] = entries[j])

\* One more inode, for one more file.
LEMMA NewNode ==
    ASSUME run \in Runs, run' = run, IInv, NEW f, NEW E, NEW n, NEW i, MadeFor(f, E, n, i),
           NEW g, g = [f EXCEPT ![n] = i]
    PROVE  NodesMade(g, E)' /\ EntriesMade(g, E)' /\ Numbered(g, E)'
<1> USE DEF MadeFor
<1>1. /\ Src' = Src /\ Files' = Files /\ AllNodes' = AllNodes
  BY SameSource
<1>2. /\ f \in [AllNodes -> Inodes \cup {0}] /\ n \in AllNodes /\ n \in Files /\ E \in SUBSET Files
      /\ 0 \in AllNodes /\ n # 0 /\ Files \subseteq AllNodes
  BY SourceFacts DEF NodesMade
<1>3. /\ g \in [AllNodes -> Inodes' \cup {0}] /\ g[n] = i /\ \A m \in AllNodes : m # n => g[m] = f[m]
  BY <1>2
<1>4. \A m \in E : m # n /\ g[m] = f[m] /\ m \in Files
  BY <1>2, <1>3 DEF NodesMade
<1>5. \A m \in Files : Src[m].parent \in AllNodes
  BY SourceFacts
<1>6. \A m \in AllNodes : f[m] # 0 => f[m] \in Inodes /\ g[m] = f[m] /\ m # n
  BY <1>2, <1>3
<1>7. 1 \in Inodes /\ i # 1 /\ i # 0 /\ 0 \notin Inodes
  BY <1>2 DEF NodesMade, Inodes
<1>8. NodesMade(g, E)'
  <2>1. \A x, y : SameFile(x, y)' = SameFile(x, y)
    BY <1>1 DEF SameFile
  <2>2. g[0] = 1 /\ \A m \in E : g[m] # 0
    BY <1>2, <1>3, <1>4 DEF NodesMade
  <2>3. ASSUME NEW m \in Files, g[m] # 0
        PROVE  /\ g[Src[m].parent] # 0
               /\ kind'[g[m]] = Src[m].kind /\ target'[g[m]] = TargetOf(Src[m])
    <3>1. CASE m = n
      BY <1>3, <1>5, <1>6, <3>1
    <3>2. CASE m # n
      <4>1. g[m] = f[m] /\ f[m] # 0 /\ f[m] \in Inodes
        BY <1>2, <1>3, <1>6, <2>3, <3>2
      <4>2. f[Src[m].parent] # 0 /\ kind[f[m]] = Src[m].kind /\ target[f[m]] = TargetOf(Src[m])
        BY <4>1 DEF NodesMade
      <4> QED BY <1>5, <1>6, <4>1, <4>2
    <3> QED BY <3>1, <3>2
  <2>4. \A m \in Files : g[m] # 1
    BY <1>2, <1>3, <1>7 DEF NodesMade
  <2>5. ASSUME NEW x \in Files, NEW y \in Files, g[x] # 0, g[y] # 0
        PROVE  g[x] = g[y] <=> x = y \/ SameFile(x, y)
    <3>0. x \in AllNodes /\ y \in AllNodes
      BY <1>2
    <3>1. CASE x # n /\ y # n
      BY <1>3, <2>5, <3>0, <3>1 DEF NodesMade
    <3>2. CASE x = n /\ y = n
      BY <3>2
    <3>3. CASE x = n /\ y # n
      <4>1. f[y] # 0 /\ g[y] = f[y] /\ f[y] \in Inodes
        BY <1>3, <1>6, <2>5, <3>0, <3>3
      <4>2. ~SameFile(x, y)
        BY <3>3, <4>1 DEF SameFile
      <4> QED BY <1>3, <3>3, <4>1, <4>2
    <3>4. CASE x # n /\ y = n
      <4>1. f[x] # 0 /\ g[x] = f[x] /\ f[x] \in Inodes
        BY <1>3, <1>6, <2>5, <3>0, <3>4
      <4>2. ~SameFile(x, y)
        BY <3>4, <4>1 DEF SameFile
      <4> QED BY <1>3, <3>4, <4>1, <4>2
    <3> QED BY <3>1, <3>2, <3>3, <3>4
  <2>6. \A m : TargetOf(Src[m])' = TargetOf(Src[m])
    BY <1>1 DEF TargetOf
  <2> QED BY <1>1, <1>2, <1>3, <2>1, <2>2, <2>3, <2>4, <2>5, <2>6 DEF NodesMade
<1>9. EntriesMade(g, E)'
  <2> DEFINE e(m) == [name |-> Src[m].name, inode |-> g[m]]
  <2>1. \A m \in E : e(m) = EntryOf(f, m) /\ g[Src[m].parent] = f[Src[m].parent]
                     /\ f[Src[m].parent] \in Inodes
    <3> SUFFICES ASSUME NEW m \in E
                 PROVE e(m) = EntryOf(f, m) /\ g[Src[m].parent] = f[Src[m].parent]
                       /\ f[Src[m].parent] \in Inodes
      OBVIOUS
    <3>1. f[m] # 0 /\ f[Src[m].parent] # 0
      BY <1>2 DEF NodesMade
    <3> QED BY <1>1, <1>4, <1>5, <1>6, <3>1 DEF EntryOf
  <2>2. ASSUME NEW j \in Inodes', NEW k \in DOMAIN entries'[j]
        PROVE  \E m \in E : g[Src[m].parent] = j /\ entries'[j][k] = e(m)
    <3>1. j \in Inodes /\ entries'[j] = entries[j]
      BY <2>2
    <3>2. PICK m \in E : f[Src[m].parent] = j /\ entries[j][k] = EntryOf(f, m)
      BY <2>2, <3>1 DEF EntriesMade
    <3> QED BY <2>1, <3>1, <3>2
  <2>3. ASSUME NEW m \in E
        PROVE  \E k \in DOMAIN entries'[g[Src[m].parent]] : entries'[g[Src[m].parent]][k] = e(m)
    <3>1. entries'[g[Src[m].parent]] = entries[f[Src[m].parent]]
      BY <2>1
    <3>2. PICK k \in DOMAIN entries[f[Src[m].parent]] : entries[f[Src[m].parent]][k] = EntryOf(f, m)
      BY DEF EntriesMade
    <3> QED BY <2>1, <3>1, <3>2
  <2>4. ASSUME NEW j \in Inodes', NEW x \in DOMAIN entries'[j], NEW y \in DOMAIN entries'[j],
               entries'[j][x].name = entries'[j][y].name
        PROVE  x = y
    <3>1. j \in Inodes /\ entries'[j] = entries[j]
      BY <2>4
    <3> QED BY <2>4, <3>1 DEF EntriesMade
  <2> QED BY <1>1, <2>2, <2>3, <2>4 DEF EntriesMade, EntryOf
<1>10. Numbered(g, E)'
  <2>1. \A m : OtherPath(m)' = OtherPath(m)
    BY <1>1 DEF OtherPath, Src
  <2>2. ASSUME NEW x \in Files, NEW y \in Files, Src[x].parent = Src[y].parent,
               Precedes(Src[x], Src[y]), g[y] # 0
        PROVE  x \in E /\ (~OtherPath(y) => g[x] < g[y])
    <3>1. CASE y = n
      <4>1. x \in E
        BY <2>2, <3>1
      <4>2. g[x] \in Inodes
        BY <1>2, <1>4, <1>6, <4>1 DEF NodesMade
      <4> QED BY <1>3, <3>1, <4>1, <4>2
    <3>2. CASE y # n
      <4>1. f[y] # 0 /\ g[y] = f[y]
        BY <1>2, <1>3, <2>2, <3>2
      <4>2. x \in E /\ (~OtherPath(y) => f[x] < f[y])
        BY <2>2, <4>1 DEF Numbered
      <4> QED BY <1>4, <4>1, <4>2
    <3> QED BY <3>1, <3>2
  <2> QED BY <1>1, <2>1, <2>2 DEF Numbered
<1> QED BY <1>8, <1>9, <1>10

-----------------------------------------------------------------------------
(* The inode cache, and add_file.                                          *)

\* The cache after a step.
CachedNext(g) ==
    /\ \A b \in 0 .. HashSize - 1 : \A k \in DOMAIN cache'[b] :
          \E m \in Files : Src[m].kind = "file" /\ g[m] # 0 /\ cache'[b][k] = Cached(g, m)
    /\ \A m \in Files : Src[m].kind = "file" /\ g[m] # 0 =>
          \E k \in DOMAIN cache'[Bucket(Src[m])] : cache'[Bucket(Src[m])][k] = Cached(g, m)

\* The same in terms of the next state.
LEMMA CacheNext ==
    ASSUME run' = run, NEW g, CachedNext(g)
    PROVE  CacheMade(g)'
<1>1. /\ Src' = Src /\ Files' = Files
  BY SameSource
<1>2. \A m : Cached(g, m)' = Cached(g, m)
  BY <1>1 DEF Cached
<1> QED BY <1>1, <1>2 DEF CacheMade, CachedNext

\* The cache has a new entry, or the new inode is not that of a regular file.
LEMMA CacheGrows ==
    ASSUME run \in Runs, run' = run, NEW f, NEW n \in Files, f \in [AllNodes -> Inodes \cup {0}],
           cache \in [0 .. HashSize - 1 -> Seq(CacheEntry)],
           f[n] = 0, CacheMade(f), NEW i, i # 0, NEW g, g = [f EXCEPT ![n] = i],
           \/ Src[n].kind # "file" /\ cache' = cache
           \/ /\ Src[n].kind = "file"
              /\ cache' = [cache EXCEPT ![Bucket(Src[n])] =
                              <<[dev |-> Src[n].dev, ino |-> Src[n].ino, inode |-> i]>> \o @]
    PROVE  CacheMade(g)'
<1>1. /\ Src' = Src /\ Files' = Files
  BY SameSource
<1>2. n \in AllNodes /\ Files \subseteq AllNodes /\ \A m \in Files : Src[m] \in FileType
  BY SourceFacts
<1>3. g[n] = i /\ \A m \in Files : m # n => g[m] = f[m]
  BY <1>2
<1> DEFINE c(h, m) == [dev |-> Src[m].dev, ino |-> Src[m].ino, inode |-> h[m]]
           B == 0 .. HashSize - 1
<1>4. ASSUME NEW m \in Files PROVE Bucket(Src[m]) \in B /\ Bucket(Src[m])' = Bucket(Src[m])
  <2>1. Bucket(Src[m]) \in B
    BY <1>2, LookupFacts
  <2>2. Bucket(Src[m])' = Bucket(Src[m])
    BY <1>1 DEF Bucket
  <2> QED BY <2>1, <2>2
<1>5. /\ \A b \in B : \A k \in DOMAIN cache[b] :
            \E m \in Files : Src[m].kind = "file" /\ f[m] # 0 /\ cache[b][k] = c(f, m)
      /\ \A m \in Files : Src[m].kind = "file" /\ f[m] # 0 =>
            \E k \in DOMAIN cache[Bucket(Src[m])] : cache[Bucket(Src[m])][k] = c(f, m)
  BY DEF CacheMade, Cached
<1>6. \A m \in Files : f[m] # 0 => m # n /\ g[m] = f[m] /\ c(g, m) = c(f, m)
  BY <1>3
<1> SUFFICES CachedNext(g)
  BY CacheNext
<1> USE DEF CachedNext, Cached
<1>7. CASE Src[n].kind # "file" /\ cache' = cache
  <2>1. ASSUME NEW b \in B, NEW k \in DOMAIN cache'[b]
        PROVE  \E m \in Files : Src[m].kind = "file" /\ g[m] # 0 /\ cache'[b][k] = c(g, m)
    <3>1. k \in DOMAIN cache[b] /\ cache'[b][k] = cache[b][k]
      BY <1>7, <2>1
    <3>2. PICK m \in Files : Src[m].kind = "file" /\ f[m] # 0 /\ cache[b][k] = c(f, m)
      BY <1>5, <3>1
    <3> QED BY <1>6, <3>1, <3>2
  <2>2. ASSUME NEW m \in Files, Src[m].kind = "file", g[m] # 0
        PROVE  \E k \in DOMAIN cache'[Bucket(Src[m])] : cache'[Bucket(Src[m])][k] = c(g, m)
    <3>1. m # n /\ f[m] # 0 /\ c(g, m) = c(f, m)
      BY <1>3, <1>7, <2>2
    <3>2. PICK k \in DOMAIN cache[Bucket(Src[m])] : cache[Bucket(Src[m])][k] = c(f, m)
      BY <1>5, <2>2, <3>1
    <3> QED BY <1>7, <3>1, <3>2
  <2> QED BY <2>1, <2>2 DEF Cached
<1>8. CASE /\ Src[n].kind = "file"
           /\ cache' = [cache EXCEPT ![Bucket(Src[n])] =
                           <<[dev |-> Src[n].dev, ino |-> Src[n].ino, inode |-> i]>> \o @]
  <2> DEFINE bn == Bucket(Src[n])
             new == c(g, n)
  <2>1. bn \in B /\ cache[bn] \in Seq(CacheEntry) /\ DOMAIN cache = B
    BY <1>4
  <2>2. cache'[bn] = <<new>> \o cache[bn] /\ \A b \in B : b # bn => cache'[b] = cache[b]
    BY <1>3, <1>8, <2>1
  <2> HIDE DEF bn, new
  <2>3. PICK s : s = cache[bn] /\ s \in Seq(CacheEntry)
    BY <2>1
  <2>4. PICK t : t = <<new>> \o s
    OBVIOUS
  <2>5. /\ DOMAIN t = 1 .. Len(s) + 1 /\ t[1] = new /\ Len(s) \in Nat /\ DOMAIN s = 1 .. Len(s)
        /\ \A k \in 1 .. Len(s) : t[k + 1] = s[k]
    BY <2>3, <2>4
  <2>6. \A k \in DOMAIN t : k = 1 \/ (k - 1 \in DOMAIN s /\ t[k] = s[k - 1])
    <3> SUFFICES ASSUME NEW k \in DOMAIN t, k # 1 PROVE k - 1 \in DOMAIN s /\ t[k] = s[k - 1]
      OBVIOUS
    <3>1. k - 1 \in 1 .. Len(s) /\ k - 1 + 1 = k
      BY <2>5
    <3> QED BY <2>5, <3>1
  <2>7. cache'[bn] = t
    BY <2>2, <2>3, <2>4
  <2>8. ASSUME NEW b \in B, NEW k \in DOMAIN cache'[b]
        PROVE  \E m \in Files : Src[m].kind = "file" /\ g[m] # 0 /\ cache'[b][k] = c(g, m)
    <3>1. CASE b = bn /\ k = 1
      BY <1>3, <1>8, <2>5, <2>7, <3>1 DEF new
    <3>2. CASE b = bn /\ k # 1
      <4>1. k - 1 \in DOMAIN s /\ cache'[b][k] = s[k - 1]
        BY <2>6, <2>7, <2>8, <3>2
      <4>2. PICK m \in Files : Src[m].kind = "file" /\ f[m] # 0 /\ s[k - 1] = c(f, m)
        BY <1>5, <2>1, <2>3, <4>1
      <4> QED BY <1>6, <4>1, <4>2
    <3>3. CASE b # bn
      <4>1. cache'[b] = cache[b]
        BY <2>2, <3>3
      <4>2. PICK m \in Files : Src[m].kind = "file" /\ f[m] # 0 /\ cache[b][k] = c(f, m)
        BY <1>5, <2>8, <4>1
      <4> QED BY <1>6, <4>1, <4>2
    <3> QED BY <3>1, <3>2, <3>3
  <2>9. ASSUME NEW m \in Files, Src[m].kind = "file", g[m] # 0
        PROVE  \E k \in DOMAIN cache'[Bucket(Src[m])] : cache'[Bucket(Src[m])][k] = c(g, m)
    <3>1. CASE m = n
      <4>1. cache'[Bucket(Src[m])] = t /\ c(g, m) = new /\ 1 \in DOMAIN t
        BY <2>5, <2>7, <3>1 DEF bn, new
      <4> QED BY <2>5, <4>1
    <3>2. CASE m # n
      <4>1. f[m] # 0 /\ c(g, m) = c(f, m)
        BY <1>3, <2>9, <3>2
      <4>2. PICK k \in DOMAIN cache[Bucket(Src[m])] : cache[Bucket(Src[m])][k] = c(f, m)
        BY <1>5, <2>9, <4>1
      <4>3. CASE Bucket(Src[m]) = bn
        <5>1. k \in 1 .. Len(s) /\ k + 1 \in DOMAIN t /\ t[k + 1] = c(f, m)
          BY <2>3, <2>5, <4>2, <4>3
        <5> QED BY <2>7, <4>1, <4>3, <5>1
      <4>4. CASE Bucket(Src[m]) # bn
        BY <1>4, <2>2, <4>1, <4>2, <4>4
      <4> QED BY <4>3, <4>4
    <3> QED BY <3>1, <3>2
  <2> QED BY <2>8, <2>9 DEF Cached
<1> QED BY <1>7, <1>8

\* One more file has an inode.
LEMMA GrowsAt ==
    ASSUME run \in Runs, NEW f, NEW E, NEW n, InTop(n), f \in [AllNodes -> Inodes \cup {0}],
           NEW i, NEW g, g = [f EXCEPT ![n] = i]
    PROVE  Grows(f, E, g, E) /\ \A m \in AllNodes : m # n => g[m] = f[m]
<1>1. \A m \in AllNodes : m # n => g[m] = f[m]
  OBVIOUS
<1> QED BY <1>1 DEF Grows

\* add_file keeps the mirror.
LEMMA AddFileKeeps ==
    ASSUME IInv, WalkInv, AddFile
    PROVE  WalkInv' /\ Next
<1>1. /\ TypeNext /\ Next /\ AtFile("files") /\ File.kind = "file" /\ Lookup(File) = 0
      /\ Make("file", File.xattrs, 0) /\ walk' = walk /\ run' = run /\ stage' = stage
      /\ cache' = [cache EXCEPT ![Bucket(File)] =
                      <<[dev |-> File.dev, ino |-> File.ino, inode |-> Len(kind) + 1]>> \o @]
  BY AddFileFacts
<1> SUFFICES ASSUME ~oom' PROVE \E f, E : Mirrors(f, E)'
  BY <1>1 DEF MirrorInv, WalkInv, TypeNext
<1>2. PICK i : i = Len(kind) + 1
  OBVIOUS
<1>3. /\ target \in Seq(Nat) /\ Len(target) = Len(kind) /\ run \in Runs
      /\ cache \in [0 .. HashSize - 1 -> Seq(CacheEntry)]
  BY DEF WalkInv, WalkTypeOK
<1>4. "file" \in Kinds /\ 0 \in Nat
  BY DEF Kinds
<1>5. /\ oom' = oom
      /\ Inodes' = Inodes \cup {i} /\ i \in Nat \ {0} /\ i \notin Inodes
      /\ \A j \in Inodes : j < i
      /\ kind'[i] = "file" /\ (\A j \in Inodes : kind'[j] = kind[j])
      /\ entries'[i] = <<>> /\ (\A j \in Inodes : entries'[j] = entries[j])
      /\ target'[i] = 0 /\ (\A j \in Inodes : target'[j] = target[j])
  BY <1>1, <1>2, <1>3, <1>4, MakeFacts
<1>6. stage = "walk" /\ This.pass = "files"
  BY <1>1, AtFileFacts
<1>7. PICK f, E : Mirrors(f, E)
  BY <1>5, <1>6 DEF WalkInv, MirrorInv, Walking
<1>8. PICK n : n = Current
  OBVIOUS
<1>9. /\ n \in Files /\ n \notin E /\ InTop(n) /\ n \in AllNodes /\ n # 0
      /\ f[Src[n].parent] = This.inode /\ This.inode \in Inodes
      /\ Src[n] = File /\ Src[n] \in FileType
      /\ \A m \in Files : Src[m].parent = Src[n].parent /\ Precedes(Src[m], Src[n]) => m \in E
  BY <1>1, <1>7, <1>8, CurrentFacts
<1>10. \A m \in Files : m = n \/ SameFile(m, n) => f[m] = 0
  BY <1>1, <1>7, <1>9, LookupMade
<1>11. f \in [AllNodes -> Inodes \cup {0}]
  BY <1>7 DEF Mirrors, NodesMade
<1>12. MadeFor(f, E, n, i)
  <2>1. f[Src[n].parent] # 0
    BY <1>9 DEF Inodes
  <2>2. TargetOf(Src[n]) = 0
    BY <1>1, <1>9 DEF TargetOf
  <2>3. Src[n].kind = "file"
    BY <1>1, <1>9
  <2>4. NodesMade(f, E) /\ EntriesMade(f, E) /\ Numbered(f, E)
    BY <1>7 DEF Mirrors
  <2> QED BY <1>5, <1>9, <1>10, <2>1, <2>2, <2>3, <2>4 DEF MadeFor
<1>13. PICK g : g = [f EXCEPT ![n] = i]
  OBVIOUS
<1>14. NodesMade(g, E)' /\ EntriesMade(g, E)' /\ Numbered(g, E)'
  BY <1>1, <1>3, <1>12, <1>13, NewNode
<1>15. CacheMade(g)'
  <2>1. CacheMade(f) /\ f[n] = 0 /\ i # 0
    BY <1>5, <1>7, <1>9, <1>10 DEF Mirrors
  <2> QED BY <1>1, <1>2, <1>3, <1>9, <1>11, <1>13, <2>1, CacheGrows
<1>16. Grows(f, E, g, E) /\ \A m \in AllNodes : m # n => g[m] = f[m]
  BY <1>3, <1>9, <1>11, <1>13, GrowsAt
<1>17. /\ Inodes \in SUBSET (Nat \ {0}) /\ walk \in Seq(FrameType(Inodes))
       /\ walk # <<>> /\ WalkOK(walk) /\ This = walk[Len(walk)] /\ Len(walk) \in DOMAIN walk
       /\ This \in FrameType(Inodes) /\ FrameOK(This, NodeAt(walk, Len(walk)))
  BY <1>6, TopCall
<1>18. Retopped(walk, This)
  BY <1>17 DEF Retopped
<1>19. CallsMade(f, E, walk) /\ Returned(f, E, walk)
  BY <1>7 DEF Mirrors
<1>20. CallMadeBy(g, E, This)
  <2>1. CallMadeBy(f, E, This)
    BY <1>17, <1>19, CallsOf
  <2>2. This.sub = 0
    BY <1>6, <1>17 DEF FrameOK
  <2> QED BY <2>1, <2>2 DEF CallMadeBy
<1>21. ASSUME NEW m \in Files, g[m] # 0, f[m] = 0 \/ Pending(f, walk[Len(walk)], m)
       PROVE  Pending(g, This, m)
  <2>1. CASE m = n
    <3>1. This.at \in DOMAIN This.list /\ n = This.list[This.at]
      BY <1>1, <1>8, AtFileFacts
    <3>2. This.at <= Len(This.list)
      BY <1>17, <3>1, FrameFacts, <1>3
    <3> QED BY <1>1, <1>6, <1>9, <2>1, <3>1, <3>2 DEF Pending
  <2>2. CASE m # n
    <3>1. Pending(f, This, m)
      BY <1>3, <1>16, <1>17, <1>21, <2>2, SourceFacts
    <3> QED BY <1>6, <3>1 DEF Pending
  <2> QED BY <2>1, <2>2
<1>22. CallsMade(g, E, walk)
  BY <1>3, <1>16, <1>17, <1>18, <1>19, <1>20, <1>21, CallsTop
<1>23. Returned(g, E, walk)
  <2>1. \A m \in Files : g[m] # f[m] => Src[m].kind # "dir"
    BY <1>1, <1>3, <1>9, <1>16, SourceFacts
  <2> QED BY <1>3, <1>16, <1>18, <1>19, <2>1, ReturnedTop
<1>24. CallsMade(g, E, walk)' /\ Returned(g, E, walk)'
  BY <1>1, <1>22, <1>23, SameCalls
<1>25. Mirrors(g, E)'
  BY <1>14, <1>15, <1>24 DEF Mirrors
<1> QED BY <1>25

-----------------------------------------------------------------------------
(* Entries.                                                                *)

\* What an insertion leaves of a list of entries with different names.
LEMMA InsertedEntries ==
    ASSUME NEW t, NEW s, NEW m, NEW x, IsInserted(t, s, m, x)
    PROVE  /\ \A k \in DOMAIN t : t[k] = x \/ \E j \in DOMAIN s : t[k] = s[j]
           /\ \A j \in DOMAIN s : \E k \in DOMAIN t : t[k] = s[j]
           /\ \E k \in DOMAIN t : t[k] = x
           /\ (\A j, k \in DOMAIN s : s[j].name = s[k].name => j = k)
                 /\ (\A j \in DOMAIN s : s[j].name # x.name)
              => \A j, k \in DOMAIN t : t[j].name = t[k].name => j = k
<1>1. PICK N \in Nat : /\ N = Len(s) /\ DOMAIN s = 1 .. N /\ m \in Nat /\ m <= N
                       /\ DOMAIN t = 1 .. N + 1 /\ t[m + 1] = x
                       /\ \A k \in 1 .. N : t[IF k > m THEN k + 1 ELSE k] = s[k]
  BY DEF IsInserted
<1> DEFINE old(k) == IF k > m + 1 THEN k - 1 ELSE k
<1>2. ASSUME NEW k \in 1 .. N + 1, k # m + 1
      PROVE  old(k) \in 1 .. N /\ t[k] = s[old(k)]
  <2>1. CASE k > m + 1
    <3>1. k - 1 \in 1 .. N /\ k - 1 > m /\ k - 1 + 1 = k
      BY <1>1, <2>1
    <3>2. t[k - 1 + 1] = s[k - 1]
      BY <1>1, <3>1
    <3> QED BY <2>1, <3>1, <3>2
  <2>2. CASE k <= m
    <3>1. k \in 1 .. N /\ ~(k > m) /\ ~(k > m + 1)
      BY <1>1, <2>2
    <3>2. t[k] = s[k]
      BY <1>1, <3>1
    <3> QED BY <3>1, <3>2
  <2> QED BY <1>1, <1>2, <2>1, <2>2
<1>3. \A j, k \in 1 .. N + 1 : j # m + 1 /\ k # m + 1 /\ old(j) = old(k) => j = k
  BY <1>1
<1> HIDE DEF old
<1>4. \A j \in 1 .. N : \E k \in 1 .. N + 1 : t[k] = s[j]
  <2> SUFFICES ASSUME NEW j \in 1 .. N PROVE \E k \in 1 .. N + 1 : t[k] = s[j]
    OBVIOUS
  <2>1. t[IF j > m THEN j + 1 ELSE j] = s[j]
    BY <1>1
  <2>2. (IF j > m THEN j + 1 ELSE j) \in 1 .. N + 1
    BY <1>1
  <2> QED BY <2>1, <2>2
<1>5. m + 1 \in 1 .. N + 1
  BY <1>1
<1>6. ASSUME \A j, k \in 1 .. N : s[j].name = s[k].name => j = k, \A j \in 1 .. N : s[j].name # x.name,
             NEW j \in 1 .. N + 1, NEW k \in 1 .. N + 1, t[j].name = t[k].name
      PROVE  j = k
  <2>1. CASE j = m + 1 /\ k # m + 1
    BY <1>1, <1>2, <1>6, <2>1
  <2>2. CASE j # m + 1 /\ k = m + 1
    BY <1>1, <1>2, <1>6, <2>2
  <2>3. CASE j # m + 1 /\ k # m + 1
    <3>1. old(j) \in 1 .. N /\ old(k) \in 1 .. N /\ t[j] = s[old(j)] /\ t[k] = s[old(k)]
      BY <1>2, <2>3
    <3>2. old(j) = old(k)
      BY <1>6, <3>1
    <3> QED BY <1>3, <2>3, <3>2
  <2> QED BY <2>1, <2>2, <2>3
<1>7. \A k \in 1 .. N + 1 : t[k] = x \/ \E j \in 1 .. N : t[k] = s[j]
  BY <1>1, <1>2
<1>8. (\A j, k \in 1 .. N : s[j].name = s[k].name => j = k) /\ (\A j \in 1 .. N : s[j].name # x.name)
      => \A j, k \in 1 .. N + 1 : t[j].name = t[k].name => j = k
  BY <1>6
<1>9. DOMAIN s = 1 .. N /\ DOMAIN t = 1 .. N + 1 /\ t[m + 1] = x
  BY <1>1
<1> QED BY <1>4, <1>5, <1>7, <1>8, <1>9

\* Directories of the source have inodes of their own.
LEMMA DirectoryOf ==
    ASSUME run \in Runs, NEW f, NEW E, NodesMade(f, E), NEW m \in Files, NEW n \in Files,
           f[Src[m].parent] = f[Src[n].parent], f[Src[n].parent] # 0
    PROVE  Src[m].parent = Src[n].parent
<1> DEFINE p == Src[m].parent
           q == Src[n].parent
<1>1. /\ p # 0 => p \in Files /\ Src[p].kind = "dir"
      /\ q # 0 => q \in Files /\ Src[q].kind = "dir"
  BY SourceFacts
<1>2. f[0] = 1 /\ \A x \in Files : f[x] # 1
  BY DEF NodesMade
<1>3. CASE p = 0 \/ q = 0
  BY <1>1, <1>2, <1>3
<1>4. CASE p # 0 /\ q # 0
  <2>1. p = q \/ SameFile(p, q)
    BY <1>1, <1>4 DEF NodesMade
  <2> QED BY <1>1, <1>4, <2>1 DEF SameFile
<1> QED BY <1>3, <1>4

\* An entry is made for the file at hand.
LEMMA EnterTree ==
    ASSUME IInv, run \in Runs, UNCHANGED <<run, kind, target, cache>>,
           NEW f, NEW E, MirrorsTree(f, E), NEW n \in Files, n \notin E, f[n] # 0,
           NEW d, d = f[Src[n].parent], Src[n].name \in Names,
           entries' = [entries EXCEPT ![d] = EntriesWith(d, Src[n].name, f[n])],
           NEW F, F = E \cup {n}
    PROVE  MirrorsTree(f, F)'
<1>1. /\ Src' = Src /\ Files' = Files /\ AllNodes' = AllNodes /\ Inodes' = Inodes
  BY SameSource DEF Inodes
<1>2. NodesMade(f, E) /\ EntriesMade(f, E) /\ CacheMade(f) /\ Numbered(f, E)
  BY DEF MirrorsTree
<1>3. /\ f \in [AllNodes -> Inodes \cup {0}] /\ E \in SUBSET Files
      /\ f[n] \in Inodes /\ d \in Inodes /\ \A m \in E : f[m] # 0
  <2>1. f \in [AllNodes -> Inodes \cup {0}] /\ E \in SUBSET Files /\ d # 0 /\ \A m \in E : f[m] # 0
    BY <1>2 DEF NodesMade
  <2>2. n \in AllNodes /\ Src[n].parent \in AllNodes
    BY SourceFacts
  <2> QED BY <2>1, <2>2
<1>4. NodesMade(f, F)'
  <2>1. \A x, y : SameFile(x, y)' = SameFile(x, y)
    BY <1>1 DEF SameFile
  <2>2. NodesMade(f, F)
    <3>1. F \in SUBSET Files /\ \A m \in F : f[m] # 0
      BY <1>3
    <3> QED BY <1>2, <3>1 DEF NodesMade
  <2> QED BY <1>1, <2>1, <2>2 DEF NodesMade
<1>5. CacheMade(f)'
  <2>1. \A m : Cached(f, m)' = Cached(f, m)
    BY <1>1 DEF Cached
  <2> QED BY <1>1, <1>2, <2>1 DEF CacheMade
<1>6. Numbered(f, F)'
  <2>1. \A m : OtherPath(m)' = OtherPath(m)
    BY <1>1 DEF OtherPath, Src
  <2>2. Numbered(f, F)
    BY <1>2 DEF Numbered
  <2> QED BY <1>1, <2>1, <2>2 DEF Numbered
<1>7. EntriesMade(f, F)'
  <2> DEFINE e(m) == [name |-> Src[m].name, inode |-> f[m]]
  <2>1. PICK t : t = EntriesWith(d, Src[n].name, f[n])
    OBVIOUS
  <2>2. TreeTypeOK /\ SortedInv /\ DOMAIN entries = Inodes
    BY TypesOfTree DEF IInv, TreeInv
  <2>3. PICK m : IsInserted(t, entries[d], m, e(n))
    BY <1>3, <2>1, <2>2, InsertionFacts
  <2>4. entries'[d] = t /\ \A i \in Inodes : i # d => entries'[i] = entries[i]
    BY <1>3, <2>1, <2>2
  <2>5. /\ \A i \in Inodes : \A k \in DOMAIN entries[i] :
              \E o \in E : f[Src[o].parent] = i /\ entries[i][k] = e(o)
        /\ \A o \in E : \E k \in DOMAIN entries[f[Src[o].parent]] :
              entries[f[Src[o].parent]][k] = e(o)
        /\ \A i \in Inodes : \A j, k \in DOMAIN entries[i] :
              entries[i][j].name = entries[i][k].name => j = k
    BY <1>2 DEF EntriesMade, EntryOf
  <2>6. /\ \A k \in DOMAIN t : t[k] = e(n) \/ \E j \in DOMAIN entries[d] : t[k] = entries[d][j]
        /\ \A j \in DOMAIN entries[d] : \E k \in DOMAIN t : t[k] = entries[d][j]
        /\ \E k \in DOMAIN t : t[k] = e(n)
        /\ (\A j, k \in DOMAIN entries[d] : entries[d][j].name = entries[d][k].name => j = k)
              /\ (\A j \in DOMAIN entries[d] : entries[d][j].name # e(n).name)
           => \A j, k \in DOMAIN t : t[j].name = t[k].name => j = k
    BY <2>3, InsertedEntries
  <2>7. ASSUME NEW j \in DOMAIN entries[d] PROVE entries[d][j].name # e(n).name
    <3>1. PICK o \in E : f[Src[o].parent] = d /\ entries[d][j] = e(o)
      BY <1>3, <2>5
    <3>2. o \in Files /\ o # n /\ d # 0
      BY <1>3 DEF Inodes
    <3>3. Src[o].parent = Src[n].parent
      BY <1>2, <3>1, <3>2, DirectoryOf
    <3>4. Src[o].name # Src[n].name
      BY <3>2, <3>3, SourceFacts
    <3> QED BY <3>1, <3>4
  <2>8. \A j, k \in DOMAIN t : t[j].name = t[k].name => j = k
    BY <1>3, <2>5, <2>6, <2>7
  <2> HIDE DEF e
  <2>9. ASSUME NEW i \in Inodes, NEW k \in DOMAIN entries'[i]
        PROVE  \E o \in F : f[Src[o].parent] = i /\ entries'[i][k] = e(o)
    <3>1. CASE i = d /\ t[k] = e(n)
      BY <2>4, <3>1
    <3>2. CASE i = d /\ t[k] # e(n)
      <4>1. PICK j \in DOMAIN entries[d] : t[k] = entries[d][j]
        BY <2>4, <2>6, <2>9, <3>2
      <4>2. PICK o \in E : f[Src[o].parent] = d /\ entries[d][j] = e(o)
        BY <1>3, <2>5, <4>1
      <4> QED BY <2>4, <3>2, <4>1, <4>2
    <3>3. CASE i # d
      BY <2>4, <2>5, <2>9, <3>3
    <3> QED BY <3>1, <3>2, <3>3
  <2>10. ASSUME NEW o \in F
         PROVE  \E k \in DOMAIN entries'[f[Src[o].parent]] : entries'[f[Src[o].parent]][k] = e(o)
    <3>1. CASE o = n
      BY <2>4, <2>6, <3>1
    <3>2. CASE o \in E /\ f[Src[o].parent] = d
      <4>1. PICK j \in DOMAIN entries[d] : entries[d][j] = e(o)
        BY <2>5, <3>2
      <4>2. PICK k \in DOMAIN t : t[k] = entries[d][j]
        BY <2>6, <4>1
      <4> QED BY <2>4, <3>2, <4>1, <4>2
    <3>3. CASE o \in E /\ f[Src[o].parent] # d
      <4>1. f[Src[o].parent] # 0 /\ Src[o].parent \in AllNodes
        BY <1>2, <1>3, <3>3, SourceFacts DEF NodesMade
      <4>2. f[Src[o].parent] \in Inodes
        BY <1>3, <4>1
      <4> QED BY <2>4, <2>5, <3>3, <4>2
    <3> QED BY <3>1, <3>2, <3>3
  <2>11. ASSUME NEW i \in Inodes, NEW j \in DOMAIN entries'[i], NEW k \in DOMAIN entries'[i],
                entries'[i][j].name = entries'[i][k].name
         PROVE  j = k
    <3>1. CASE i = d
      BY <2>4, <2>8, <2>11, <3>1
    <3>2. CASE i # d
      BY <2>4, <2>5, <2>11, <3>2
    <3> QED BY <3>1, <3>2
  <2>12. \A o : EntryOf(f, o)' = e(o)
    BY <1>1 DEF EntryOf, e
  <2> QED BY <1>1, <2>9, <2>10, <2>11, <2>12 DEF EntriesMade
<1> QED BY <1>4, <1>5, <1>6, <1>7 DEF MirrorsTree

\* Another path to a regular file that has an inode.
LEMMA KnownFile ==
    ASSUME IInv, WalkInv, AtFile("files"), File.kind = "file", Lookup(File) # 0,
           NEW f, NEW E, Mirrors(f, E)
    PROVE  \E g : Mirrors(g, E) /\ g[Current] = Lookup(File)
<1>1. PICK n : n = Current
  OBVIOUS
<1>2. /\ n \in Files /\ n \notin E /\ InTop(n) /\ n \in AllNodes /\ n # 0
      /\ f[Src[n].parent] = This.inode /\ This.inode \in Inodes
      /\ Src[n] = File /\ Src[n] \in FileType /\ run \in Runs
      /\ \A m \in Files : Src[m].parent = Src[n].parent /\ Precedes(Src[m], Src[n]) => m \in E
  BY <1>1, CurrentFacts
<1>3. PICK o \in Files : SameFile(o, n) /\ f[o] = Lookup(File)
  BY <1>2, LookupMade
<1>4. /\ NodesMade(f, E) /\ EntriesMade(f, E) /\ CacheMade(f) /\ Numbered(f, E)
      /\ CallsMade(f, E, walk) /\ Returned(f, E, walk)
  BY DEF Mirrors
<1>5. CASE f[n] # 0
  <2>1. f[n] = f[o]
    BY <1>2, <1>3, <1>4, <1>5 DEF NodesMade
  <2> QED BY <1>1, <1>3, <2>1
<1>6. CASE f[n] = 0
  <2>1. PICK g : g = [f EXCEPT ![n] = f[o]]
    OBVIOUS
  <2>2. /\ f \in [AllNodes -> Inodes \cup {0}] /\ E \in SUBSET Files /\ \A m \in E : f[m] # 0
    BY <1>4 DEF NodesMade
  <2>3. /\ Files \subseteq AllNodes /\ 0 \in AllNodes /\ (\A m \in Files : Src[m].parent \in AllNodes)
    BY <1>2, SourceFacts
  <2>4. /\ g \in [AllNodes -> Inodes \cup {0}] /\ g[n] = f[o] /\ \A m \in AllNodes : m # n => g[m] = f[m]
    BY <1>2, <1>3, <2>1, <2>2, <2>3
  <2>5. \A m \in AllNodes : f[m] # 0 => m # n /\ g[m] = f[m]
    BY <1>6, <2>4
  <2>6. o # n /\ f[o] # 0
    BY <1>3, <1>6
  <2>7. NodesMade(g, E)
    <3>1. g[0] = 1 /\ \A m \in E : g[m] # 0
      BY <1>2, <1>4, <2>2, <2>3, <2>4, <2>5 DEF NodesMade
    <3>2. ASSUME NEW m \in Files, g[m] # 0
          PROVE  /\ g[Src[m].parent] # 0
                 /\ kind[g[m]] = Src[m].kind /\ target[g[m]] = TargetOf(Src[m])
      <4>1. CASE m = n
        <5>1. f[Src[n].parent] # 0
          BY <1>2 DEF Inodes
        <5>2. kind[f[o]] = Src[o].kind /\ target[f[o]] = TargetOf(Src[o])
          BY <1>3, <1>4, <2>6 DEF NodesMade
        <5>3. TargetOf(Src[o]) = TargetOf(Src[n]) /\ Src[o].kind = Src[n].kind
          BY <1>3 DEF SameFile, TargetOf
        <5>4. g[Src[n].parent] # 0
          BY <1>2, <2>3, <2>5, <5>1
        <5> QED BY <2>4, <4>1, <5>2, <5>3, <5>4
      <4>2. CASE m # n
        <5>1. g[m] = f[m] /\ f[m] # 0
          BY <2>3, <2>4, <3>2, <4>2
        <5>2. f[Src[m].parent] # 0 /\ kind[f[m]] = Src[m].kind /\ target[f[m]] = TargetOf(Src[m])
          BY <1>4, <5>1 DEF NodesMade
        <5> QED BY <2>3, <2>5, <5>1, <5>2
      <4> QED BY <4>1, <4>2
    <3>3. \A m \in Files : g[m] # 1
      BY <1>3, <1>4, <2>3, <2>4 DEF NodesMade
    <3>4. ASSUME NEW x \in Files, NEW y \in Files, g[x] # 0, g[y] # 0
          PROVE  g[x] = g[y] <=> x = y \/ SameFile(x, y)
      <4> DEFINE x1 == IF x = n THEN o ELSE x
                 y1 == IF y = n THEN o ELSE y
      <4>1. x1 \in Files /\ y1 \in Files /\ g[x] = f[x1] /\ g[y] = f[y1]
        BY <1>3, <2>3, <2>4
      <4>2. f[x1] = f[y1] <=> x1 = y1 \/ SameFile(x1, y1)
        BY <1>4, <3>4, <4>1 DEF NodesMade
      <4>3. (x1 = y1 \/ SameFile(x1, y1)) <=> (x = y \/ SameFile(x, y))
        BY <1>3, <2>6 DEF SameFile
      <4> QED BY <4>1, <4>2, <4>3
    <3> QED BY <2>2, <2>4, <3>1, <3>2, <3>3, <3>4 DEF NodesMade
  <2>8. EntriesMade(g, E)
    <3>1. \A m \in E : EntryOf(g, m) = EntryOf(f, m) /\ g[Src[m].parent] = f[Src[m].parent]
      <4> SUFFICES ASSUME NEW m \in E
                   PROVE EntryOf(g, m) = EntryOf(f, m) /\ g[Src[m].parent] = f[Src[m].parent]
        OBVIOUS
      <4>1. f[m] # 0 /\ f[Src[m].parent] # 0
        BY <1>4, <2>2 DEF NodesMade
      <4> QED BY <2>2, <2>3, <2>5, <4>1 DEF EntryOf
    <3>2. ASSUME NEW i \in Inodes, NEW k \in DOMAIN entries[i]
          PROVE  \E m \in E : g[Src[m].parent] = i /\ entries[i][k] = EntryOf(g, m)
      <4>1. PICK m \in E : f[Src[m].parent] = i /\ entries[i][k] = EntryOf(f, m)
        BY <1>4 DEF EntriesMade
      <4> QED BY <3>1, <4>1
    <3>3. ASSUME NEW m \in E
          PROVE  \E k \in DOMAIN entries[g[Src[m].parent]] : entries[g[Src[m].parent]][k] = EntryOf(g, m)
      <4>1. PICK k \in DOMAIN entries[f[Src[m].parent]] : entries[f[Src[m].parent]][k] = EntryOf(f, m)
        BY <1>4 DEF EntriesMade
      <4> QED BY <3>1, <4>1
    <3> QED BY <1>4, <3>2, <3>3 DEF EntriesMade
  <2>9. CacheMade(g)
    <3>1. \A m \in Files : f[m] # 0 => Cached(g, m) = Cached(f, m) /\ g[m] # 0
      BY <2>3, <2>5 DEF Cached
    <3>2. ASSUME NEW b \in 0 .. HashSize - 1, NEW k \in DOMAIN cache[b]
          PROVE  \E m \in Files : Src[m].kind = "file" /\ g[m] # 0 /\ cache[b][k] = Cached(g, m)
      <4>1. PICK m \in Files : Src[m].kind = "file" /\ f[m] # 0 /\ cache[b][k] = Cached(f, m)
        BY <1>4 DEF CacheMade
      <4> QED BY <3>1, <4>1
    <3>3. ASSUME NEW m \in Files, Src[m].kind = "file", g[m] # 0
          PROVE  \E k \in DOMAIN cache[Bucket(Src[m])] : cache[Bucket(Src[m])][k] = Cached(g, m)
      <4> DEFINE q == IF m = n THEN o ELSE m
      <4>1. /\ q \in Files /\ Src[q].kind = "file" /\ f[q] # 0
            /\ Src[q].dev = Src[m].dev /\ Src[q].ino = Src[m].ino /\ f[q] = g[m]
        BY <1>3, <2>3, <2>4, <2>6, <3>3 DEF SameFile
      <4>2. Bucket(Src[q]) = Bucket(Src[m]) /\ Cached(f, q) = Cached(g, m)
        BY <4>1 DEF Bucket, Cached
      <4>3. \E k \in DOMAIN cache[Bucket(Src[q])] : cache[Bucket(Src[q])][k] = Cached(f, q)
        BY <1>4, <4>1 DEF CacheMade
      <4> QED BY <4>2, <4>3
    <3> QED BY <3>2, <3>3 DEF CacheMade
  <2>10. Numbered(g, E)
    <3>1. OtherPath(n)
      BY <1>2, <1>3, <2>6 DEF OtherPath, SameFile, Src
    <3>2. ASSUME NEW x \in Files, NEW y \in Files, Src[x].parent = Src[y].parent,
                 Precedes(Src[x], Src[y]), g[y] # 0
          PROVE  x \in E /\ (~OtherPath(y) => g[x] < g[y])
      <4>1. CASE y = n
        BY <1>2, <3>1, <3>2, <4>1
      <4>2. CASE y # n
        <5>1. f[y] # 0 /\ g[y] = f[y]
          BY <2>3, <2>4, <3>2, <4>2
        <5>2. x \in E /\ (~OtherPath(y) => f[x] < f[y])
          BY <1>4, <3>2, <5>1 DEF Numbered
        <5>3. g[x] = f[x]
          BY <2>2, <2>3, <2>5, <5>2
        <5> QED BY <5>1, <5>2, <5>3
      <4> QED BY <4>1, <4>2
    <3> QED BY <3>2 DEF Numbered
  <2>11. Grows(f, E, g, E)
    BY <1>2, <2>1, <2>2, GrowsAt
  <2>12. stage = "walk" /\ This.pass = "files" /\ This.at \in DOMAIN This.list /\ n = This.list[This.at]
    BY <1>1, AtFileFacts
  <2>13. /\ Inodes \in SUBSET (Nat \ {0}) /\ walk \in Seq(FrameType(Inodes))
         /\ walk # <<>> /\ WalkOK(walk) /\ This = walk[Len(walk)] /\ Len(walk) \in DOMAIN walk
         /\ This \in FrameType(Inodes) /\ FrameOK(This, NodeAt(walk, Len(walk)))
    BY <2>12, TopCall
  <2>14. Retopped(walk, This)
    BY <2>13 DEF Retopped
  <2>15. CallMadeBy(g, E, This)
    <3>1. CallMadeBy(f, E, This)
      BY <1>4, <2>13, CallsOf
    <3>2. This.sub = 0
      BY <2>12, <2>13 DEF FrameOK
    <3> QED BY <3>1, <3>2 DEF CallMadeBy
  <2>16. ASSUME NEW m \in Files, g[m] # 0, f[m] = 0 \/ Pending(f, walk[Len(walk)], m)
         PROVE  Pending(g, This, m)
    <3>1. CASE m = n
      <4>1. This.at <= Len(This.list)
        BY <1>2, <2>12, <2>13, FrameFacts
      <4> QED BY <1>2, <2>12, <3>1, <4>1 DEF Pending
    <3>2. CASE m # n
      <4>1. Pending(f, This, m)
        BY <2>3, <2>4, <2>13, <2>16, <3>2
      <4> QED BY <2>12, <4>1 DEF Pending
    <3> QED BY <3>1, <3>2
  <2>17. CallsMade(g, E, walk)
    BY <1>2, <1>4, <2>11, <2>13, <2>14, <2>15, <2>16, CallsTop
  <2>18. Returned(g, E, walk)
    <3>1. \A m \in Files : g[m] # f[m] => Src[m].kind # "dir"
      BY <1>2, <2>3, <2>4
    <3> QED BY <1>2, <1>4, <2>11, <2>14, <3>1, ReturnedTop
  <2>19. Mirrors(g, E)
    BY <2>7, <2>8, <2>9, <2>10, <2>17, <2>18 DEF Mirrors
  <2> QED BY <1>1, <1>3, <2>4, <2>19
<1> QED BY <1>5, <1>6

\* libsqfs_directory_add_entry of the entry at hand.
LEMMA EnterMirrors ==
    ASSUME IInv, WalkInv, NEW pass \in {"files", "others"}, AtFile(pass),
           pass = "files" <=> File.kind = "file", NEW f, NEW E, Mirrors(f, E),
           NEW i \in Inodes, f[Current] = i, Enter(i), ~oom'
    PROVE  \E F : Mirrors(f, F)'
<1>1. PICK n : n = Current
  OBVIOUS
<1>2. /\ n \in Files /\ n \notin E /\ InTop(n) /\ n \in AllNodes /\ n # 0
      /\ f[Src[n].parent] = This.inode /\ This.inode \in Inodes
      /\ Src[n] = File /\ Src[n] \in FileType /\ run \in Runs
      /\ \A k \in DOMAIN walk : Pending(f, walk[k], n) => walk[k] = This
  BY <1>1, CurrentFacts
<1>3. PICK F : F = E \cup {n}
  OBVIOUS
<1>4. /\ UNCHANGED <<run, kind, target, cache>> /\ TopTo(walk, walk', Stepped(This))
      /\ entries' = [entries EXCEPT ![This.inode] = EntriesWith(This.inode, File.name, i)]
      /\ File.name \in Names
  BY EnterFacts
<1>5. MirrorsTree(f, E) /\ CallsMade(f, E, walk) /\ Returned(f, E, walk)
  BY DEF Mirrors, MirrorsTree
<1>6. MirrorsTree(f, F)'
  <2>1. f[n] # 0 /\ f[n] = i
    BY <1>1 DEF Inodes
  <2> QED BY <1>2, <1>3, <1>4, <1>5, <2>1, EnterTree
<1>7. /\ stage = "walk" /\ This.pass = pass /\ This.at \in DOMAIN This.list /\ n = This.list[This.at]
  BY <1>1, AtFileFacts
<1>8. /\ Inodes \in SUBSET (Nat \ {0}) /\ walk \in Seq(FrameType(Inodes))
      /\ walk # <<>> /\ WalkOK(walk) /\ This = walk[Len(walk)] /\ Len(walk) \in DOMAIN walk
      /\ This \in FrameType(Inodes) /\ FrameOK(This, NodeAt(walk, Len(walk)))
  BY <1>7, TopCall
<1>9. PICK fr : fr = Stepped(This)
  OBVIOUS
<1>10. /\ fr \in FrameType(Inodes) /\ FrameOK(fr, NodeAt(walk, Len(walk)))
       /\ fr.inode = This.inode /\ fr.list = This.list /\ fr.unread = This.unread
       /\ fr.pass = This.pass /\ fr.sub = 0
  BY <1>2, <1>7, <1>8, <1>9, SteppedFacts
<1>11. Retopped(walk', fr)
  BY <1>2, <1>4, <1>8, <1>9, <1>10, TopChanged DEF Retopped
<1>12. Grows(f, E, f, F)
  BY <1>2, <1>3 DEF Grows
<1>13. CallMadeBy(f, E, This)
  BY <1>5, <1>8, CallsOf
<1>14. /\ \A j \in DOMAIN This.list : j # This.at => (Treated(This, j) <=> Treated(fr, j))
       /\ Treated(fr, This.at)
  <2>1. /\ \A j \in DOMAIN This.list : j # This.at => (Treated(This, j) <=> Treated(Stepped(This), j))
        /\ Treated(Stepped(This), This.at) <=> This.pass = "others" \/ Src[This.list[This.at]].kind = "file"
    BY <1>2, <1>7, <1>8, TreatedStepped
  <2>2. This.pass = "others" \/ Src[This.list[This.at]].kind = "file"
    BY <1>2, <1>7
  <2> QED BY <1>9, <2>1, <2>2
<1>15. \A j \in DOMAIN This.list : This.list[j] = n => j = This.at
  <2> SUFFICES ASSUME NEW j \in DOMAIN This.list, This.list[j] = n, j # This.at PROVE FALSE
    OBVIOUS
  <2>1. j \in Nat /\ This.at \in Nat
    BY <1>2, <1>7, <1>8, FrameFacts
  <2>2. Src[n].name \in Nat
    BY <1>2, SourceFacts
  <2>3. j < This.at \/ This.at < j
    BY <2>1
  <2>4. Src[n].name < Src[n].name
    BY <1>7, <1>8, <2>3 DEF FrameOK, Sorted
  <2> QED BY <2>2, <2>4
<1>16. CallMadeBy(f, F, fr)
  <2>1. ASSUME NEW j \in DOMAIN This.list PROVE This.list[j] \in F <=> Treated(fr, j)
    <3>1. CASE j = This.at
      BY <1>3, <1>7, <1>14, <3>1
    <3>2. CASE j # This.at
      BY <1>3, <1>13, <1>14, <1>15, <3>2 DEF CallMadeBy
    <3> QED BY <3>1, <3>2
  <2>2. This.unread = {}
    BY <1>7, <1>8 DEF FrameOK
  <2> QED BY <1>10, <2>1, <2>2 DEF CallMadeBy
<1>17. ASSUME NEW m \in Files, m \notin F, f[m] # 0, f[m] = 0 \/ Pending(f, walk[Len(walk)], m)
       PROVE  Pending(f, fr, m)
  <2>1. m = n
    BY <1>7, <1>8, <1>17 DEF Pending
  <2> QED BY <1>3, <1>17, <2>1
<1>18. CallsMade(f, F, walk')
  BY <1>2, <1>5, <1>8, <1>11, <1>12, <1>16, <1>17, CallsTop
<1>19. Returned(f, F, walk')
  BY <1>2, <1>5, <1>11, <1>12, ReturnedTop
<1>20. CallsMade(f, F, walk)' /\ Returned(f, F, walk)'
  BY <1>4, <1>18, <1>19, SameCalls
<1>21. Mirrors(f, F)'
  BY <1>6, <1>20 DEF Mirrors, MirrorsTree
<1> QED BY <1>21

\* Entering a regular file keeps the mirror.
LEMMA EnterFileKeeps ==
    ASSUME IInv, WalkInv, EnterFile
    PROVE  WalkInv' /\ Next
<1>1. /\ TypeNext /\ Next /\ AtFile("files") /\ File.kind = "file" /\ Lookup(File) \in Inodes
      /\ Enter(Lookup(File))
  BY EnterFileFacts
<1> SUFFICES ASSUME ~oom' PROVE \E f, E : Mirrors(f, E)'
  BY <1>1 DEF MirrorInv, WalkInv, TypeNext
<1>2. ~oom /\ stage = "walk"
  BY <1>1, EnterFacts, AtFileFacts
<1>3. PICK f, E : Mirrors(f, E)
  BY <1>2 DEF WalkInv, MirrorInv, Walking
<1>4. Lookup(File) # 0
  BY <1>1 DEF Inodes
<1>5. PICK g : Mirrors(g, E) /\ g[Current] = Lookup(File)
  BY <1>1, <1>3, <1>4, KnownFile
<1>6. PICK F : Mirrors(g, F)'
  BY <1>1, <1>5, EnterMirrors
<1> QED BY <1>6

\* So does entering another one.
LEMMA EnterOtherKeeps ==
    ASSUME IInv, WalkInv, EnterOther
    PROVE  WalkInv' /\ Next
<1>1. /\ TypeNext /\ Next /\ AtFile("others") /\ This.sub \in Inodes /\ Enter(This.sub)
  BY EnterOtherFacts
<1> SUFFICES ASSUME ~oom' PROVE \E f, E : Mirrors(f, E)'
  BY <1>1 DEF MirrorInv, WalkInv, TypeNext
<1>2. ~oom /\ stage = "walk"
  BY <1>1, EnterFacts, AtFileFacts
<1>3. PICK f, E : Mirrors(f, E)
  BY <1>2 DEF WalkInv, MirrorInv, Walking
<1>4. This.sub # 0 /\ Current = This.list[This.at] /\ File = Src[Current]
  BY <1>1, AtFileFacts DEF Inodes
<1>5. File.kind # "file" /\ f[Current] = This.sub
  <2>1. This = walk[Len(walk)] /\ Len(walk) \in DOMAIN walk /\ FrameOK(This, NodeAt(walk, Len(walk)))
    BY <1>2, TopCall
  <2>2. CallMadeBy(f, E, This)
    BY <1>3, <2>1, CallsOf DEF Mirrors
  <2> QED BY <1>4, <2>1, <2>2 DEF FrameOK, CallMadeBy
<1>6. PICK F : Mirrors(f, F)'
  BY <1>1, <1>3, <1>5, EnterMirrors
<1> QED BY <1>6

-----------------------------------------------------------------------------
(* The steps of the program.                                               *)

\* add_symlink and the like, and the call for a directory.
LEMMA AddOtherKeeps ==
    ASSUME IInv, WalkInv, AddOther
    PROVE  WalkInv' /\ Next
<1>1. PICK i : i = Len(kind) + 1
  OBVIOUS
<1>2. /\ TypeNext /\ Next /\ AtFile("others") /\ File.kind # "file" /\ This.sub = 0
      /\ File.kind \in Kinds /\ Make(File.kind, File.xattrs, TargetOf(File))
      /\ UNCHANGED <<run, stage, cache>>
      /\ \E v, fr : AddOtherShape(v, fr, i)
  BY <1>1, AddOtherFacts
<1> SUFFICES ASSUME ~oom' PROVE \E f, E : Mirrors(f, E)'
  BY <1>2 DEF MirrorInv, WalkInv, TypeNext
<1>3. PICK v, fr : AddOtherShape(v, fr, i)
  BY <1>2
<1>4. PICK n : n = Current
  OBVIOUS
<1>5. /\ stage = "walk" /\ This.pass = "others" /\ This.at \in DOMAIN This.list
      /\ n \in Files /\ n = This.list[This.at] /\ File = Src[n] /\ Src[n] \in FileType
  BY <1>2, <1>4, AtFileFacts
<1>6. /\ target \in Seq(Nat) /\ Len(target) = Len(kind) /\ run \in Runs
      /\ cache \in [0 .. HashSize - 1 -> Seq(CacheEntry)]
  BY DEF WalkInv, WalkTypeOK
<1>7. TargetOf(File) \in Nat
  BY <1>5, TargetMaxIsNat DEF TargetOf, FileType
<1>8. /\ oom' = oom
      /\ Inodes' = Inodes \cup {i} /\ i \in Nat \ {0} /\ i \notin Inodes
      /\ \A j \in Inodes : j < i
      /\ kind'[i] = File.kind /\ (\A j \in Inodes : kind'[j] = kind[j])
      /\ entries'[i] = <<>> /\ (\A j \in Inodes : entries'[j] = entries[j])
      /\ target'[i] = TargetOf(File) /\ (\A j \in Inodes : target'[j] = target[j])
  BY <1>1, <1>2, <1>6, <1>7, MakeFacts
<1>9. PICK f, E : Mirrors(f, E)
  BY <1>5, <1>8 DEF WalkInv, MirrorInv, Walking
<1>10. /\ n \notin E /\ InTop(n) /\ n \in AllNodes /\ n # 0
       /\ f[Src[n].parent] = This.inode /\ This.inode \in Inodes
       /\ \A m \in Files : Src[m].parent = Src[n].parent /\ Precedes(Src[m], Src[n]) => m \in E
  BY <1>2, <1>4, <1>9, CurrentFacts
<1>11. f[n] = 0 /\ f \in [AllNodes -> Inodes \cup {0}]
  BY <1>2, <1>4, <1>9, OtherIsNew DEF Mirrors, NodesMade
<1>12. MadeFor(f, E, n, i)
  <2>1. f[Src[n].parent] # 0
    BY <1>10 DEF Inodes
  <2>2. \A m \in Files : ~SameFile(m, n)
    BY <1>2, <1>5 DEF SameFile
  <2>3. NodesMade(f, E) /\ EntriesMade(f, E) /\ Numbered(f, E)
    BY <1>9 DEF Mirrors
  <2> QED BY <1>5, <1>8, <1>10, <1>11, <2>1, <2>2, <2>3 DEF MadeFor
<1>13. PICK g : g = [f EXCEPT ![n] = i]
  OBVIOUS
<1>14. NodesMade(g, E)' /\ EntriesMade(g, E)' /\ Numbered(g, E)'
  BY <1>2, <1>6, <1>12, <1>13, NewNode
<1>15. CacheMade(g)'
  <2>1. CacheMade(f) /\ i # 0 /\ cache' = cache /\ Src[n].kind # "file"
    BY <1>2, <1>5, <1>8, <1>9 DEF Mirrors
  <2> QED BY <1>2, <1>5, <1>6, <1>11, <1>13, <2>1, CacheGrows
<1>16. Grows(f, E, g, E) /\ (\A m \in AllNodes : m # n => g[m] = f[m]) /\ g[n] = i
  BY <1>6, <1>10, <1>11, <1>13, GrowsAt
<1>17. /\ Inodes \in SUBSET (Nat \ {0}) /\ walk \in Seq(FrameType(Inodes))
       /\ walk # <<>> /\ WalkOK(walk) /\ This = walk[Len(walk)] /\ Len(walk) \in DOMAIN walk
       /\ This \in FrameType(Inodes) /\ FrameOK(This, NodeAt(walk, Len(walk)))
  BY <1>5, TopCall
<1>18. /\ v \in Seq(FrameType(Inodes')) /\ v # <<>> /\ WalkOK(v)
       /\ Len(v) = Len(walk) /\ DOMAIN v = DOMAIN walk /\ v[Len(walk)] = fr
       /\ \A k \in DOMAIN walk : NodeAt(v, k) = NodeAt(walk, k)
       /\ fr.list = This.list /\ fr.at = This.at /\ fr.pass = "others" /\ fr.unread = This.unread
       /\ fr.inode = This.inode /\ fr.sub = i
       /\ walk' = IF File.kind = "dir" THEN Append(v, Frame(i, Current)) ELSE v
  BY <1>3 DEF AddOtherShape
<1>19. Retopped(v, fr)
  BY <1>3, <1>17 DEF Retopped, AddOtherShape
<1>20. CallsMade(f, E, walk) /\ Returned(f, E, walk)
  BY <1>9 DEF Mirrors
<1>21. CallMadeBy(g, E, fr)
  <2>1. CallMadeBy(f, E, This)
    BY <1>17, <1>20, CallsOf
  <2>2. \A j : Treated(fr, j) <=> Treated(This, j)
    BY <1>5, <1>18 DEF Treated
  <2>3. g[fr.list[fr.at]] = fr.sub
    BY <1>5, <1>16, <1>18
  <2> QED BY <1>18, <2>1, <2>2, <2>3 DEF CallMadeBy
<1>22. ASSUME NEW m \in Files, g[m] # 0, f[m] = 0 \/ Pending(f, walk[Len(walk)], m)
       PROVE  Pending(g, fr, m)
  <2>1. This.at <= Len(This.list)
    BY <1>5, <1>6, <1>17, FrameFacts
  <2>2. m = n
    <3>1. Pending(f, This, m) => m = n
      BY <1>5 DEF Pending
    <3>2. f[m] = 0 => m = n
      BY <1>6, <1>16, <1>22, SourceFacts
    <3> QED BY <1>17, <1>22, <3>1, <3>2
  <2> QED BY <1>5, <1>16, <1>18, <2>1, <2>2 DEF Pending
<1>23. CallsMade(g, E, v)
  BY <1>6, <1>16, <1>17, <1>19, <1>20, <1>21, <1>22, CallsTop
<1>24. CallsMade(g, E, walk') /\ Returned(g, E, walk')
  <2>1. CASE File.kind # "dir"
    <3>1. \A m \in Files : g[m] # f[m] => Src[m].kind # "dir"
      BY <1>5, <1>6, <1>16, <2>1, SourceFacts
    <3>2. Returned(g, E, v)
      BY <1>6, <1>16, <1>19, <1>20, <3>1, ReturnedTop
    <3> QED BY <1>18, <1>23, <2>1, <3>2
  <2>2. CASE File.kind = "dir"
    <3>1. PICK w : w = walk'
      OBVIOUS
    <3>2. PICK L \in Nat : L = Len(v) /\ DOMAIN v = 1 .. L
      BY <1>18
    <3>3. /\ DOMAIN w = 1 .. L + 1 /\ w[L + 1] = Frame(i, n) /\ NodeAt(w, L + 1) = n
          /\ \A k \in 1 .. L : w[k] = v[k] /\ NodeAt(w, k) = NodeAt(v, k)
      <4>1. /\ fr.sub # 0 /\ fr.at \in DOMAIN fr.list
            /\ fr.list[fr.at] = n /\ Src[fr.list[fr.at]].kind = "dir"
            /\ Pushed(v, w, fr)
            /\ Inodes' \in SUBSET (Nat \ {0}) /\ Len(v) \in DOMAIN v
        BY <1>4, <1>5, <1>8, <1>17, <1>18, <2>2, <3>1 DEF Pushed
      <4>2. fr \in FrameType(Inodes')
        BY <1>17, <1>18
      <4>3. /\ Len(w) = Len(v) + 1 /\ DOMAIN w = 1 .. Len(v) + 1
            /\ w[Len(v) + 1] = Frame(fr.sub, fr.list[fr.at])
            /\ NodeAt(w, Len(v) + 1) = fr.list[fr.at]
            /\ \A k \in DOMAIN v : w[k] = v[k] /\ NodeAt(w, k) = NodeAt(v, k)
        <5>1. v \in Seq(FrameType(Inodes')) /\ v # <<>> /\ WalkOK(v)
          BY <1>18
        <5> QED BY <1>6, <4>1, <4>2, <5>1, CallMade
      <4> QED BY <1>18, <3>2, <4>1, <4>3
    <3>4. PICK new : new = Frame(i, n)
      OBVIOUS
    <3>5. new.inode = i /\ new.unread = FilesOf(n) /\ new.list = <<>> /\ new.sub = 0
      BY <3>4 DEF Frame
    <3>6. CallMadeBy(g, E, new)
      <4>1. ASSUME NEW m \in FilesOf(n), m \in E PROVE FALSE
        <5>1. m \in Files /\ Src[m].parent = n
          BY DEF FilesOf, Src
        <5>2. f[m] # 0
          BY <1>9, <4>1 DEF Mirrors, NodesMade
        <5>3. f[Src[m].parent] # 0
          BY <1>9, <5>1, <5>2 DEF Mirrors, NodesMade
        <5> QED BY <1>11, <5>1, <5>3
      <4>2. DOMAIN new.list = {}
        BY <3>5
      <4> QED BY <3>5, <4>1, <4>2 DEF CallMadeBy
    <3>7. /\ \A k \in 1 .. L : g[NodeAt(v, k)] = v[k].inode /\ CallMadeBy(g, E, v[k])
          /\ \A m \in Files : g[m] # 0 /\ m \notin E => \E k \in 1 .. L : Pending(g, v[k], m)
      BY <1>23, <3>2, CallsOf
    <3>8. \A k \in 1 .. L + 1 : k \in 1 .. L \/ k = L + 1
      BY <3>2
    <3>9. \A k \in 1 .. L + 1 : g[NodeAt(w, k)] = w[k].inode /\ CallMadeBy(g, E, w[k])
      BY <1>16, <3>3, <3>4, <3>5, <3>6, <3>7, <3>8
    <3>10. ASSUME NEW m \in Files, g[m] # 0, m \notin E
           PROVE \E k \in 1 .. L + 1 : Pending(g, w[k], m)
      <4>1. PICK k \in 1 .. L : Pending(g, v[k], m)
        BY <3>7, <3>10
      <4>2. k \in 1 .. L + 1 /\ w[k] = v[k]
        BY <3>3
      <4> QED BY <4>1, <4>2
    <3>11. CallsMade(g, E, w)
      BY <3>3, <3>9, <3>10, CallsOf
    <3>12. ASSUME NEW m \in Files, g[Src[m].parent] # 0,
                  \A k \in 1 .. L + 1 : NodeAt(w, k) # Src[m].parent
           PROVE  m \in E
      <4>1. Src[m].parent # n /\ Src[m].parent \in AllNodes
        BY <1>6, <3>2, <3>3, <3>12, SourceFacts
      <4>2. f[Src[m].parent] # 0
        BY <1>16, <3>12, <4>1
      <4>3. \A k \in DOMAIN walk : NodeAt(walk, k) # Src[m].parent
        <5>1. \A k \in 1 .. L : k \in 1 .. L + 1 /\ NodeAt(w, k) = NodeAt(walk, k)
          BY <1>18, <3>2, <3>3
        <5> QED BY <1>18, <3>2, <3>12, <5>1
      <4> QED BY <1>20, <4>2, <4>3 DEF Returned
    <3>13. Returned(g, E, w)
      BY <3>3, <3>12 DEF Returned
    <3> QED BY <3>1, <3>11, <3>13
  <2> QED BY <2>1, <2>2
<1>25. CallsMade(g, E, walk)' /\ Returned(g, E, walk)'
  BY <1>2, <1>24, SameCalls
<1>26. Mirrors(g, E)'
  BY <1>14, <1>15, <1>25 DEF Mirrors
<1> QED BY <1>26

\* add_directory returns: all entries have been entered.
LEMMA ReturnKeeps ==
    ASSUME IInv, WalkInv, Return
    PROVE  WalkInv' /\ UNCHANGED treeAll
<1>1. /\ TypeNext /\ UNCHANGED treeAll /\ UNCHANGED <<run, kind, target, cache, entries, oom>>
      /\ stage = "walk"
      /\ This.pass = "others" /\ This.at > Len(This.list)
      /\ walk' = SubSeq(walk, 1, Len(walk) - 1)
  BY ReturnFacts
<1> SUFFICES ASSUME ~oom' PROVE \E f, E : Mirrors(f, E)'
  BY <1>1 DEF MirrorInv, WalkInv, TypeNext
<1>2. PICK f, E : Mirrors(f, E)
  BY <1>1 DEF WalkInv, MirrorInv, Walking
<1>3. /\ run \in Runs /\ Inodes \in SUBSET (Nat \ {0}) /\ walk \in Seq(FrameType(Inodes))
      /\ walk # <<>> /\ WalkOK(walk) /\ This = walk[Len(walk)] /\ This \in FrameType(Inodes)
      /\ FrameOK(This, NodeAt(walk, Len(walk)))
  BY <1>1, TopCall
<1>4. PICK w : w = walk'
  OBVIOUS
<1>5. PICK L \in Nat : L = Len(walk) /\ L >= 1 /\ DOMAIN walk = 1 .. L /\ DOMAIN w = 1 .. L - 1
                       /\ \A k \in 1 .. L - 1 : w[k] = walk[k] /\ NodeAt(w, k) = NodeAt(walk, k)
  <2>1. w = SubSeq(walk, 1, Len(walk) - 1)
    BY <1>1, <1>4
  <2>2. /\ Len(walk) \in Nat /\ Len(walk) >= 1 /\ DOMAIN w = 1 .. Len(walk) - 1
        /\ DOMAIN walk = 1 .. Len(walk)
        /\ \A k \in DOMAIN w : w[k] = walk[k] /\ NodeAt(w, k) = NodeAt(walk, k)
    <3>1. PICK v : v = walk /\ v \in Seq(FrameType(Inodes)) /\ v # <<>> /\ WalkOK(v)
      BY <1>3
    <3>2. Popped(v, w)
      BY <2>1, <3>1 DEF Popped
    <3>3. /\ Len(v) \in Nat /\ Len(v) >= 1 /\ DOMAIN w = 1 .. Len(v) - 1
          /\ DOMAIN v = 1 .. Len(v)
          /\ \A k \in DOMAIN w : w[k] = v[k] /\ NodeAt(w, k) = NodeAt(v, k)
      BY <1>3, <3>1, <3>2, CallEnded
    <3> QED BY <3>1, <3>3
  <2> QED BY <2>2
<1>6. MirrorsTree(f, E) /\ CallsMade(f, E, walk) /\ Returned(f, E, walk)
  BY <1>2 DEF Mirrors, MirrorsTree
<1>7. /\ \A k \in 1 .. L : f[NodeAt(walk, k)] = walk[k].inode /\ CallMadeBy(f, E, walk[k])
      /\ \A m \in Files : f[m] # 0 /\ m \notin E => \E k \in 1 .. L : Pending(f, walk[k], m)
  BY <1>5, <1>6, CallsOf
<1>8. /\ (\A k \in 1 .. L : k \in 1 .. L - 1 \/ k = L) /\ L \in 1 .. L
      /\ \A k \in 1 .. L - 1 : k \in 1 .. L
  BY <1>5
<1>9. Len(This.list) \in Nat /\ DOMAIN This.list = 1 .. Len(This.list) /\ This.at \in Nat
  BY <1>3, FrameFacts
<1>10. ASSUME NEW m \in Files, Src[m].parent = NodeAt(walk, L) PROVE m \in E
  <2>1. m \in FilesOf(NodeAt(walk, L)) /\ This.unread = {}
    BY <1>1, <1>3, <1>10 DEF FilesOf, Src, FrameOK
  <2>2. PICK j \in DOMAIN This.list : This.list[j] = m
    BY <1>3, <1>5, <2>1 DEF FrameOK
  <2>3. j < This.at
    BY <1>1, <1>9, <2>2
  <2>4. Treated(This, j)
    BY <1>1, <2>3 DEF Treated
  <2> QED BY <1>3, <1>5, <1>7, <1>8, <2>2, <2>4 DEF CallMadeBy
<1>11. ASSUME NEW m \in Files, f[m] # 0, m \notin E PROVE \E k \in 1 .. L - 1 : Pending(f, w[k], m)
  <2>1. PICK k \in 1 .. L : Pending(f, walk[k], m)
    BY <1>7, <1>11
  <2>2. k # L
    BY <1>1, <1>3, <1>5, <1>9, <2>1 DEF Pending
  <2> QED BY <1>5, <1>8, <2>1, <2>2
<1>12. \A k \in 1 .. L - 1 : f[NodeAt(w, k)] = w[k].inode /\ CallMadeBy(f, E, w[k])
  BY <1>5, <1>7, <1>8
<1>13. CallsMade(f, E, w)
  BY <1>5, <1>11, <1>12, CallsOf
<1>14. Returned(f, E, w)
  <2> SUFFICES ASSUME NEW m \in Files, f[Src[m].parent] # 0,
                      \A k \in 1 .. L - 1 : NodeAt(w, k) # Src[m].parent
               PROVE  m \in E
    BY <1>5 DEF Returned
  <2>1. CASE Src[m].parent = NodeAt(walk, L)
    BY <1>10, <2>1
  <2>2. CASE Src[m].parent # NodeAt(walk, L)
    <3>1. \A k \in 1 .. L : NodeAt(walk, k) # Src[m].parent
      BY <1>5, <1>8, <2>2
    <3> QED BY <1>5, <1>6, <3>1 DEF Returned
  <2> QED BY <2>1, <2>2
<1>15. CallsMade(f, E, walk)' /\ Returned(f, E, walk)'
  BY <1>1, <1>4, <1>13, <1>14, SameCalls
<1>16. MirrorsTree(f, E)'
  BY <1>1, <1>6, SameTree
<1>17. Mirrors(f, E)'
  BY <1>15, <1>16 DEF Mirrors, MirrorsTree
<1> QED BY <1>17

\* The walk begins.
LEMMA RootDirectoryKeeps ==
    ASSUME IInv, WalkInv, RootDirectory
    PROVE  WalkInv' /\ Next
<1>1. /\ stage = "root" /\ Make("dir", "none", 0) /\ walk' = <<Frame(1, 0)>> /\ stage' = "walk"
      /\ run' = run /\ cache' = cache /\ TypeNext /\ Next
  BY RootDirectoryType DEF RootDirectory, mainVars
<1> SUFFICES \E f, E : Mirrors(f, E)'
  BY <1>1 DEF MirrorInv, WalkInv, TypeNext
<1>2. /\ kind = <<>> /\ cache = [b \in 0 .. HashSize - 1 |-> <<>>]
      /\ target \in Seq(Nat) /\ Len(target) = Len(kind) /\ run \in Runs
  BY <1>1 DEF WalkInv, WalkTypeOK
<1>3. "dir" \in Kinds /\ Len(kind) + 1 = 1 /\ Inodes = {} /\ 0 \in Nat
  BY <1>2 DEF Kinds, Inodes
<1>4. Inodes' = {1} /\ entries'[1] = <<>>
  <2>1. Inodes' = Inodes \cup {1} /\ entries'[1] = <<>>
    BY <1>1, <1>2, <1>3, MakeFacts
  <2> QED BY <1>3, <2>1
<1>5. /\ Src' = Src /\ Files' = Files /\ AllNodes' = AllNodes
  BY <1>1, SameSource
<1>6. 0 \in AllNodes /\ 0 \notin Files /\ Files \subseteq AllNodes /\ \A m \in Files : Src[m].parent \in AllNodes
  BY <1>2, SourceFacts
<1>7. PICK f : f = [m \in AllNodes |-> IF m = 0 THEN 1 ELSE 0]
  OBVIOUS
<1>8. /\ f \in [AllNodes -> {1} \cup {0}] /\ f[0] = 1 /\ (\A m \in Files : f[m] = 0)
      /\ \A m \in AllNodes : f[m] # 0 => m = 0
  BY <1>6, <1>7
<1>9. NodesMade(f, {})'
  BY <1>4, <1>5, <1>8 DEF NodesMade
<1>10. EntriesMade(f, {})'
  BY <1>4 DEF EntriesMade
<1>11. CacheMade(f)'
  <2>1. \A b \in 0 .. HashSize - 1 : DOMAIN cache'[b] = {}
    BY <1>1, <1>2
  <2> QED BY <1>5, <1>8, <2>1 DEF CacheMade
<1>12. Numbered(f, {})'
  BY <1>5, <1>8 DEF Numbered
<1>13. PICK new : new = Frame(1, 0)
  OBVIOUS
<1>14. new.inode = 1 /\ new.unread = FilesOf(0) /\ new.list = <<>> /\ new.sub = 0
  BY <1>13 DEF Frame
<1>15. DOMAIN walk' = {1} /\ walk'[1] = new /\ NodeAt(walk', 1) = 0
  BY <1>1, <1>13 DEF NodeAt
<1>16. CallsMade(f, {}, walk')
  <2>1. CallMadeBy(f, {}, new)
    BY <1>14 DEF CallMadeBy
  <2> QED BY <1>8, <1>14, <1>15, <2>1, CallsOf
<1>17. Returned(f, {}, walk')
  BY <1>6, <1>8, <1>15 DEF Returned
<1>18. CallsMade(f, {}, walk)' /\ Returned(f, {}, walk)'
  BY <1>1, <1>16, <1>17, SameCalls
<1>19. Mirrors(f, {})'
  BY <1>9, <1>10, <1>11, <1>12, <1>18 DEF Mirrors
<1> QED BY <1>19

-----------------------------------------------------------------------------

\* Every step of the program keeps the invariant, and is a step of the tree or leaves
\* the tree alone.
LEMMA WalkStep ==
    ASSUME IInv, WalkInv, [MkNext]_mkVars
    PROVE  WalkInv' /\ [Next]_<<treeVars, tableVars, runVars>>
<1>1. CASE QuietStep
  BY <1>1, QuietKeeps DEF QuietStep, treeAll
<1>2. CASE RootDirectory
  BY <1>2, RootDirectoryKeeps
<1>3. CASE MainSetRoot
  BY <1>3, MainSetRootKeeps
<1>4. CASE FinalizeStep
  BY <1>4, FinalizeKeeps
<1>5. CASE \E n \in Files : ReadEntry(n)
  BY <1>5, ReadEntryKeeps DEF treeAll
<1>6. CASE NextPass
  BY <1>6, NextPassKeeps DEF treeAll
<1>7. CASE SkipEntry
  BY <1>7, SkipEntryKeeps DEF treeAll
<1>8. CASE AddFile
  BY <1>8, AddFileKeeps
<1>9. CASE EnterFile
  BY <1>9, EnterFileKeeps
<1>10. CASE AddOther
  BY <1>10, AddOtherKeeps
<1>11. CASE EnterOther
  BY <1>11, EnterOtherKeeps
<1>12. CASE Return
  BY <1>12, ReturnKeeps DEF treeAll
<1> QED BY <1>1, <1>2, <1>3, <1>4, <1>5, <1>6, <1>7, <1>8, <1>9, <1>10, <1>11, <1>12, StepCases

\* The program begins with an empty tree.
LEMMA WalkInit ==
    ASSUME MkInit
    PROVE  WalkInv /\ Init
<1>1. /\ kind = <<>> /\ root = 0 /\ run \in Runs /\ stage = "start" /\ walk = <<>>
      /\ cache = [b \in 0 .. HashSize - 1 |-> <<>>] /\ target = <<>> /\ Init
  BY DEF MkInit, Init
<1>2. WalkTypeOK
  BY <1>1 DEF WalkTypeOK
<1>3. MirrorInv
  BY <1>1 DEF MirrorInv, Walking
<1> QED BY <1>1, <1>2, <1>3 DEF WalkInv

-----------------------------------------------------------------------------
(* The entries in the directory table are counted.                         *)

\* The entries of the directories that have been encoded are as many as the items of
\* the directory table.
EncodedEntries ==
    {p \in Inodes \X Nat : /\ kind[p[1]] = "dir" /\ etype[p[1]] # "none"
                           /\ p[2] \in DOMAIN entries[p[1]]}
ItemsCounted ==
    phase # "failed" =>
        IsFiniteSet(EncodedEntries) /\ Cardinality(EncodedEntries) = Len(dirTable)

\* As long as the tree is built there are none.
LEMMA NoneEncoded ==
    ASSUME IInv, phase = "build"
    PROVE  ItemsCounted
<1>1. EncodedEntries = {}
  BY DEF IInv, TreeInv, BuildInv, EncodedEntries
<1>2. Len(dirTable) = 0
  BY DEF IInv, TreeInv, BuildInv
<1> QED BY <1>1, <1>2, FS_EmptySet DEF ItemsCounted

\* N pairs with the same first element.
LEMMA PairsWith ==
    ASSUME NEW d, NEW N \in Nat
    PROVE  IsFiniteSet({d} \X (1 .. N)) /\ Cardinality({d} \X (1 .. N)) = N
<1>1. IsFiniteSet({d}) /\ Cardinality({d}) = 1
  BY FS_Singleton
<1>2. IsFiniteSet(1 .. N) /\ Cardinality(1 .. N) = N
  BY FS_Interval
<1>3. IsFiniteSet({d} \X (1 .. N)) /\ Cardinality({d} \X (1 .. N)) = Cardinality({d}) * Cardinality(1 .. N)
  BY <1>1, <1>2, FS_Product
<1> QED BY <1>1, <1>2, <1>3

\* libsqfs_directory_encode appends one item for every entry.
LEMMA EncodeCounts ==
    ASSUME IInv, ItemsCounted, EncodeDirectory
    PROVE  ItemsCounted'
<1> SUFFICES ASSUME phase' # "failed"
             PROVE  IsFiniteSet(EncodedEntries') /\ Cardinality(EncodedEntries') = Len(dirTable')
  BY DEF ItemsCounted
<1>1. PICK d, es : d = Top.dir /\ es = Seen(d)
  OBVIOUS
<1>2. /\ AtEnd /\ dirTable' = dirTable \o Encoded(es, dirSize)
      /\ etype' = [etype EXCEPT ![d] = DirType(d)] /\ kind' = kind /\ entries' = entries
  BY <1>1 DEF EncodeDirectory, treeVars
<1>3. /\ phase = "serialize" /\ d \in Inodes /\ kind[d] = "dir" /\ etype[d] = "none"
      /\ es \in Seq(SeenType) /\ Len(es) = Len(entries[d])
  BY <1>1, <1>2, EndFacts
<1>4. PICK N \in Nat : N = Len(entries[d]) /\ DOMAIN entries[d] = 1 .. N
  BY <1>3, InvTypes, EntryFacts
<1>5. Len(dirTable') = Len(dirTable) + N /\ Len(dirTable) \in Nat
  <2>1. PICK x : x = Encoded(es, dirSize)
    OBVIOUS
  <2>2. DOMAIN x = 1 .. N /\ x = [k \in 1 .. N |-> EncodedEntry(es, k, dirSize)]
    BY <1>3, <1>4, <2>1 DEF Encoded
  <2>3. x \in Seq({x[k] : k \in 1 .. N}) /\ Len(x) = N
    BY <2>2
  <2>4. dirTable \in Seq(Item)
    BY InvTypes
  <2>5. dirTable' = dirTable \o x
    BY <1>2, <2>1
  <2>6. \A k \in 1 .. N : x[k] \in Item \cup {x[j] : j \in 1 .. N}
    OBVIOUS
  <2>7. PICK S : S = Item \cup {x[k] : k \in 1 .. N}
    OBVIOUS
  <2>8. dirTable \in Seq(S) /\ x \in Seq(S)
    BY <2>2, <2>3, <2>4, <2>7
  <2>9. Len(dirTable \o x) = Len(dirTable) + Len(x)
    BY <2>8, Concatenated
  <2> QED BY <2>3, <2>4, <2>5, <2>9
<1>6. DirType(d) # "none" /\ DOMAIN etype = Inodes
  BY InvTypes DEF DirType, TreeTypeOK, Inodes
<1>7. EncodedEntries' = EncodedEntries \cup ({d} \X (1 .. N))
  <2>1. Inodes' = Inodes
    BY <1>2 DEF Inodes
  <2>2. \A i \in Inodes : etype'[i] # "none" <=> etype[i] # "none" \/ i = d
    BY <1>2, <1>3, <1>6
  <2>3. ASSUME NEW p \in EncodedEntries' PROVE p \in EncodedEntries \cup ({d} \X (1 .. N))
    <3>1. /\ p \in Inodes \X Nat /\ kind[p[1]] = "dir" /\ etype'[p[1]] # "none"
          /\ p[2] \in DOMAIN entries[p[1]] /\ p[1] \in Inodes /\ p = <<p[1], p[2]>>
      BY <1>2, <2>1, <2>3 DEF EncodedEntries
    <3>2. CASE p[1] = d
      BY <1>4, <3>1, <3>2
    <3>3. CASE p[1] # d
      BY <2>2, <3>1, <3>3 DEF EncodedEntries
    <3> QED BY <3>2, <3>3
  <2>4. ASSUME NEW p \in EncodedEntries PROVE p \in EncodedEntries'
    <3>1. /\ p \in Inodes \X Nat /\ kind[p[1]] = "dir" /\ etype[p[1]] # "none"
          /\ p[2] \in DOMAIN entries[p[1]] /\ p[1] \in Inodes
      BY <2>4 DEF EncodedEntries
    <3> QED BY <1>2, <2>1, <2>2, <3>1 DEF EncodedEntries
  <2>5. ASSUME NEW k \in 1 .. N PROVE <<d, k>> \in EncodedEntries'
    BY <1>2, <1>3, <1>4, <2>1, <2>2 DEF EncodedEntries
  <2>6. ASSUME NEW p \in {d} \X (1 .. N) PROVE p \in EncodedEntries'
    BY <2>5
  <2> QED BY <2>3, <2>4, <2>6
<1>8. EncodedEntries \cap ({d} \X (1 .. N)) = {}
  BY <1>3 DEF EncodedEntries
<1>9. IsFiniteSet(EncodedEntries) /\ Cardinality(EncodedEntries) = Len(dirTable)
  BY <1>3 DEF ItemsCounted
<1>10. IsFiniteSet({d} \X (1 .. N)) /\ Cardinality({d} \X (1 .. N)) = N
  BY PairsWith
<1>11. PICK S, T : S = EncodedEntries /\ T = {d} \X (1 .. N)
  OBVIOUS
<1>12. IsFiniteSet(S) /\ IsFiniteSet(T) /\ S \cap T = {} /\ Cardinality(S) = Len(dirTable) /\ Cardinality(T) = N
  BY <1>8, <1>9, <1>10, <1>11
<1>13. IsFiniteSet(S \cup T) /\ Cardinality(S \cup T) = Cardinality(S) + Cardinality(T) - Cardinality(S \cap T)
  BY <1>12, FS_Union
<1>14. Cardinality(S \cap T) = 0
  BY <1>12, FS_EmptySet
<1> QED BY <1>5, <1>7, <1>11, <1>12, <1>13, <1>14

\* No other step changes either.
LEMMA CountStep ==
    ASSUME IInv, IInv', ItemsCounted, [Next]_<<treeVars, tableVars, runVars>>
    PROVE  ItemsCounted'
<1>1. ASSUME phase' = "build" PROVE ItemsCounted'
  <2>1. EncodedEntries' = {}
    BY <1>1 DEF IInv, TreeInv, BuildInv, EncodedEntries
  <2>2. Len(dirTable') = 0
    BY <1>1 DEF IInv, TreeInv, BuildInv
  <2> QED BY <2>1, <2>2, FS_EmptySet DEF ItemsCounted
<1>2. ASSUME UNCHANGED <<kind, entries, dirTable>>, phase = "failed" => phase' = "failed",
             \A i \in Inodes : kind[i] = "dir" => etype'[i] = etype[i]
      PROVE  ItemsCounted'
  <2>1. EncodedEntries' = EncodedEntries
    <3>1. Inodes' = Inodes
      BY <1>2 DEF Inodes
    <3>2. \A p \in Inodes \X Nat : p[1] \in Inodes
      OBVIOUS
    <3> QED BY <1>2, <3>1, <3>2 DEF EncodedEntries
  <2> QED BY <1>2, <2>1 DEF ItemsCounted
<1>3. CASE Build
  <2>1. phase' = "build"
    BY <1>3 DEF Build, CreateInode, SetRoot, AddEntry, AddEntryFail, MayAdd, runVars
  <2> QED BY <1>1, <2>1
<1>4. CASE SerializeRoot
  BY <1>2, <1>4 DEF SerializeRoot, treeVars, tableVars
<1>5. CASE VisitEncoded
  BY <1>2, <1>5 DEF VisitEncoded, treeVars, tableVars
<1>6. CASE VisitDirectory
  BY <1>2, <1>6 DEF VisitDirectory, treeVars, tableVars
<1>7. CASE VisitLeaf
  <2>1. PICK c : c = Child /\ kind[c] # "dir" /\ etype' = [etype EXCEPT ![c] = LeafType(c)]
                 /\ UNCHANGED <<kind, entries, dirTable>> /\ phase = "serialize"
    BY <1>7 DEF VisitLeaf, treeVars, AtEntry
  <2>2. DOMAIN etype = Inodes
    BY InvTypes DEF TreeTypeOK, Inodes
  <2>3. \A i \in Inodes : kind[i] = "dir" => etype'[i] = etype[i]
    BY <2>1, <2>2
  <2> QED BY <1>2, <2>1, <2>3
<1>8. CASE EncodeDirectory
  BY <1>8, EncodeCounts
<1>9. CASE EncodeFail
  BY <1>9 DEF EncodeFail, ItemsCounted
<1>10. CASE UNCHANGED <<treeVars, tableVars, runVars>>
  BY <1>2, <1>10 DEF treeVars, tableVars, runVars
<1> QED BY <1>3, <1>4, <1>5, <1>6, <1>7, <1>8, <1>9, <1>10 DEF Next, SerializeStep

-----------------------------------------------------------------------------
\* With the tree's invariant, the inductive invariant of the program.
MkInv == IInv /\ WalkInv /\ ItemsCounted

\* It holds.
LEMMA MkInvariant ==
    MkSpec => []MkInv
<1>1. MkInit => MkInv
  <2> SUFFICES ASSUME MkInit PROVE MkInv
    OBVIOUS
  <2>1. WalkInv /\ Init
    BY WalkInit
  <2>2. IInv /\ phase = "build"
    BY <2>1, InitIInv DEF Init
  <2> QED BY <2>1, <2>2, NoneEncoded DEF MkInv
<1>2. MkInv /\ [MkNext]_mkVars => MkInv'
  <2> SUFFICES ASSUME MkInv, [MkNext]_mkVars PROVE MkInv'
    OBVIOUS
  <2>1. WalkInv' /\ [Next]_<<treeVars, tableVars, runVars>>
    BY WalkStep DEF MkInv
  <2>2. IInv'
    BY <2>1, NextKeeps DEF MkInv
  <2>3. ItemsCounted'
    BY <2>1, <2>2, CountStep DEF MkInv
  <2> QED BY <2>1, <2>2, <2>3 DEF MkInv
<1> QED BY <1>1, <1>2, PTL DEF MkSpec

\* Every step of mksqfs is one that module InodeTree allows an application, or leaves the
\* tree alone: inodes are created before they are entered or made the root, into
\* directories that exist.  So what is proved of any tree holds of the one mksqfs builds.
THEOREM ProgramBuildsTree == MkSpec => Spec
<1>1. MkInit => Init
  BY DEF MkInit
<1>2. MkInv /\ [MkNext]_mkVars => [Next]_<<treeVars, tableVars, runVars>>
  BY WalkStep DEF MkInv
<1> QED BY <1>1, <1>2, MkInvariant, PTL DEF MkSpec, Spec

-----------------------------------------------------------------------------
(* Behind the walk.                                                        *)

\* The inodes f of the files are the tree.
Whole(f) ==
    /\ f \in [AllNodes -> Inodes] /\ f[0] = 1 /\ \A n \in Files : f[n] # 1
    /\ \A n \in Files : kind[f[n]] = Src[n].kind /\ target[f[n]] = TargetOf(Src[n])
    /\ \A m, n \in Files : f[m] = f[n] <=> m = n \/ SameFile(m, n)
    /\ \A m, n \in Files : f[Src[m].parent] = f[Src[n].parent] => Src[m].parent = Src[n].parent
    /\ EntriesMade(f, Files)
    /\ \A m, n \in Files : /\ Src[m].parent = Src[n].parent /\ Precedes(Src[m], Src[n])
                           /\ ~OtherPath(n)
                           => f[m] < f[n]

\* When there is a root, every file has its inode and its entry.
LEMMA AllEntered ==
    ASSUME MkInv, root # 0, ~oom
    PROVE  run \in Runs /\ root = 1 /\ \E f : Whole(f)
<1>1. run \in Runs /\ root = 1 /\ walk = <<>>
  BY DEF MkInv, WalkInv, WalkTypeOK
<1>2. PICK f, E : Mirrors(f, E)
  BY DEF MkInv, WalkInv, MirrorInv, Walking
<1>3. NodesMade(f, E) /\ EntriesMade(f, E) /\ Returned(f, E, walk) /\ Numbered(f, E)
  BY <1>2 DEF Mirrors
<1>4. \A n \in Files : f[Src[n].parent] # 0 => n \in E
  BY <1>1, <1>3 DEF Returned
<1>5. f[0] = 1 /\ \A n \in E : f[n] # 0
  BY <1>3 DEF NodesMade
<1>6. \A n \in Files : n \in E
  <2> SUFFICES ASSUME \E n \in Files : n \notin E PROVE FALSE
    OBVIOUS
  <2> DEFINE T == {n \in Files : n \notin E}
  <2>1. T \in SUBSET Nat /\ T # {}
    BY <1>1, SourceFacts
  <2>2. PICK n \in T : \A y \in T : n <= y
    BY <2>1, LeastNumber
  <2>3. /\ n \in Files /\ n \in Nat /\ Src[n].parent \in Nat /\ Src[n].parent < n
        /\ Src[n].parent # 0 => Src[n].parent \in Files
    BY <1>1, <2>2, SourceFacts
  <2>4. Src[n].parent \notin T
    BY <2>2, <2>3
  <2>5. f[Src[n].parent] # 0
    BY <1>5, <2>3, <2>4
  <2> QED BY <1>4, <2>2, <2>3, <2>5
<1>7. E = Files
  BY <1>3, <1>6 DEF NodesMade
<1>8. f \in [AllNodes -> Inodes]
  <2>1. f \in [AllNodes -> Inodes \cup {0}]
    BY <1>3 DEF NodesMade
  <2>2. \A n \in AllNodes : f[n] # 0
    BY <1>1, <1>5, <1>6, SourceFacts
  <2> QED BY <2>1, <2>2
<1>9. \A n \in Files : f[n] # 0 /\ f[Src[n].parent] # 0
  BY <1>1, <1>3, <1>5, <1>6 DEF NodesMade
<1>10. /\ \A n \in Files : f[n] # 1
       /\ \A n \in Files : kind[f[n]] = Src[n].kind /\ target[f[n]] = TargetOf(Src[n])
       /\ \A m, n \in Files : f[m] = f[n] <=> m = n \/ SameFile(m, n)
  BY <1>3, <1>9 DEF NodesMade
<1>11. \A m, n \in Files : f[Src[m].parent] = f[Src[n].parent] => Src[m].parent = Src[n].parent
  BY <1>1, <1>3, <1>9, DirectoryOf
<1>12. \A m, n \in Files : /\ Src[m].parent = Src[n].parent /\ Precedes(Src[m], Src[n])
                           /\ ~OtherPath(n)
                           => f[m] < f[n]
  BY <1>3, <1>9 DEF Numbered
<1>13. Whole(f)
  BY <1>3, <1>5, <1>7, <1>8, <1>10, <1>11, <1>12 DEF Whole
<1> QED BY <1>1, <1>13

\* Every one of them has its record.
LEMMA AllOnDisk ==
    ASSUME MkInv, phase = "serialized", ~oom, run \in Runs, root = 1, NEW f, Whole(f)
    PROVE  \A n \in AllNodes : \E r \in inodeTable : r.inode = f[n]
<1> DEFINE T == {n \in AllNodes : ~\E r \in inodeTable : r.inode = f[n]}
<1> SUFFICES ASSUME T # {} PROVE FALSE
  OBVIOUS
<1>1. T \in SUBSET Nat
  BY SourceFacts
<1>2. PICK n \in T : \A y \in T : n <= y
  BY <1>1, LeastNumber
<1>3. n \in AllNodes /\ ~\E r \in inodeTable : r.inode = f[n]
  BY <1>2
<1>4. f[0] = 1 /\ \E r \in inodeTable : r.inode = 1
  BY InvReadBack DEF TreeReadBack, MkInv, IInv, Whole
<1>5. /\ n \in Files /\ n \in Nat /\ Src[n].parent \in AllNodes /\ Src[n].parent < n
      /\ Src[n].parent \in Nat
      /\ Src[n].parent # 0 => Src[n].parent \in Files /\ Src[Src[n].parent].kind = "dir"
  BY <1>3, <1>4, SourceFacts
<1>6. Src[n].parent \notin T
  BY <1>2, <1>5
<1>7. PICK r \in inodeTable : r.inode = f[Src[n].parent]
  BY <1>5, <1>6
<1>8. kind[f[Src[n].parent]] = "dir"
  <2>1. CASE Src[n].parent = 0
    BY <1>4, <2>1 DEF MkInv, IInv, TreeInv, ParentInv
  <2>2. CASE Src[n].parent # 0
    BY <1>5, <2>2 DEF Whole
  <2> QED BY <2>1, <2>2
<1>9. r \in DirectoriesOnDisk
  BY <1>7, <1>8 DEF DirectoriesOnDisk, MkInv, IInv, TreeInv, RecordInv
<1>10. PICK k \in DOMAIN entries[f[Src[n].parent]] :
          entries[f[Src[n].parent]][k] = EntryOf(f, n)
  BY <1>5 DEF Whole, EntriesMade
<1>11. \E q \in inodeTable : q.inode = entries[r.inode][k].inode
  BY <1>7, <1>9, <1>10 DEF MkInv, IInv, TreeInv, ListingInv
<1> QED BY <1>3, <1>7, <1>10, <1>11 DEF EntryOf

\* A reader finds a name in a directory.
LEMMA NameRead ==
    ASSUME MkInv, phase = "serialized", ~oom, run \in Runs, root = 1, NEW f, Whole(f), NEW n \in Files
    PROVE  ReadName(f[Src[n].parent], Src[n].name) = f[n]
<1>1. PICK d : d = f[Src[n].parent]
  OBVIOUS
<1>2. /\ Src[n].parent \in AllNodes
      /\ Src[n].parent # 0 => Src[n].parent \in Files /\ Src[Src[n].parent].kind = "dir"
  BY SourceFacts
<1>3. kind[d] = "dir" /\ d \in Inodes
  <2>1. CASE Src[n].parent = 0
    BY <1>1, <1>2, <2>1 DEF Whole, MkInv, IInv, TreeInv, ParentInv
  <2>2. CASE Src[n].parent # 0
    BY <1>1, <1>2, <2>2 DEF Whole
  <2> QED BY <2>1, <2>2
<1>4. PICK r \in inodeTable : r.inode = d
  BY <1>1, <1>2, AllOnDisk
<1>5. r \in DirectoriesOnDisk /\ \A q \in inodeTable : q.inode = d => q = r
  BY <1>3, <1>4 DEF DirectoriesOnDisk, MkInv, IInv, TreeInv, RecordInv
<1>6. RecordOf(d) = r
  <2>1. RecordOf(d) \in inodeTable /\ RecordOf(d).inode = d
    BY <1>4, Zenon DEF RecordOf
  <2> QED BY <1>5, <2>1
<1>7. PICK items : items = Listing(r)
  OBVIOUS
<1>8. DOMAIN items = DOMAIN entries[d]
  <2>1. TreeInv /\ TreeTypeOK
    BY DEF MkInv, IInv, TreeInv
  <2>2. Len(Seen(d)) = Len(entries[d]) /\ Listed(r, Seen(d), Position(r.start))
    BY <1>4, <1>5, <2>1, OnDisk
  <2>3. DOMAIN items = 1 .. Len(entries[d])
    BY <1>7, <2>2 DEF Listed, Encodes
  <2> QED BY <1>3, <2>1, <2>3, EntryFacts
<1>9. \A k \in DOMAIN items : /\ items[k].name = entries[d][k].name
                              /\ HeaderOf(items, k).number + items[k].diff = entries[d][k].inode
  <2>1. TreeInv
    BY DEF MkInv, IInv
  <2> QED BY <1>4, <1>5, <1>7, <1>8, <2>1, EntryReads DEF EntryReadBack
<1>10. PICK k \in DOMAIN items : entries[d][k].name = Src[n].name /\ entries[d][k].inode = f[n]
  <2>1. PICK k \in DOMAIN entries[f[Src[n].parent]] : entries[f[Src[n].parent]][k] = EntryOf(f, n)
    BY DEF Whole, EntriesMade
  <2> QED BY <1>1, <1>8, <2>1 DEF EntryOf
<1>11. \A j \in DOMAIN items : entries[d][j].name = Src[n].name => j = k
  BY <1>3, <1>8, <1>10 DEF Whole, EntriesMade
<1>12. {j \in DOMAIN items : items[j].name = Src[n].name} = {k}
  BY <1>9, <1>10, <1>11
<1>13. (CHOOSE j \in {k} : TRUE) = k
  OBVIOUS
<1>14. (IF \E q \in DirectoriesOnDisk : q.inode = d THEN Listing(RecordOf(d)) ELSE <<>>) = items
  BY <1>4, <1>5, <1>6, <1>7
<1>15. ReadName(d, Src[n].name) = HeaderOf(items, k).number + items[k].diff
  BY <1>12, <1>13, <1>14, Zenon DEF ReadName
<1> QED BY <1>1, <1>9, <1>10, <1>15

\* So it finds every file.
LEMMA AllFound ==
    ASSUME MkInv, phase = "serialized", ~oom, run \in Runs, root = 1, NEW f, Whole(f)
    PROVE  \A n \in AllNodes : Found[n] = f[n]
<1> DEFINE IsFound(h) ==
       h = [n \in 0 .. Len(run.source) |->
              IF n = 0 THEN root ELSE ReadName(h[run.source[n].parent], run.source[n].name)]
           found == CHOOSE h : IsFound(h)
<1>1. IsFound(f)
  <2>1. f \in [AllNodes -> Inodes] /\ f[0] = root
    BY DEF Whole
  <2>2. \A n \in AllNodes : n # 0 => f[n] = ReadName(f[Src[n].parent], Src[n].name)
    BY NameRead, SourceFacts
  <2>3. f = [n \in AllNodes |-> IF n = 0 THEN root ELSE ReadName(f[Src[n].parent], Src[n].name)]
    BY <2>1, <2>2
  <2> QED BY <2>3, Zenon DEF AllNodes, Src
<1>2. Found = found
  BY Zenon DEF Found
<1> HIDE DEF IsFound
<1>3. IsFound(found)
  BY <1>1, Zenon
<1> HIDE DEF found
<1>4. /\ found[0] = root
      /\ \A n \in AllNodes : n # 0 => found[n] = ReadName(found[Src[n].parent], Src[n].name)
  BY <1>3, SourceFacts DEF IsFound, AllNodes, Src
<1> DEFINE T == {n \in AllNodes : found[n] # f[n]}
<1>5. T = {}
  <2> SUFFICES ASSUME T # {} PROVE FALSE
    OBVIOUS
  <2>1. T \in SUBSET Nat
    BY SourceFacts
  <2>2. PICK n \in T : \A y \in T : n <= y
    BY <2>1, LeastNumber
  <2>3. n \in AllNodes /\ found[n] # f[n] /\ n # 0
    BY <1>4, <2>2 DEF Whole
  <2>4. n \in Files /\ n \in Nat /\ Src[n].parent \in AllNodes /\ Src[n].parent \in Nat /\ Src[n].parent < n
    BY <2>3, SourceFacts
  <2>5. found[Src[n].parent] = f[Src[n].parent]
    BY <2>2, <2>4
  <2> QED BY <1>4, <2>3, <2>4, <2>5, NameRead
<1> QED BY <1>2, <1>5

-----------------------------------------------------------------------------
(* Counting the files.                                                     *)

\* Sets with a bijection between them.
LEMMA SameCount ==
    ASSUME NEW S, NEW T, IsFiniteSet(S), NEW F \in [S -> T],
           \A x, y \in S : F[x] = F[y] => x = y, \A t \in T : \E x \in S : F[x] = t
    PROVE  IsFiniteSet(T) /\ Cardinality(T) = Cardinality(S)
<1>1. ExistsBijection(S, T)
  <2>1. F \in Injection(S, T)
    BY DEF Injection, IsInjective
  <2>2. F \in Surjection(S, T)
    BY DEF Surjection
  <2> QED BY <2>1, <2>2 DEF ExistsBijection, Bijection
<1> QED BY <1>1, FS_Bijection

\* There are finitely many.
LEMMA FilesCounted ==
    ASSUME run \in Runs
    PROVE  IsFiniteSet(Files) /\ Cardinality(Files) = Len(Src)
<1>1. PICK N \in Nat : N = Len(Src) /\ Files = 1 .. N
  BY SourceFacts
<1>2. IsFiniteSet(1 .. N) /\ Cardinality(1 .. N) = N
  <2>1. \A a, b \in Int : /\ IsFiniteSet(a .. b)
                          /\ Cardinality(a .. b) = IF a > b THEN 0 ELSE b - a + 1
    BY FS_Interval
  <2>2. IsFiniteSet(1 .. N) /\ Cardinality(1 .. N) = IF 1 > N THEN 0 ELSE N - 1 + 1
    BY <2>1
  <2> QED BY <2>2
<1> QED BY <1>1, <1>2

\* p is the entry of file n.
EntryAt(f, n, p) ==
    /\ p \in Inodes \X Nat /\ p = <<p[1], p[2]>> /\ p[1] = f[Src[n].parent]
    /\ p[2] \in DOMAIN entries[p[1]] /\ entries[p[1]][p[2]] = EntryOf(f, n)

\* Every file has one entry, and every entry is one file's.
LEMMA Positions ==
    ASSUME MkInv, run \in Runs, NEW f, Whole(f)
    PROVE  \E pos \in [Files -> Inodes \X Nat] :
              /\ \A n \in Files : EntryAt(f, n, pos[n])
              /\ \A m, n \in Files : pos[m] = pos[n] => m = n
              /\ \A d \in Inodes : \A k \in DOMAIN entries[d] : \E n \in Files : pos[n] = <<d, k>>
<1>1. TreeTypeOK
  BY DEF MkInv, IInv, TreeInv
<1>2. ASSUME NEW n \in Files PROVE \E p \in Inodes \X Nat : EntryAt(f, n, p)
  <2>1. PICK d \in Inodes : d = f[Src[n].parent]
    BY SourceFacts DEF Whole
  <2>2. PICK k \in DOMAIN entries[f[Src[n].parent]] : entries[f[Src[n].parent]][k] = EntryOf(f, n)
    BY DEF Whole, EntriesMade
  <2>3. k \in Nat /\ k \in DOMAIN entries[d] /\ entries[d][k] = EntryOf(f, n)
    BY <1>1, <2>1, <2>2, EntryFacts
  <2>4. PICK p : p = <<d, k>>
    OBVIOUS
  <2>5. p \in Inodes \X Nat /\ p[1] = d /\ p[2] = k
    BY <2>3, <2>4
  <2> QED BY <2>1, <2>3, <2>4, <2>5 DEF EntryAt
<1> DEFINE pos == [n \in Files |-> CHOOSE p \in Inodes \X Nat : EntryAt(f, n, p)]
<1>3. ASSUME NEW n \in Files PROVE pos[n] \in Inodes \X Nat /\ EntryAt(f, n, pos[n])
  <2>1. PICK p : p = CHOOSE q \in Inodes \X Nat : EntryAt(f, n, q)
    OBVIOUS
  <2>2. p \in Inodes \X Nat /\ EntryAt(f, n, p)
    BY <1>2, <2>1, Zenon
  <2> QED BY <2>1, <2>2
<1>4. pos \in [Files -> Inodes \X Nat]
  BY <1>3
<1> HIDE DEF pos
<1>5. ASSUME NEW m \in Files, NEW n \in Files, pos[m] = pos[n] PROVE m = n
  <2>1. f[Src[m].parent] = f[Src[n].parent] /\ EntryOf(f, m) = EntryOf(f, n)
    BY <1>3, <1>5 DEF EntryAt
  <2>2. Src[m].name = Src[n].name
    BY <2>1 DEF EntryOf
  <2>3. Src[m].parent = Src[n].parent
    BY <2>1 DEF Whole
  <2> QED BY <2>2, <2>3, SourceFacts
<1>6. ASSUME NEW d \in Inodes, NEW k \in DOMAIN entries[d] PROVE \E n \in Files : pos[n] = <<d, k>>
  <2>1. PICK n \in Files : f[Src[n].parent] = d /\ entries[d][k] = EntryOf(f, n)
    BY DEF Whole, EntriesMade
  <2>2. EntryAt(f, n, pos[n])
    BY <1>3
  <2>3. PICK j : j = pos[n][2]
    OBVIOUS
  <2>4. pos[n] = <<d, j>> /\ j \in DOMAIN entries[d] /\ entries[d][j] = entries[d][k]
    BY <2>1, <2>2, <2>3 DEF EntryAt
  <2>5. j = k
    BY <2>4 DEF Whole, EntriesMade
  <2> QED BY <2>4, <2>5
<1> QED BY <1>3, <1>4, <1>5, <1>6

\* The directory table has an item for every file.
LEMMA ItemForEach ==
    ASSUME MkInv, phase = "serialized", ~oom, run \in Runs, root = 1, NEW f, Whole(f)
    PROVE  Len(dirTable) = Len(Src)
<1>1. PICK pos \in [Files -> Inodes \X Nat] :
              /\ \A n \in Files : EntryAt(f, n, pos[n])
              /\ \A m, n \in Files : pos[m] = pos[n] => m = n
              /\ \A d \in Inodes : \A k \in DOMAIN entries[d] : \E n \in Files : pos[n] = <<d, k>>
  BY Positions
<1>2. \A n \in Files : pos[n] \in EncodedEntries
  <2> TAKE n \in Files
  <2>1. PICK d, k : d = pos[n][1] /\ k = pos[n][2]
    OBVIOUS
  <2>2. /\ pos[n] \in Inodes \X Nat /\ d \in Inodes /\ k \in DOMAIN entries[d] /\ d = f[Src[n].parent]
    BY <1>1, <2>1 DEF EntryAt
  <2>3. kind[d] = "dir"
    BY <2>2 DEF MkInv, IInv, TreeInv, ParentInv
  <2>4. Src[n].parent \in AllNodes
    BY SourceFacts
  <2>5. \E r \in inodeTable : r.inode = d
    BY <2>2, <2>4, AllOnDisk
  <2>6. etype[d] # "none"
    BY <2>5 DEF MkInv, IInv, TreeInv, RecordInv
  <2> QED BY <2>1, <2>2, <2>3, <2>6 DEF EncodedEntries
<1>3. \A p \in EncodedEntries : \E n \in Files : pos[n] = p
  <2> TAKE p \in EncodedEntries
  <2>1. p \in Inodes \X Nat /\ p = <<p[1], p[2]>> /\ p[1] \in Inodes /\ p[2] \in DOMAIN entries[p[1]]
    BY DEF EncodedEntries
  <2> QED BY <1>1, <2>1
<1>4. pos \in [Files -> EncodedEntries]
  BY <1>1, <1>2
<1>5. IsFiniteSet(Files) /\ Cardinality(Files) = Len(Src)
  BY FilesCounted
<1>6. Cardinality(EncodedEntries) = Cardinality(Files)
  BY <1>1, <1>3, <1>4, <1>5, SameCount
<1> QED BY <1>5, <1>6 DEF MkInv, ItemsCounted

\* A file has a link for every path.
LEMMA LinkForEach ==
    ASSUME MkInv, phase = "serialized", ~oom, run \in Runs, root = 1, NEW f, Whole(f),
           NEW n \in Files, Src[n].kind = "file"
    PROVE  nlink[f[n]] = Cardinality({m \in Files : SameFile(m, n)})
<1>1. PICK pos \in [Files -> Inodes \X Nat] :
              /\ \A m \in Files : EntryAt(f, m, pos[m])
              /\ \A l, m \in Files : pos[l] = pos[m] => l = m
              /\ \A d \in Inodes : \A k \in DOMAIN entries[d] : \E m \in Files : pos[m] = <<d, k>>
  BY Positions
<1>2. PICK i \in Inodes : i = f[n]
  BY SourceFacts DEF Whole
<1>3. TreeTypeOK
  BY DEF MkInv, IInv, TreeInv
<1>4. i # root /\ kind[i] = "file"
  BY <1>2 DEF Whole
<1> DEFINE S == {m \in Files : SameFile(m, n)}
           T == Pairs(entries, Inodes, {i})
<1>5. \A m \in Files : f[m] = i <=> m \in S
  BY <1>2 DEF Whole, SameFile
<1>6. ASSUME NEW m \in S PROVE pos[m] \in T
  <2>1. EntryAt(f, m, pos[m]) /\ f[m] = i
    BY <1>1, <1>5
  <2> QED BY <2>1 DEF Pairs, EntryAt, EntryOf
<1>7. ASSUME NEW p \in T PROVE \E m \in S : pos[m] = p
  <2>1. /\ p \in Inodes \X Nat /\ p = <<p[1], p[2]>> /\ p[1] \in Inodes /\ p[2] \in DOMAIN entries[p[1]]
        /\ entries[p[1]][p[2]].inode = i
    BY DEF Pairs
  <2>2. PICK m \in Files : pos[m] = p
    BY <1>1, <2>1
  <2>3. entries[p[1]][p[2]] = EntryOf(f, m)
    BY <1>1, <2>2 DEF EntryAt
  <2>4. f[m] = i
    BY <2>1, <2>3 DEF EntryOf
  <2> QED BY <1>5, <2>2, <2>4
<1>8. IsFiniteSet(S)
  BY FilesCounted, FS_Subset
<1>9. Cardinality(T) = Cardinality(S)
  <2> DEFINE F == [m \in S |-> pos[m]]
  <2>1. F \in [S -> T]
    BY <1>6
  <2>2. \A x, y \in S : F[x] = F[y] => x = y
    BY <1>1
  <2>3. \A t \in T : \E x \in S : F[x] = t
    BY <1>7
  <2> HIDE DEF S, T, F
  <2> QED BY <1>8, <2>1, <2>2, <2>3, SameCount
<1>10. Links(i) = T /\ Subdirectories(i) = Pairs(entries, {i}, Dirs)
  BY <1>3, LinksArePairs
<1>11. Subdirectories(i) = {}
  BY <1>2, <1>4, <1>10 DEF Pairs, MkInv, IInv, TreeInv, ParentInv
<1>12. Cardinality(Subdirectories(i)) = 0
  BY <1>11, FS_EmptySet
<1>13. nlink[i] = LinkCount(i)
  BY <1>4 DEF MkInv, IInv, LinkCounts
<1>14. Cardinality(S) \in Nat
  BY <1>8, FS_CardinalityType
<1> QED BY <1>2, <1>4, <1>9, <1>10, <1>12, <1>13, <1>14 DEF LinkCount

-----------------------------------------------------------------------------
(* The theorems.                                                           *)

\* A reader finds every file with its kind, its target and its links.
LEMMA FileRead ==
    ASSUME MkInv, phase = "serialized", ~oom, run \in Runs, root = 1, NEW f, Whole(f), NEW n \in Files
    PROVE  /\ Found[n] # 0
           /\ \E r \in inodeTable :
                 /\ r.inode = Found[n] /\ r.kind = Src[n].kind
                 /\ r.kind = "file" =>
                       (IF r.nlink = -1 THEN 1 ELSE r.nlink) = Cardinality({m \in Files : SameFile(m, n)})
           /\ Src[n].kind = "symlink" /\ Src[n].target <= TargetMax => target[Found[n]] = Src[n].target
<1>1. n \in AllNodes /\ Src[n] \in FileType
  BY SourceFacts
<1>2. PICK i \in Inodes : i = f[n] /\ Found[n] = i
  BY <1>1, AllFound DEF Whole
<1>3. i # 0 /\ kind[i] = Src[n].kind /\ target[i] = TargetOf(Src[n])
  BY <1>2 DEF Whole, Inodes
<1>4. PICK r \in inodeTable : r.inode = i
  BY <1>1, <1>2, AllOnDisk
<1>5. r.kind = Src[n].kind /\ (IF r.nlink = -1 THEN 1 ELSE r.nlink) = nlink[i]
  BY <1>3, <1>4 DEF MkInv, IInv, TreeInv, RecordInv
<1>6. Src[n].kind = "file" => nlink[i] = Cardinality({m \in Files : SameFile(m, n)})
  BY <1>2, LinkForEach
<1>7. Src[n].kind = "symlink" /\ Src[n].target <= TargetMax => TargetOf(Src[n]) = Src[n].target
  BY <1>1, TargetMaxIsNat DEF TargetOf, FileType
<1> QED BY <1>2, <1>3, <1>4, <1>5, <1>6, <1>7

\* The invariant says what a reader finds.
LEMMA InvMirrors == MkInv => SourceMirrored
<1> SUFFICES ASSUME MkInv, phase = "serialized", ~oom
             PROVE  LET found == Found
                        src == run.source
                        same(m, n) == /\ src[m].kind = "file" /\ src[n].kind = "file"
                                      /\ <<src[m].dev, src[m].ino>> = <<src[n].dev, src[n].ino>>
                    IN /\ Len(dirTable) = Len(src)
                       /\ \A n \in Files :
                             /\ found[n] # 0
                             /\ \E r \in inodeTable :
                                   /\ r.inode = found[n] /\ r.kind = src[n].kind
                                   /\ r.kind = "file" =>
                                         (IF r.nlink = -1 THEN 1 ELSE r.nlink)
                                             = Cardinality({m \in Files : same(m, n)})
                             /\ src[n].kind = "symlink" /\ src[n].target <= TargetMax
                                   => target[found[n]] = src[n].target
                       /\ \A m, n \in Files : found[m] = found[n] <=> (m = n \/ same(m, n))
  BY Zenon DEF SourceMirrored
<1>1. root # 0
  BY DEF MkInv, IInv, TreeInv, StackInv
<1>2. PICK f : run \in Runs /\ root = 1 /\ Whole(f)
  BY <1>1, AllEntered
<1> DEFINE same(m, n) == /\ Src[m].kind = "file" /\ Src[n].kind = "file"
                         /\ <<Src[m].dev, Src[m].ino>> = <<Src[n].dev, Src[n].ino>>
<1>3. \A m, n : same(m, n) <=> SameFile(m, n)
  BY DEF SameFile
<1>4. \A n : {m \in Files : same(m, n)} = {m \in Files : SameFile(m, n)}
  BY <1>3
<1>5. Len(dirTable) = Len(Src)
  BY <1>2, ItemForEach
<1>6. ASSUME NEW n \in Files
      PROVE  /\ Found[n] # 0
             /\ \E r \in inodeTable :
                   /\ r.inode = Found[n] /\ r.kind = Src[n].kind
                   /\ r.kind = "file" =>
                         (IF r.nlink = -1 THEN 1 ELSE r.nlink) = Cardinality({m \in Files : same(m, n)})
             /\ Src[n].kind = "symlink" /\ Src[n].target <= TargetMax => target[Found[n]] = Src[n].target
  BY <1>2, <1>4, FileRead
<1>7. \A m, n \in Files : Found[m] = Found[n] <=> (m = n \/ same(m, n))
  <2>1. \A n \in Files : Found[n] = f[n]
    BY <1>2, AllFound, SourceFacts
  <2> QED BY <1>2, <1>3, <2>1 DEF Whole
<1> QED BY <1>5, <1>6, <1>7, Zenon DEF Src

\* The image mksqfs makes is the source, for every source, every order of readdir and
\* every size of the inode cache: every path is there with its kind, target and links,
\* nothing else is, and hard links of regular files stay links.
THEOREM SourceIsMirrored == MkSpec => []SourceMirrored
<1>1. MkSpec => []MkInv
  BY MkInvariant
<1> QED BY <1>1, InvMirrors, PTL

\* And in which order.
LEMMA InvOrdered == MkInv => NumberedInOrder
<1> SUFFICES ASSUME MkInv, phase = "serialized", ~oom, NEW m \in Files, NEW n \in Files,
                    run.source[m].parent = run.source[n].parent,
                    Precedes(run.source[m], run.source[n]), ~OtherPath(n)
             PROVE  Found[m] < Found[n]
  BY DEF NumberedInOrder
<1>1. root # 0
  BY DEF MkInv, IInv, TreeInv, StackInv
<1>2. PICK f : run \in Runs /\ root = 1 /\ Whole(f)
  BY <1>1, AllEntered
<1>3. Found[m] = f[m] /\ Found[n] = f[n]
  BY <1>2, AllFound, SourceFacts
<1>4. f[m] < f[n]
  BY <1>2 DEF Whole, Src
<1> QED BY <1>3, <1>4

\* Inode numbers follow from the source and not from the order of readdir.
THEOREM FilesNumberedInOrder == MkSpec => []NumberedInOrder
<1>1. MkSpec => []MkInv
  BY MkInvariant
<1> QED BY <1>1, InvOrdered, PTL
=============================================================================

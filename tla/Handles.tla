------------------------------- MODULE Handles -------------------------------
(***************************************************************************)
(* The objects a program holds handles of, and who owns what: options and  *)
(* images (image.c), compressors and their instances (compressor.c,        *)
(* compressor_*.c) and destinations (destination.c).                       *)
(*                                                                         *)
(* The functions of the library are operators on a heap.  A pointer is the *)
(* number of an object, an object [type, alg, to] with the pointers it     *)
(* owns.  Whatever takes something from the system (malloc, open,          *)
(* ftruncate, deflateInit) counts as a call, and the call of number failAt *)
(* fails; bad says that freed memory was used or freed again.              *)
(***************************************************************************)
EXTENDS Integers, Sequences

NULL == 0
Freed == [type |-> "freed", alg |-> "none", to |-> <<>>]
NewHeap(failAt) == [objs |-> <<>>, calls |-> 0, failAt |-> failAt, bad |-> FALSE]

Call(h) == [h EXCEPT !.calls = @ + 1]
Fails(h) == h.calls + 1 = h.failAt

Live(h) == {p \in DOMAIN h.objs : h.objs[p] # Freed}
Use(h, p) == IF p \in Live(h) THEN h ELSE [h EXCEPT !.bad = TRUE]
Free(h, p) == IF p \in Live(h) THEN [h EXCEPT !.objs[p] = Freed] ELSE [h EXCEPT !.bad = TRUE]

\* The results of functions: the heap, and the pointer they return.
Fail(h) == [heap |-> h, ptr |-> NULL]
Alloc(h, type, alg, to) ==
    IF Fails(h) THEN Fail(Call(h))
    ELSE [heap |-> [Call(h) EXCEPT !.objs = Append(@, [type |-> type, alg |-> alg, to |-> to])],
          ptr |-> Len(h.objs) + 1]

-----------------------------------------------------------------------------
(* Compressors.  meta: there is a function for metadata; stream: an open   *)
(* compressor has a stream that is initialised and ended.                  *)

NullCompressor == [meta |-> FALSE, stream |-> FALSE]
ZlibCompressor == [meta |-> TRUE, stream |-> TRUE]
LzmaCompressor == [meta |-> TRUE, stream |-> FALSE]
XzCompressor == [meta |-> TRUE, stream |-> FALSE]
ZstdCompressor == [meta |-> TRUE, stream |-> FALSE]

Compressors ==
    [null |-> NullCompressor, zlib |-> ZlibCompressor, lzma |-> LzmaCompressor,
     xz |-> XzCompressor, zstd |-> ZstdCompressor]

\* The functions that copy the constants for null, zlib and lzma, and the ones that
\* create the other two with their default options.
CompressorCreate(h, alg) == Alloc(h, "compressor", alg, <<>>)

\* libsqfs_compressor_copy.
CompressorCopy(h, c) == Alloc(Use(h, c), "compressor", h.objs[c].alg, <<>>)

CompressorDestroy(h, c) == Free(h, c)

\* libsqfs_compressor_open.
CompressorOpen(h, c) ==
    LET alg == h.objs[c].alg
        i == Alloc(Use(h, c), "instance", alg, <<>>)
    IN IF i.ptr = NULL \/ ~Compressors[alg].stream THEN i
       ELSE IF Fails(i.heap) THEN Fail(Free(Call(i.heap), i.ptr))
       ELSE [i EXCEPT !.heap = Call(@)]

\* libsqfs_compressor_instance_destroy.
InstanceDestroy(h, i) == Free(h, i)

-----------------------------------------------------------------------------
(* Options.                                                                *)

DefaultCompressor == "zlib"

\* libsqfs_image_options_create.
OptionsCreate(h) ==
    LET o == Alloc(h, "options", "none", <<>>)
        c == CompressorCreate(o.heap, DefaultCompressor)
    IN IF o.ptr = NULL THEN o
       ELSE IF c.ptr = NULL THEN Fail(Free(c.heap, o.ptr))
       ELSE [o EXCEPT !.heap = [c.heap EXCEPT !.objs[o.ptr].to = <<c.ptr>>]]

CompressorOf(h, o) == h.objs[o].to[1]

\* mutant: the copy shares the compressor with the original
OptionsCopy_Shared(h, o) ==
    Alloc(Use(h, o), "options", "none", <<CompressorOf(h, o)>>)

\* libsqfs_image_options_copy.
OptionsCopy(h, o) ==
    LET copy == Alloc(Use(h, o), "options", "none", <<>>)
        c == CompressorCopy(copy.heap, CompressorOf(h, o))
    IN IF copy.ptr = NULL THEN copy
       ELSE IF c.ptr = NULL THEN Fail(Free(c.heap, copy.ptr))
       ELSE [copy EXCEPT !.heap = [c.heap EXCEPT !.objs[copy.ptr].to = <<c.ptr>>]]

\* libsqfs_image_options_destroy.
OptionsDestroy(h, o) == Free(CompressorDestroy(h, CompressorOf(h, o)), o)

\* libsqfs_image_options_set_compressor; a copy that fails leaves the old one.
SetCompressor(h, o, c) ==
    LET new == CompressorCopy(h, c)
    IN IF new.ptr = NULL THEN new.heap
       ELSE CompressorDestroy([new.heap EXCEPT !.objs[o].to = <<new.ptr>>], CompressorOf(h, o))

-----------------------------------------------------------------------------
(* Images and destinations.                                                *)

\* libsqfs_image_create.  libsqfs_compressor_get_option_data returns NULL for every
\* compressor there is: only xz has options, and no function changes the default.
ImageCreate(h, o) ==
    LET i == Alloc(h, "image", "none", <<>>)
        opt == IF o # NULL THEN OptionsCopy(i.heap, o) ELSE OptionsCreate(i.heap)
        inst == CompressorOpen(opt.heap, CompressorOf(opt.heap, opt.ptr))
    IN IF i.ptr = NULL THEN i
       ELSE IF opt.ptr = NULL THEN Fail(Free(opt.heap, i.ptr))
       ELSE IF inst.ptr = NULL THEN Fail(Free(OptionsDestroy(inst.heap, opt.ptr), i.ptr))
       ELSE [i EXCEPT !.heap = [inst.heap EXCEPT !.objs[i.ptr].to = <<opt.ptr, inst.ptr>>]]

ImageAlgorithm(h, i) == h.objs[h.objs[i].to[2]].alg

\* The end of libsqfs_image_close.
ImageDestroy(h, i) ==
    LET opt == h.objs[i].to[1]
        inst == h.objs[i].to[2]
    IN Free(OptionsDestroy(InstanceDestroy(h, inst), opt), i)

\* libsqfs_destination_create_for_file: open, ftruncate, malloc.
DestinationCreateForFile(h) ==
    LET fd == Alloc(h, "fd", "none", <<>>)
        trunc == Call(fd.heap)
        d == Alloc(trunc, "destination", "none", <<fd.ptr>>)
    IN IF fd.ptr = NULL THEN fd
       ELSE IF Fails(fd.heap) THEN Fail(Free(trunc, fd.ptr))
       ELSE IF d.ptr = NULL THEN Fail(Free(d.heap, fd.ptr))
       ELSE d

\* libsqfs_destination_release: the file is closed if the destination owns it.
DestinationRelease(h, d) == Free(Free(h, h.objs[d].to[1]), d)

\* What can be reached from a set of pointers; nothing is owned over more than two others.
Owned(h, ps) ==
    LET next(s) == s \cup UNION {{h.objs[p].to[k] : k \in DOMAIN h.objs[p].to} : p \in s}
    IN next(next(next(ps \ {NULL})))
=============================================================================

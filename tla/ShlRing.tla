------------------------------ MODULE ShlRing -------------------------------
(***************************************************************************)
(* The ring buffer of src/shl_ring.c and src/shl_ring.h: a block of memory *)
(* of a power-of-two size, a read index and a write index.  "end = start"  *)
(* means empty, so one byte of the block always stays unused; pushing more *)
(* than fits moves the data to a larger block.                             *)
(*                                                                         *)
(* The C functions are operators on a ring record, so that the modules of  *)
(* the ring's users can apply them to a ring of their own; the state       *)
(* machine below is one ring and an arbitrary caller.                      *)
(***************************************************************************)
EXTENDS Integers, Sequences

CONSTANTS
  Byte,       \* the byte values
  Junk,       \* what malloc'ed memory holds before it is written
  Sizes,      \* the powers of two that fit a size_t
  Chunks,     \* the byte sequences a caller may push
  Lengths     \* the lengths a caller may ask shl_ring_pull/_copy for

\* Any set of naturals is well-ordered: ring_pow2 takes the least that fits.
ASSUME SizesAssumption ==
  /\ Sizes \subseteq Nat \ {0}
  /\ \A S \in SUBSET Sizes : S # {} => \E m \in S : \A n \in S : m <= n

ASSUME ByteAssumption == Junk \notin Byte

ASSUME CallerAssumption ==
  /\ \A data \in Chunks : data \in Seq(Byte)
  /\ Lengths \subseteq Nat

VARIABLES
  ring,       \* struct shl_ring: buf, size, start, end
  copied,     \* the buffer returned by the last shl_ring_copy
  call        \* the last call: what it was and its argument

vars == <<ring, copied, call>>

-----------------------------------------------------------------------------
\* A freshly allocated block of n bytes.
malloc(n) == [i \in 0 .. n - 1 |-> Junk]

\* n bytes of src, from index from on, written into dst at index at.
memcpy(dst, at, src, from, n) ==
  [i \in DOMAIN dst |->
     IF at <= i /\ i < at + n THEN src[from + i - at] ELSE dst[i]]

\* A zeroed struct shl_ring: no memory at all.
NullRing == [buf |-> malloc(0), size |-> 0, start |-> 0, end |-> 0]

\* v & (size - 1): the remainder, as size is a power of two; with size 0 the
\* mask is all ones.
RING_MASK(r, v) == IF r.size = 0 THEN v ELSE v % r.size

shl_ring_length(r) ==
  IF r.end > r.start THEN r.end - r.start
  ELSE IF r.end < r.start THEN (r.size - r.start) + r.end
  ELSE 0

\* Mutant of ring_resize: the second stretch of wrapped data is not moved.
ring_resize_OneStretch(r, nsize) ==
  [buf   |-> memcpy(malloc(nsize), 0, r.buf, r.start,
                    IF r.end >= r.start THEN r.end - r.start ELSE r.size - r.start),
   size  |-> nsize,
   start |-> 0,
   end   |-> shl_ring_length(r)]

\* Move the data to the start of a new block of nsize bytes.
ring_resize(r, nsize) ==
  LET new == malloc(nsize) IN
  IF r.end = r.start
    THEN [buf |-> new, size |-> nsize, start |-> 0, end |-> 0]
  ELSE IF r.end > r.start
    THEN [buf   |-> memcpy(new, 0, r.buf, r.start, r.end - r.start),
          size  |-> nsize,
          start |-> 0,
          end   |-> r.end - r.start]
    ELSE [buf   |-> memcpy(memcpy(new, 0, r.buf, r.start, r.size - r.start),
                           r.size - r.start, r.buf, 0, r.end),
          size  |-> nsize,
          start |-> 0,
          end   |-> r.end + (r.size - r.start)]

\* The least power of two that is at least v; the computation wraps to 0 when
\* size_t has none.
ring_pow2(v) ==
  LET fit == {p \in Sizes : p >= v}
  IN  IF fit = {} THEN 0 ELSE CHOOSE p \in fit : \A q \in fit : p <= q

\* The bytes that can be written before end meets start, the unusable byte
\* included.
RingRoom(r) ==
  IF r.end < r.start THEN r.start - r.end ELSE r.start + r.size - r.end

NewSize(r, add) == ring_pow2(r.size + add - RingRoom(r) + 1)

\* Mutant of FitsAsIs: end may catch up with start.
FitsAsIs_Full(r, add) == RingRoom(r) >= add

\* ring_grow returns 0 without touching the ring.
FitsAsIs(r, add) == RingRoom(r) > add

\* ring_grow returns -ENOMEM; mem says whether malloc succeeds.
GrowFails(r, add, mem) ==
  /\ ~FitsAsIs(r, add)
  /\ NewSize(r, add) <= r.size \/ ~mem

\* The ring after a successful ring_grow.
ring_grow(r, add) ==
  IF FitsAsIs(r, add) THEN r ELSE ring_resize(r, NewSize(r, add))

\* shl_ring_push once the room is there: up to the end of the block, then
\* from its start.
Write(r, data) ==
  LET len == Len(data)
      l   == IF r.start > r.end THEN 0
             ELSE IF r.size - r.end > len THEN len ELSE r.size - r.end
      mid == IF r.start > r.end THEN r.end ELSE RING_MASK(r, r.end + l)
      first  == memcpy(r.buf, r.end, data, 1, l)
  IN  IF len = l
        THEN [r EXCEPT !.buf = first, !.end = mid]
        ELSE [r EXCEPT !.buf = memcpy(first, mid, data, l + 1, len - l),
                       !.end = RING_MASK(r, mid + (len - l))]

shl_ring_push(r, data) == Write(ring_grow(r, Len(data)), data)

\* Remove len bytes from the start: first up to the end of the block, then
\* from its start.
shl_ring_pull(r, len) ==
  LET l1 == IF r.start <= r.end THEN 0
            ELSE IF r.size - r.start > len THEN len ELSE r.size - r.start
      s1 == IF r.start <= r.end THEN r.start ELSE RING_MASK(r, r.start + l1)
      l2 == IF r.end - s1 > len - l1 THEN len - l1 ELSE r.end - s1
  IN  IF len = l1
        THEN [r EXCEPT !.start = s1]
        ELSE [r EXCEPT !.start = RING_MASK(r, s1 + l2)]

shl_ring_flush(r) == [r EXCEPT !.start = 0, !.end = 0]

shl_ring_clear(r) == NullRing

\* The one or two stretches of the block that hold the data, as base and
\* length; the number of stretches is what the function returns.
shl_ring_peek(r) ==
  IF r.end > r.start
    THEN <<[base |-> r.start, len |-> r.end - r.start]>>
  ELSE IF r.end < r.start
    THEN IF r.end = 0
           THEN <<[base |-> r.start, len |-> r.size - r.start]>>
           ELSE <<[base |-> r.start, len |-> r.size - r.start],
                  [base |-> 0, len |-> r.end]>>
  ELSE <<>>

\* At most len bytes, gathered from the stretches of shl_ring_peek.
shl_ring_copy(r, len) ==
  LET vec == shl_ring_peek(r)
      l1  == IF vec = <<>> THEN 0 ELSE vec[1].len
      all == IF Len(vec) = 2 THEN l1 + vec[2].len ELSE l1
      sum == IF len < all THEN len ELSE all
  IN  [i \in 1 .. sum |->
         IF i <= l1 THEN r.buf[vec[1].base + i - 1]
                    ELSE r.buf[vec[2].base + i - 1 - l1]]

-----------------------------------------------------------------------------
Init ==
  /\ ring = NullRing
  /\ copied = <<>>
  /\ call = <<"none", 0>>

Push(data) ==
  /\ \E mem \in BOOLEAN : ~GrowFails(ring, Len(data), mem)
  /\ call' = <<"push", data>>
  /\ ring' = shl_ring_push(ring, data)
  /\ UNCHANGED copied

\* The push that returns -ENOMEM leaves the ring as it was.
PushNoMem(data) ==
  /\ \E mem \in BOOLEAN : GrowFails(ring, Len(data), mem)
  /\ call' = <<"nomem", data>>
  /\ UNCHANGED <<ring, copied>>

Pull(n) ==
  /\ call' = <<"pull", n>>
  /\ ring' = shl_ring_pull(ring, n)
  /\ UNCHANGED copied

Flush ==
  /\ call' = <<"empty", 0>>
  /\ ring' = shl_ring_flush(ring)
  /\ UNCHANGED copied

Clear ==
  /\ call' = <<"empty", 0>>
  /\ ring' = shl_ring_clear(ring)
  /\ UNCHANGED copied

Copy(n) ==
  /\ call' = <<"copy", n>>
  /\ copied' = shl_ring_copy(ring, n)
  /\ UNCHANGED ring

Next ==
  \/ \E data \in Chunks : Push(data) \/ PushNoMem(data)
  \/ \E n \in Lengths : Pull(n) \/ Copy(n)
  \/ Flush
  \/ Clear

Spec == Init /\ [][Next]_vars

-----------------------------------------------------------------------------
\* Every field of the ring has its type, and the block has the size the ring
\* believes it has (struct shl_ring).
TypeOK ==
  /\ ring.size \in Sizes \cup {0}
  /\ ring \in [buf   : [0 .. ring.size - 1 -> Byte \cup {Junk}],
               size  : Nat,
               start : Nat,
               end   : Nat]
  /\ copied \in Seq(Byte \cup {Junk})

\* Both indexes are inside the block, so that no memcpy touches memory outside.
InBounds ==
  \/ ring.size = 0 /\ ring.start = 0 /\ ring.end = 0
  \/ ring.start < ring.size /\ ring.end < ring.size

\* The i-th unread byte, counting from 1, found by walking round the block.
At(r, i) ==
  LET k == r.start + i - 1
  IN  r.buf[IF k < r.size THEN k ELSE k - r.size]

\* The unread bytes in order.
Content(r) == [i \in 1 .. shl_ring_length(r) |-> At(r, i)]

\* No reader of shl_ring.c ever sees memory outside of the block or uninitialised
\* memory: every byte between start and end was written by a push, across any
\* number of wraps and resizes.
NoJunkRead ==
  /\ InBounds
  /\ \A i \in 1 .. shl_ring_length(ring) : At(ring, i) \in Byte

\* The ring is the FIFO of RingFifo: seen through Content, every operation does
\* to the ring what it does to an unbounded queue, a resize in the middle of
\* wrapped data and a push that fails included.
Fifo == INSTANCE RingFifo WITH queue <- Content(ring)

ImplementsFifo == Fifo!Spec

=============================================================================

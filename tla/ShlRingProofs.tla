--------------------------- MODULE ShlRingProofs ----------------------------
(***************************************************************************)
(* Proofs about src/shl_ring.c for every set of bytes, every set of block  *)
(* sizes and every caller.                                                 *)
(***************************************************************************)
EXTENDS ShlRing, SequenceTheorems, TLAPS

\* The inductive invariant, as a predicate on a ring.
RingOK(r) ==
  /\ r.size \in Sizes \cup {0}
  /\ r.start \in Nat
  /\ r.end \in Nat
  /\ r = [buf |-> r.buf, size |-> r.size, start |-> r.start, end |-> r.end]
  /\ r.buf \in [0 .. r.size - 1 -> Byte \cup {Junk}]
  /\ \/ r.size = 0 /\ r.start = 0 /\ r.end = 0
     \/ r.start < r.size /\ r.end < r.size
  /\ \A i \in 1 .. shl_ring_length(r) : At(r, i) \in Byte

\* Masking an index that has reached at most the end of the block.
LEMMA MaskLemma ==
  ASSUME NEW s \in Nat \ {0}, NEW v \in 0 .. s
  PROVE  v % s = IF v = s THEN 0 ELSE v
<1>1. CASE v = s
  BY <1>1
<1>2. CASE v < s
  BY <1>2
<1>3. QED
  BY <1>1, <1>2

\* ring_pow2 finds a size that fits, or wraps to 0.
LEMMA Pow2Lemma ==
  ASSUME NEW v \in Nat
  PROVE  \/ ring_pow2(v) = 0
         \/ ring_pow2(v) \in Sizes /\ ring_pow2(v) >= v
<1> DEFINE fit == {p \in Sizes : p >= v}
<1>1. CASE fit = {}
  BY <1>1 DEF ring_pow2
<1>2. CASE fit # {}
  <2>1. fit \in SUBSET Sizes
    OBVIOUS
  <2>2. PICK m \in fit : \A n \in fit : m <= n
    BY <1>2, <2>1, SizesAssumption
  <2>3. (CHOOSE p \in fit : \A q \in fit : p <= q) \in fit
    BY <2>2
  <2>4. ring_pow2(v) \in fit
    BY <1>2, <2>3 DEF ring_pow2
  <2>5. QED
    BY <2>4
<1>3. QED
  BY <1>1, <1>2

\* Where the i-th unread byte lies.
LEMMA AtLemma ==
  ASSUME NEW r, r.size \in Nat, r.start \in Nat, NEW i \in Nat
  PROVE  At(r, i) = IF r.start + i - 1 < r.size
                      THEN r.buf[r.start + i - 1]
                      ELSE r.buf[r.start + i - 1 - r.size]
BY DEF At

\* The number of unread bytes, in one expression.
LEMMA LengthLemma ==
  ASSUME NEW r, r.size \in Nat, r.start \in Nat, r.end \in Nat
  PROVE  shl_ring_length(r) = IF r.end >= r.start THEN r.end - r.start
                              ELSE r.end + (r.size - r.start)
BY DEF shl_ring_length

\* Moving the data to a larger block keeps it, in order.
LEMMA ResizeLemma ==
  ASSUME NEW r, RingOK(r), NEW n \in Sizes, n > r.size
  PROVE  /\ RingOK(ring_resize(r, n))
         /\ ring_resize(r, n).size = n
         /\ shl_ring_length(ring_resize(r, n)) = shl_ring_length(r)
         /\ \A i \in 1 .. shl_ring_length(r) : At(ring_resize(r, n), i) = At(r, i)
<1> DEFINE w == ring_resize(r, n)
           T == Byte \cup {Junk}
           B == r.buf  S == r.size  s == r.start  e == r.end
           k == S - s
           b1 == memcpy(malloc(n), 0, B, s, k)
<1>0. /\ n \in Nat \ {0} /\ S \in Nat /\ s \in Nat /\ e \in Nat /\ n > S
      /\ (S = 0 /\ s = 0 /\ e = 0) \/ (s < S /\ e < S)
      /\ B \in [0 .. S - 1 -> T]
  BY SizesAssumption DEF RingOK
<1>1. malloc(n) = [i \in 0 .. n - 1 |-> Junk]
  BY DEF malloc
<1>2. /\ \A i \in Nat : At(r, i) = IF s + i - 1 < S THEN B[s + i - 1]
                                                  ELSE B[s + i - 1 - S]
      /\ shl_ring_length(r) = IF e >= s THEN e - s ELSE e + k
  BY <1>0, AtLemma, LengthLemma
<1>3. /\ w = [buf |-> w.buf, size |-> w.size, start |-> w.start, end |-> w.end]
      /\ w.size = n /\ w.start = 0
      /\ w.end = IF e = s THEN 0 ELSE IF e > s THEN e - s ELSE e + k
      /\ w.buf = IF e = s THEN malloc(n)
                 ELSE IF e > s THEN memcpy(malloc(n), 0, B, s, e - s)
                 ELSE memcpy(b1, k, B, 0, e)
  BY DEF ring_resize
<1> HIDE DEF w, B, S, s, e
<1>4. /\ \A i \in 1 .. n : At(w, i) = w.buf[i - 1]
      /\ shl_ring_length(w) = w.end
  <2>1. w.end \in Nat /\ w.size \in Nat /\ w.start \in Nat
    BY <1>0, <1>3
  <2>2. shl_ring_length(w) = w.end
    BY <1>3, <2>1, LengthLemma
  <2>3. ASSUME NEW i \in 1 .. n
        PROVE  At(w, i) = w.buf[i - 1]
    <3>1. i \in Nat /\ w.start + i - 1 < w.size /\ w.start + i - 1 = i - 1
      BY <1>0, <1>3
    <3>2. At(w, i) = w.buf[w.start + i - 1]
      BY <2>1, <3>1, AtLemma
    <3>3. QED
      BY <3>1, <3>2
  <2>4. QED
    BY <2>2, <2>3
<1>5. /\ shl_ring_length(w) = shl_ring_length(r)
      /\ shl_ring_length(r) \in 0 .. S
  BY <1>0, <1>2, <1>3, <1>4
<1>6. w.buf \in [0 .. n - 1 -> T]
  <2>1. CASE e = s
    BY <2>1, <1>1, <1>3
  <2>2. CASE e > s
    BY <2>2, <1>0, <1>1, <1>3 DEF memcpy
  <2>3. CASE e < s
    <3>1. b1 \in [0 .. n - 1 -> T]
      BY <2>3, <1>0, <1>1 DEF memcpy
    <3> HIDE DEF b1
    <3>2. QED
      BY <3>1, <2>3, <1>0, <1>3 DEF memcpy
  <2>4. QED
    BY <2>1, <2>2, <2>3, <1>0
<1>7. ASSUME NEW i \in 1 .. shl_ring_length(r)
      PROVE  At(w, i) = At(r, i)
  <2>0. i - 1 \in 0 .. n - 1 /\ At(w, i) = w.buf[i - 1]
    BY <1>0, <1>4, <1>5
  <2>1. CASE e >= s
    <3>1. i - 1 < e - s /\ e > s /\ s + i - 1 < S /\ i \in Nat
      BY <2>1, <1>0, <1>2
    <3>2. w.buf[i - 1] = B[s + (i - 1) - 0]
      BY <3>1, <2>0, <1>0, <1>1, <1>3 DEF memcpy
    <3>3. s + (i - 1) - 0 = s + i - 1
      BY <1>0
    <3>4. At(r, i) = B[s + i - 1]
      BY <3>1, <1>2
    <3>5. QED
      BY <3>2, <3>3, <3>4, <2>0
  <2>2. CASE e < s
    <3>1. b1 = [j \in 0 .. n - 1 |->
                 IF 0 <= j /\ j < 0 + k THEN B[s + j - 0] ELSE malloc(n)[j]]
      BY <1>1 DEF memcpy
    <3>2. w.buf = [j \in 0 .. n - 1 |->
                    IF k <= j /\ j < k + e THEN B[0 + j - k] ELSE b1[j]]
      <4> HIDE DEF b1
      <4>1. QED
        BY <3>1, <2>2, <1>0, <1>3 DEF memcpy
    <3>3. CASE i - 1 < k
      <4> HIDE DEF b1
      <4>1. w.buf[i - 1] = B[s + (i - 1) - 0]
        BY <3>1, <3>2, <3>3, <2>0, <2>2, <1>0
      <4>2. /\ s + (i - 1) - 0 = s + i - 1
            /\ s + i - 1 < S
            /\ i \in Nat
        BY <3>3, <1>0
      <4>3. QED
        BY <4>1, <4>2, <2>0, <1>2
    <3>4. CASE i - 1 >= k
      <4> HIDE DEF b1
      <4>1. i - 1 < k + e /\ s + i - 1 >= S
        BY <3>4, <2>2, <1>0, <1>2
      <4>2. w.buf[i - 1] = B[0 + (i - 1) - k]
        BY <4>1, <3>2, <3>4, <2>0
      <4>3. At(r, i) = B[s + i - 1 - S]
        BY <4>1, <1>0, <1>2
      <4>4. s + i - 1 - S = 0 + (i - 1) - k
        BY <1>0
      <4>5. QED
        BY <4>2, <4>3, <4>4, <2>0
    <3>5. QED
      BY <3>3, <3>4, <1>0
  <2>3. QED
    BY <2>1, <2>2, <1>0
<1>8. QED
  BY <1>0, <1>2, <1>3, <1>5, <1>6, <1>7 DEF RingOK, w, S

\* What a successful shl_ring_push finds once ring_grow has returned.
LEMMA GrowLemma ==
  ASSUME NEW r, RingOK(r), NEW add \in Nat,
         \E mem \in BOOLEAN : ~GrowFails(r, add, mem)
  PROVE  LET g == ring_grow(r, add)
         IN  /\ RingOK(g)
             /\ RingRoom(g) > add
             /\ shl_ring_length(g) = shl_ring_length(r)
             /\ \A i \in 1 .. shl_ring_length(r) : At(g, i) = At(r, i)
<1> DEFINE g == ring_grow(r, add)
           v == r.size + add - RingRoom(r) + 1
<1>1. CASE FitsAsIs(r, add)
  BY <1>1 DEF ring_grow, FitsAsIs
<1>2. CASE ~FitsAsIs(r, add)
  <2>1. /\ r.size \in Nat /\ r.start \in Nat /\ r.end \in Nat
        /\ (r.size = 0 /\ r.start = 0 /\ r.end = 0) \/ (r.start < r.size /\ r.end < r.size)
    BY SizesAssumption DEF RingOK
  <2>2. /\ v = shl_ring_length(r) + add + 1
        /\ v \in Nat
        /\ shl_ring_length(r) \in Nat
    BY <2>1, LengthLemma DEF RingRoom
  <2>3. NewSize(r, add) = ring_pow2(v) /\ ~(NewSize(r, add) <= r.size)
    BY <1>2 DEF GrowFails, NewSize
  <2> HIDE DEF v
  <2>4. NewSize(r, add) \in Sizes /\ NewSize(r, add) >= v /\ NewSize(r, add) > r.size
    <3>1. \/ ring_pow2(v) = 0
          \/ ring_pow2(v) \in Sizes /\ ring_pow2(v) >= v
      BY <2>2, Pow2Lemma
    <3>2. ring_pow2(v) # 0 /\ NewSize(r, add) \in Sizes /\ NewSize(r, add) >= v
      BY <3>1, <2>1, <2>3
    <3>3. NewSize(r, add) \in Nat
      BY <3>2, SizesAssumption
    <3>4. QED
      BY <3>2, <3>3, <2>1, <2>3
  <2>5. g = ring_resize(r, NewSize(r, add))
    BY <1>2 DEF ring_grow
  <2> HIDE DEF g
  <2>6. /\ RingOK(g)
        /\ g.size = NewSize(r, add)
        /\ shl_ring_length(g) = shl_ring_length(r)
        /\ \A i \in 1 .. shl_ring_length(r) : At(g, i) = At(r, i)
    BY <2>4, <2>5, ResizeLemma
  <2>7. /\ g.size \in Nat /\ g.start \in Nat /\ g.end \in Nat
        /\ g.start < g.size /\ g.end < g.size
    BY <2>1, <2>4, <2>6, SizesAssumption DEF RingOK
  <2>8. RingRoom(g) = g.size - shl_ring_length(g)
    BY <2>7, LengthLemma DEF RingRoom
  <2>9. RingRoom(g) > add
    BY <2>2, <2>4, <2>6, <2>7, <2>8
  <2>10. QED
    BY <2>6, <2>9 DEF g
<1>3. QED
  BY <1>1, <1>2

\* Where shl_ring_push puts the bytes, wrapped or not.
LEMMA WriteShape ==
  ASSUME NEW r, RingOK(r), NEW data \in Seq(Byte), RingRoom(r) > Len(data)
  PROVE  LET w == Write(r, data)
         IN  /\ w = [buf |-> w.buf, size |-> r.size, start |-> r.start, end |-> w.end]
             /\ w.end = IF r.end + Len(data) < r.size THEN r.end + Len(data)
                        ELSE r.end + Len(data) - r.size
             /\ w.buf \in [0 .. r.size - 1 -> Byte \cup {Junk}]
             /\ \A j \in 0 .. r.size - 1 :
                  w.buf[j] = IF r.end <= j /\ j < r.end + Len(data)
                               THEN data[1 + j - r.end]
                             ELSE IF j + r.size < r.end + Len(data)
                               THEN data[1 + j + r.size - r.end]
                             ELSE r.buf[j]
<1> DEFINE w == Write(r, data)
           T == Byte \cup {Junk}
           B == r.buf  Z == r.size  s == r.start  e == r.end  len == Len(data)
           l == IF s > e THEN 0 ELSE IF Z - e > len THEN len ELSE Z - e
           mid == IF s > e THEN e ELSE RING_MASK(r, e + l)
           b1 == memcpy(B, e, data, 1, l)
           b2 == memcpy(b1, mid, data, l + 1, len - l)
<1>0. /\ Z \in Nat \ {0} /\ s \in Nat /\ e \in Nat /\ s < Z /\ e < Z
      /\ len \in Nat /\ data \in [1 .. len -> Byte]
      /\ IF e < s THEN s - e > len ELSE s + Z - e > len
      /\ B \in [0 .. Z - 1 -> T]
      /\ r = [buf |-> B, size |-> Z, start |-> s, end |-> e]
  BY SizesAssumption DEF RingOK, RingRoom
<1>1. \A x \in 0 .. Z : RING_MASK(r, x) = IF x = Z THEN 0 ELSE x
  BY <1>0, MaskLemma DEF RING_MASK
<1>2. w = IF len = l THEN [r EXCEPT !.buf = b1, !.end = mid]
          ELSE [r EXCEPT !.buf = b2, !.end = RING_MASK(r, mid + (len - l))]
  BY DEF Write
<1>3. w = IF len = l THEN [buf |-> b1, size |-> Z, start |-> s, end |-> mid]
          ELSE [buf |-> b2, size |-> Z, start |-> s, end |-> RING_MASK(r, mid + (len - l))]
  <2>1. \A x, y : [r EXCEPT !.buf = x, !.end = y]
                 = [buf |-> x, size |-> Z, start |-> s, end |-> y]
    <3> HIDE DEF b1, b2, mid, l, w, len, Z, B, s, e
    <3>1. QED
      BY <1>0
  <2> HIDE DEF b1, b2, mid, l, w, len, Z, B, s, e
  <2>2. CASE len = l
    BY <1>2, <2>1, <2>2
  <2>3. CASE len # l
    BY <1>2, <2>1, <2>3
  <2>4. QED
    BY <2>2, <2>3
<1> HIDE DEF w, B, Z, s, e, len
<1>4. CASE e < s \/ len <= Z - e
  <2>1. /\ w.end = IF e + len < Z THEN e + len ELSE e + len - Z
        /\ w.buf = IF len = l THEN b1 ELSE b2
        /\ w = [buf |-> w.buf, size |-> Z, start |-> s, end |-> w.end]
        /\ len # l => e < s /\ l = 0 /\ mid = e
        /\ len = l \/ l = 0
    <3> HIDE DEF b1, b2
    <3>1. QED
      BY <1>4, <1>0, <1>1, <1>3
  <2>2. b1 = [j \in 0 .. Z - 1 |-> IF e <= j /\ j < e + l THEN data[1 + j - e] ELSE B[j]]
    <3> HIDE DEF l
    <3>1. QED
      BY <1>0 DEF memcpy
  <2>3. w.buf = [j \in 0 .. Z - 1 |-> IF e <= j /\ j < e + len THEN data[1 + j - e] ELSE B[j]]
    <3>1. CASE len = l
      <4> HIDE DEF b1, b2, l
      <4>1. QED
        BY <3>1, <2>1, <2>2
    <3>2. CASE len # l
      <4>1. l = 0 /\ mid = e /\ w.buf = b2
        <5> HIDE DEF b1, b2, l, mid
        <5>1. QED
          BY <3>2, <2>1
      <4> HIDE DEF l, mid
      <4>2. b1 = B
        <5> HIDE DEF b1
        <5>1. QED
          BY <4>1, <2>2, <1>0
      <4>3. b2 = memcpy(B, e, data, 0 + 1, len - 0)
        BY <4>1, <4>2
      <4> HIDE DEF b2, b1
      <4>4. QED
        BY <4>1, <4>3, <1>0 DEF memcpy
    <3>3. QED
      BY <3>1, <3>2
  <2> HIDE DEF b1, b2, l, mid
  <2>4. \A j \in 0 .. Z - 1 : ~(j + Z < e + len)
    BY <1>4, <1>0
  <2>5. w.buf \in [0 .. Z - 1 -> T]
    BY <2>3, <1>0
  <2>6. QED
    BY <2>1, <2>3, <2>4, <2>5 DEF w, B, Z, s, e, len
<1>5. CASE ~(e < s \/ len <= Z - e)
  <2>1. /\ l = Z - e /\ mid = 0 /\ len # l
        /\ w.end = e + len - Z /\ ~(e + len < Z)
        /\ w.buf = b2
        /\ w = [buf |-> w.buf, size |-> Z, start |-> s, end |-> w.end]
    <3> HIDE DEF b1, b2
    <3>1. QED
      BY <1>5, <1>0, <1>1, <1>3
  <2> HIDE DEF l, mid
  <2>2. b1 = [j \in 0 .. Z - 1 |-> IF e <= j /\ j < e + l THEN data[1 + j - e] ELSE B[j]]
    BY <1>0 DEF memcpy
  <2> HIDE DEF b1
  <2>3. w.buf = [j \in 0 .. Z - 1 |-> IF 0 <= j /\ j < 0 + (len - l)
                                      THEN data[l + 1 + j - 0] ELSE b1[j]]
    BY <2>1, <2>2 DEF memcpy
  <2>4. ASSUME NEW j \in 0 .. Z - 1
        PROVE  w.buf[j] = IF e <= j /\ j < e + len THEN data[1 + j - e]
                          ELSE IF j + Z < e + len THEN data[1 + j + Z - e]
                          ELSE B[j]
    <3>1. l + 1 + j - 0 = 1 + j + Z - e
      BY <2>1, <1>0
    <3>2. w.buf[j] = IF j < len - l THEN data[l + 1 + j - 0]
                     ELSE IF e <= j /\ j < e + l THEN data[1 + j - e] ELSE B[j]
      BY <2>1, <2>2, <2>3, <1>0
    <3>3. j < len - l <=> j + Z < e + len
      BY <2>1, <1>0
    <3>4. j < len - l => j < e
      BY <2>1, <1>0, <1>5
    <3>5. j < e + l /\ j < e + len
      BY <2>1, <1>0
    <3>6. QED
      BY <3>1, <3>2, <3>3, <3>4, <3>5, <1>0
  <2>5. w.buf \in [0 .. Z - 1 -> T]
    <3>1. b1 \in [0 .. Z - 1 -> T]
      BY <2>1, <2>2, <1>0, <1>5
    <3>2. ASSUME NEW j \in 0 .. Z - 1, j < len - l
          PROVE  data[l + 1 + j - 0] \in T
      <4>1. l + 1 + j - 0 \in 1 .. len
        BY <3>2, <2>1, <1>0
      <4>2. QED
        BY <4>1, <1>0
    <3>3. ASSUME NEW j \in 0 .. Z - 1
          PROVE  (IF 0 <= j /\ j < 0 + (len - l)
                    THEN data[l + 1 + j - 0] ELSE b1[j]) \in T
      <4>1. CASE j < len - l
        BY <4>1, <3>2, <2>1, <1>0
      <4>2. CASE ~(j < len - l)
        BY <4>2, <3>1, <2>1, <1>0
      <4>3. QED
        BY <4>1, <4>2
    <3>4. QED
      BY <2>3, <3>3
  <2>6. QED
    BY <2>1, <2>4, <2>5 DEF w, B, Z, s, e, len
<1>6. QED
  BY <1>4, <1>5

\* A push appends its bytes and disturbs none of the others.
LEMMA WriteLemma ==
  ASSUME NEW r, RingOK(r), NEW data \in Seq(Byte), RingRoom(r) > Len(data)
  PROVE  LET w == Write(r, data)
             L == shl_ring_length(r)
         IN  /\ RingOK(w)
             /\ shl_ring_length(w) = L + Len(data)
             /\ \A i \in 1 .. L + Len(data) :
                  At(w, i) = IF i <= L THEN At(r, i) ELSE data[i - L]
<1> DEFINE w == Write(r, data)
           T == Byte \cup {Junk}
           B == r.buf  Z == r.size  s == r.start  e == r.end  len == Len(data)
           L == shl_ring_length(r)
<1>0. /\ Z \in Nat \ {0} /\ Z \in Sizes \cup {0}
      /\ s \in Nat /\ e \in Nat /\ s < Z /\ e < Z
      /\ len \in Nat /\ data \in [1 .. len -> Byte]
      /\ IF e < s THEN s - e > len ELSE s + Z - e > len
  BY SizesAssumption DEF RingOK, RingRoom
<1>1. /\ w = [buf |-> w.buf, size |-> Z, start |-> s, end |-> w.end]
      /\ w.end = IF e + len < Z THEN e + len ELSE e + len - Z
      /\ w.buf \in [0 .. Z - 1 -> T]
      /\ \A j \in 0 .. Z - 1 :
           w.buf[j] = IF e <= j /\ j < e + len THEN data[1 + j - e]
                      ELSE IF j + Z < e + len THEN data[1 + j + Z - e]
                      ELSE B[j]
  BY WriteShape
<1>2. /\ L = IF e >= s THEN e - s ELSE e + (Z - s)
      /\ \A i \in Nat : At(r, i) = IF s + i - 1 < Z THEN B[s + i - 1]
                                                  ELSE B[s + i - 1 - Z]
      /\ \A i \in 1 .. L : At(r, i) \in Byte
  BY <1>0, AtLemma, LengthLemma DEF RingOK
<1> HIDE DEF w, B, Z, s, e, len, L
<1>3. w.size = Z /\ w.start = s /\ w.end \in Nat /\ w.end < Z
  BY <1>0, <1>1
<1>4. /\ shl_ring_length(w) = IF w.end >= w.start THEN w.end - w.start
                              ELSE w.end + (w.size - w.start)
      /\ \A i \in Nat : At(w, i) = IF w.start + i - 1 < w.size
                                     THEN w.buf[w.start + i - 1]
                                     ELSE w.buf[w.start + i - 1 - w.size]
  BY <1>0, <1>3, AtLemma, LengthLemma
<1>5. /\ L \in Nat /\ L + len < Z
      /\ shl_ring_length(w) = L + len
  <2>1. /\ w.end = IF e + len < Z THEN e + len ELSE e + len - Z
        /\ shl_ring_length(w) = IF w.end >= s THEN w.end - s ELSE w.end + (Z - s)
        /\ L = IF e >= s THEN e - s ELSE e + (Z - s)
    BY <1>1, <1>2, <1>3, <1>4
  <2>2. CASE e < s
    BY <2>1, <2>2, <1>0
  <2>3. CASE e >= s
    BY <2>1, <2>3, <1>0
  <2>4. QED
    BY <2>2, <2>3, <1>0
<1>6. ASSUME NEW i \in 1 .. L + len
      PROVE  At(w, i) = IF i <= L THEN At(r, i) ELSE data[i - L]
  <2> DEFINE p == IF s + i - 1 < Z THEN s + i - 1 ELSE s + i - 1 - Z
  <2>1. p \in 0 .. Z - 1 /\ i \in Nat
    BY <1>0, <1>5
  <2>2. At(w, i) = w.buf[p]
    BY <2>1, <1>3, <1>4
  <2>3. CASE i <= L
    <3>1. ~(e <= p /\ p < e + len) /\ ~(p + Z < e + len)
      BY <2>3, <1>0, <1>2, <1>5
    <3>2. At(r, i) = B[p]
      BY <2>1, <1>2
    <3> HIDE DEF p
    <3>3. QED
      BY <2>1, <2>2, <2>3, <3>1, <3>2, <1>1
  <2>4. CASE i > L
    <3>1. \/ e <= p /\ p < e + len /\ 1 + p - e = i - L
          \/ p < e /\ p + Z < e + len /\ 1 + p + Z - e = i - L
      BY <2>4, <1>0, <1>2, <1>5
    <3>2. p \in Int /\ ~(i <= L)
      BY <2>1, <2>4, <1>5
    <3> HIDE DEF p
    <3>3. CASE e <= p /\ p < e + len /\ 1 + p - e = i - L
      BY <2>1, <2>2, <3>2, <3>3, <1>0, <1>1
    <3>4. CASE p < e /\ p + Z < e + len /\ 1 + p + Z - e = i - L
      <4>1. ~(e <= p)
        BY <3>2, <3>4, <1>0
      <4>2. w.buf[p] = data[1 + p + Z - e]
        BY <4>1, <2>1, <3>4, <1>1
      <4>3. QED
        BY <4>2, <2>2, <3>2, <3>4
    <3>5. QED
      BY <3>1, <3>3, <3>4
  <2>5. QED
    BY <2>3, <2>4, <1>5
<1>7. ASSUME NEW i \in 1 .. L + len
      PROVE  At(w, i) \in Byte
  <2>1. CASE i <= L
    BY <2>1, <1>2, <1>5, <1>6
  <2>2. CASE i > L
    <3>1. i - L \in 1 .. len /\ ~(i <= L)
      BY <2>2, <1>0, <1>5
    <3>2. QED
      BY <3>1, <1>0, <1>6
  <2>3. QED
    BY <2>1, <2>2, <1>5
<1>8. RingOK(w)
  BY <1>0, <1>1, <1>3, <1>5, <1>7 DEF RingOK
<1>9. QED
  BY <1>5, <1>6, <1>8 DEF w, L, len

\* A pull moves start over the bytes it drops and leaves the others in place.
LEMMA PullLemma ==
  ASSUME NEW r, RingOK(r), NEW n \in Nat
  PROVE  LET w == shl_ring_pull(r, n)
             L == shl_ring_length(r)
             d == IF n < L THEN n ELSE L
         IN  /\ RingOK(w)
             /\ L \in Nat
             /\ shl_ring_length(w) = L - d
             /\ \A i \in 1 .. L - d : At(w, i) = At(r, i + d)
<1> DEFINE w == shl_ring_pull(r, n)
           B == r.buf  Z == r.size  s == r.start  e == r.end
           L == shl_ring_length(r)
           d == IF n < L THEN n ELSE L
           l1 == IF s <= e THEN 0 ELSE IF Z - s > n THEN n ELSE Z - s
           s1 == IF s <= e THEN s ELSE RING_MASK(r, s + l1)
           l2 == IF e - s1 > n - l1 THEN n - l1 ELSE e - s1
           ns == IF n = l1 THEN s1 ELSE RING_MASK(r, s1 + l2)
<1>0. /\ Z \in Nat /\ Z \in Sizes \cup {0} /\ s \in Nat /\ e \in Nat
      /\ (Z = 0 /\ s = 0 /\ e = 0) \/ (s < Z /\ e < Z)
      /\ B \in [0 .. Z - 1 -> Byte \cup {Junk}]
      /\ r = [buf |-> B, size |-> Z, start |-> s, end |-> e]
  BY SizesAssumption DEF RingOK
<1>1. \A x \in 0 .. Z : RING_MASK(r, x) = IF x = Z THEN 0 ELSE x
  BY <1>0, MaskLemma DEF RING_MASK
<1>2. /\ L = IF e >= s THEN e - s ELSE e + (Z - s)
      /\ \A i \in Nat : At(r, i) = IF s + i - 1 < Z THEN B[s + i - 1]
                                                  ELSE B[s + i - 1 - Z]
      /\ \A i \in 1 .. L : At(r, i) \in Byte
  BY <1>0, AtLemma, LengthLemma DEF RingOK
<1>3. w = [r EXCEPT !.start = ns]
  BY DEF shl_ring_pull
<1>4. w = [buf |-> B, size |-> Z, start |-> ns, end |-> e]
  <2>1. \A x : [r EXCEPT !.start = x] = [buf |-> B, size |-> Z, start |-> x, end |-> e]
    <3> HIDE DEF w, B, Z, s, e, L, d, l1, s1, l2, ns
    <3>1. QED
      BY <1>0
  <2> HIDE DEF w, B, Z, s, e, L, d, l1, s1, l2, ns
  <2>2. QED
    BY <1>3, <2>1
<1> HIDE DEF w, B, Z, s, e, L
<1>5. /\ L \in Nat /\ d \in 0 .. L
      /\ ns = IF s + d < Z \/ Z = 0 THEN s + d ELSE s + d - Z
  <2>1. CASE s <= e
    <3>1. l1 = 0 /\ s1 = s /\ L = e - s
      BY <2>1, <1>0, <1>2
    <3> HIDE DEF l1, s1
    <3>2. l2 = (IF e - s > n THEN n ELSE e - s) /\ s + l2 \in 0 .. Z
          /\ d = l2 /\ L \in Nat /\ d \in 0 .. L
      BY <3>1, <2>1, <1>0
    <3> HIDE DEF l2, d
    <3>3. QED
      BY <3>1, <3>2, <2>1, <1>0, <1>1
  <2>2. CASE s > e
    <3>0. Z # 0 /\ L = e + (Z - s) /\ L \in Nat /\ d \in 0 .. L
      BY <2>2, <1>0, <1>2
    <3>1. CASE Z - s >= n
      <4>1. l1 = n /\ d = n /\ s + n \in 0 .. Z
        BY <3>0, <3>1, <2>2, <1>0
      <4>2. s1 = IF s + n = Z THEN 0 ELSE s + n
        <5> HIDE DEF l1
        <5>1. QED
          BY <4>1, <2>2, <1>0, <1>1
      <4> HIDE DEF l1, s1, d, l2
      <4>3. QED
        BY <3>0, <4>1, <4>2, <1>0
    <3>2. CASE Z - s < n
      <4>1. l1 = Z - s /\ n # l1
        BY <3>2, <2>2, <1>0
      <4>2. s1 = 0
        <5> HIDE DEF l1
        <5>1. QED
          BY <4>1, <2>2, <1>0, <1>1
      <4> HIDE DEF l1, s1
      <4>3. /\ l2 = IF e > n - (Z - s) THEN n - (Z - s) ELSE e
            /\ l2 \in 0 .. Z /\ l2 # Z
            /\ d = Z - s + l2
        BY <3>0, <3>2, <4>1, <4>2, <2>2, <1>0
      <4> HIDE DEF l2, d
      <4>4. QED
        BY <3>0, <4>1, <4>2, <4>3, <1>0, <1>1
    <3>3. QED
      BY <3>1, <3>2, <1>0
  <2>3. QED
    BY <2>1, <2>2, <1>0
<1> HIDE DEF ns, d, l1, s1, l2
<1>6. /\ w.start = ns /\ w.size = Z /\ w.end = e /\ w.buf = B
      /\ ns \in Nat
      /\ (Z = 0 /\ ns = 0 /\ e = 0) \/ (ns < Z /\ e < Z)
  BY <1>0, <1>2, <1>4, <1>5
<1>7. /\ shl_ring_length(w) = IF w.end >= w.start THEN w.end - w.start
                              ELSE w.end + (w.size - w.start)
      /\ \A i \in Nat : At(w, i) = IF w.start + i - 1 < w.size
                                     THEN w.buf[w.start + i - 1]
                                     ELSE w.buf[w.start + i - 1 - w.size]
  BY <1>0, <1>6, AtLemma, LengthLemma
<1>8. shl_ring_length(w) = L - d
  BY <1>0, <1>2, <1>5, <1>6, <1>7
<1>9. ASSUME NEW i \in 1 .. L - d
      PROVE  At(w, i) = At(r, i + d) /\ At(w, i) \in Byte
  <2>1. /\ i \in Nat /\ i + d \in Nat /\ i + d \in 1 .. L
        /\ (IF ns + i - 1 < Z THEN ns + i - 1 ELSE ns + i - 1 - Z)
           = (IF s + (i + d) - 1 < Z THEN s + (i + d) - 1 ELSE s + (i + d) - 1 - Z)
    BY <1>0, <1>2, <1>5
  <2>2. At(w, i) = B[IF ns + i - 1 < Z THEN ns + i - 1 ELSE ns + i - 1 - Z]
    BY <2>1, <1>6, <1>7
  <2>3. At(r, i + d) = B[IF s + (i + d) - 1 < Z THEN s + (i + d) - 1
                                               ELSE s + (i + d) - 1 - Z]
    BY <2>1, <1>2
  <2>4. QED
    BY <2>1, <2>2, <2>3, <1>2
<1>10. RingOK(w)
  BY <1>0, <1>4, <1>6, <1>8, <1>9 DEF RingOK
<1>11. QED
  BY <1>5, <1>8, <1>9, <1>10 DEF w, L, d

\* The bytes gathered from the one or two stretches are the first unread ones.
LEMMA CopyLemma ==
  ASSUME NEW r, RingOK(r), NEW n \in Nat
  PROVE  LET L == shl_ring_length(r)
         IN  shl_ring_copy(r, n) =
               [i \in 1 .. (IF n < L THEN n ELSE L) |-> At(r, i)]
<1> DEFINE B == r.buf  Z == r.size  s == r.start  e == r.end
           L == shl_ring_length(r)
           vec == shl_ring_peek(r)
           l1  == IF vec = <<>> THEN 0 ELSE vec[1].len
           all == IF Len(vec) = 2 THEN l1 + vec[2].len ELSE l1
           d   == IF n < L THEN n ELSE L
           byte(i) == IF i <= l1 THEN B[vec[1].base + i - 1]
                                 ELSE B[vec[2].base + i - 1 - l1]
<1>0. /\ Z \in Nat /\ s \in Nat /\ e \in Nat
      /\ (Z = 0 /\ s = 0 /\ e = 0) \/ (s < Z /\ e < Z)
  BY SizesAssumption DEF RingOK
<1>1. /\ L = IF e >= s THEN e - s ELSE e + (Z - s)
      /\ \A i \in Nat : At(r, i) = IF s + i - 1 < Z THEN B[s + i - 1]
                                                  ELSE B[s + i - 1 - Z]
  BY <1>0, AtLemma, LengthLemma
<1>2. shl_ring_copy(r, n) = [i \in 1 .. (IF n < all THEN n ELSE all) |-> byte(i)]
  BY DEF shl_ring_copy
<1>3. /\ e > s => vec = <<[base |-> s, len |-> e - s]>>
      /\ e < s /\ e = 0 => vec = <<[base |-> s, len |-> Z - s]>>
      /\ e < s /\ e # 0 => vec = <<[base |-> s, len |-> Z - s], [base |-> 0, len |-> e]>>
      /\ e = s => vec = <<>>
  BY <1>0 DEF shl_ring_peek
<1> HIDE DEF B, Z, s, e, L, vec
<1>4. all = L /\ L \in Nat
  <2>1. CASE e > s
    <3>1. Len(vec) = 1 /\ vec # <<>> /\ vec[1].len = e - s
      BY <2>1, <1>3
    <3>2. all = e - s
      <4>1. l1 = e - s
        BY <3>1
      <4> HIDE DEF l1
      <4>2. QED
        BY <3>1, <4>1
    <3> HIDE DEF all, l1
    <3>3. QED
      BY <3>2, <2>1, <1>0, <1>1
  <2>2. CASE e < s /\ e = 0
    <3>1. Len(vec) = 1 /\ vec # <<>> /\ vec[1].len = Z - s
      BY <2>2, <1>3
    <3>2. all = Z - s
      <4>1. l1 = Z - s
        BY <3>1
      <4> HIDE DEF l1
      <4>2. QED
        BY <3>1, <4>1
    <3> HIDE DEF all, l1
    <3>3. QED
      BY <3>2, <2>2, <1>0, <1>1
  <2>3. CASE e < s /\ e # 0
    <3>1. Len(vec) = 2 /\ vec # <<>> /\ vec[1].len = Z - s /\ vec[2].len = e
      BY <2>3, <1>3
    <3>2. all = (Z - s) + e
      <4>1. l1 = Z - s
        BY <3>1
      <4> HIDE DEF l1
      <4>2. QED
        BY <3>1, <4>1
    <3> HIDE DEF all, l1
    <3>3. QED
      BY <3>2, <2>3, <1>0, <1>1
  <2>4. CASE e = s
    BY <2>4, <1>0, <1>1, <1>3
  <2>5. QED
    BY <2>1, <2>2, <2>3, <2>4, <1>0
<1>5. ASSUME NEW i \in 1 .. d
      PROVE  byte(i) = At(r, i)
  <2>0. i \in Nat /\ i > 0 /\ i <= L
    BY <1>4
  <2>1. CASE e > s
    <3>1. l1 = e - s /\ vec[1].base = s
      BY <2>1, <1>0, <1>3
    <3>2. i <= l1 /\ s + i - 1 < Z
      <4> HIDE DEF l1
      <4>1. QED
        BY <3>1, <2>0, <2>1, <1>0, <1>1
    <3> HIDE DEF l1
    <3>3. QED
      BY <3>1, <3>2, <2>0, <1>1
  <2>2. CASE e < s
    <3>1. l1 = Z - s /\ vec[1].base = s /\ (e # 0 => vec[2].base = 0)
      BY <2>2, <1>0, <1>3
    <3> HIDE DEF l1
    <3>2. CASE i <= l1
      <4>1. s + i - 1 < Z
        BY <3>1, <3>2, <2>0, <1>0
      <4>2. QED
        BY <3>1, <3>2, <4>1, <2>0, <1>1
    <3>3. CASE ~(i <= l1)
      <4>1. /\ e # 0 /\ ~(s + i - 1 < Z) /\ s + i - 1 - Z = 0 + i - 1 - l1
        BY <3>1, <3>3, <2>0, <2>2, <1>0, <1>1
      <4>2. QED
        BY <3>1, <3>3, <4>1, <2>0, <1>1
    <3>4. QED
      BY <3>2, <3>3
  <2>3. CASE e = s
    BY <2>0, <2>3, <1>0, <1>1
  <2>4. QED
    BY <2>1, <2>2, <2>3, <1>0
<1> HIDE DEF all, byte
<1>6. QED
  BY <1>2, <1>4, <1>5 DEF L

\* What the abstract FIFO sees of a ring.
LEMMA ContentLemma ==
  ASSUME NEW r, RingOK(r)
  PROVE  /\ shl_ring_length(r) \in Nat
         /\ Content(r) \in Seq(Byte)
         /\ Len(Content(r)) = shl_ring_length(r)
         /\ \A i \in 1 .. shl_ring_length(r) : Content(r)[i] = At(r, i)
<1>1. shl_ring_length(r) \in Nat
  <2>1. 0 \in Nat
    OBVIOUS
  <2>2. QED
    BY <2>1, PullLemma
<1>2. \A i \in 1 .. shl_ring_length(r) : At(r, i) \in Byte
  BY DEF RingOK
<1>3. QED
  BY <1>1, <1>2 DEF Content

-----------------------------------------------------------------------------
\* The inductive invariant: the ring is well formed, every unread byte is one
\* that was pushed, and a copy hands out nothing else.
IInv == RingOK(ring) /\ copied \in Seq(Byte)

\* A zeroed struct shl_ring is an empty ring.
LEMMA NullLemma == RingOK(NullRing) /\ shl_ring_length(NullRing) = 0
<1>1. NullRing = [buf |-> malloc(0), size |-> 0, start |-> 0, end |-> 0]
  BY DEF NullRing
<1>2. malloc(0) \in [0 .. 0 - 1 -> Byte \cup {Junk}]
  BY DEF malloc
<1>3. shl_ring_length(NullRing) = 0
  BY <1>1 DEF shl_ring_length
<1>4. QED
  BY <1>1, <1>2, <1>3 DEF RingOK

\* The invariant holds of the zeroed ring.
LEMMA InitOK == Init => IInv
BY NullLemma DEF Init, IInv

\* Pushing keeps the ring well formed and appends to its content.
LEMMA PushOK ==
  ASSUME RingOK(ring), NEW data \in Chunks,
         \E mem \in BOOLEAN : ~GrowFails(ring, Len(data), mem)
  PROVE  /\ RingOK(shl_ring_push(ring, data))
         /\ Content(shl_ring_push(ring, data)) = Content(ring) \o data
<1> DEFINE g == ring_grow(ring, Len(data))
           w == Write(g, data)
           L == shl_ring_length(ring)
<1>1. data \in Seq(Byte) /\ Len(data) \in Nat
  BY CallerAssumption
<1>2. /\ RingOK(g) /\ RingRoom(g) > Len(data) /\ shl_ring_length(g) = L
      /\ \A i \in 1 .. L : At(g, i) = At(ring, i)
  BY <1>1, GrowLemma
<1>3. shl_ring_push(ring, data) = w
  BY DEF shl_ring_push
<1> HIDE DEF g
<1>4. /\ RingOK(w)
      /\ shl_ring_length(w) = L + Len(data)
      /\ \A i \in 1 .. L + Len(data) :
           At(w, i) = IF i <= L THEN At(g, i) ELSE data[i - L]
  BY <1>1, <1>2, WriteLemma
<1> HIDE DEF w
<1>5. /\ L \in Nat /\ Content(ring) \in Seq(Byte) /\ Len(Content(ring)) = L
      /\ \A i \in 1 .. L : Content(ring)[i] = At(ring, i)
      /\ Content(w) \in Seq(Byte) /\ Len(Content(w)) = L + Len(data)
      /\ \A i \in 1 .. L + Len(data) : Content(w)[i] = At(w, i)
  BY <1>4, ContentLemma
<1> HIDE DEF L
<1>6. /\ Content(ring) \o data \in Seq(Byte)
      /\ Len(Content(ring) \o data) = L + Len(data)
      /\ \A i \in 1 .. L + Len(data) : (Content(ring) \o data)[i] =
           IF i <= L THEN Content(ring)[i] ELSE data[i - L]
  BY <1>1, <1>5, ConcatProperties
<1>7. \A i \in 1 .. L + Len(data) : Content(w)[i] = (Content(ring) \o data)[i]
  BY <1>1, <1>2, <1>4, <1>5, <1>6
<1>8. Content(w) = Content(ring) \o data
  BY <1>5, <1>6, <1>7, SeqEqual
<1>9. QED
  BY <1>3, <1>4, <1>8

\* Pulling keeps the ring well formed and drops a prefix of its content.
LEMMA PullOK ==
  ASSUME RingOK(ring), NEW n \in Lengths
  PROVE  /\ RingOK(shl_ring_pull(ring, n))
         /\ Content(shl_ring_pull(ring, n)) = Fifo!Drop(Content(ring), n)
<1> DEFINE w == shl_ring_pull(ring, n)
           L == shl_ring_length(ring)
           q == Content(ring)
           d == IF n < L THEN n ELSE L
<1>1. n \in Nat
  BY CallerAssumption
<1>2. /\ RingOK(w) /\ L \in Nat /\ shl_ring_length(w) = L - d
      /\ \A i \in 1 .. L - d : At(w, i) = At(ring, i + d)
  BY <1>1, PullLemma
<1> HIDE DEF w
<1>3. /\ q \in Seq(Byte) /\ Len(q) = L
      /\ \A i \in 1 .. L : q[i] = At(ring, i)
      /\ Content(w) \in Seq(Byte) /\ Len(Content(w)) = L - d
      /\ \A i \in 1 .. L - d : Content(w)[i] = At(w, i)
  BY <1>2, ContentLemma
<1>4. Fifo!Drop(q, n) = IF n >= Len(q) THEN <<>> ELSE SubSeq(q, n + 1, Len(q))
  BY DEF Fifo!Drop
<1> HIDE DEF L, q
<1>5. CASE n >= L
  <2>1. Len(Content(w)) = 0
    BY <1>1, <1>2, <1>3, <1>5
  <2>2. Content(w) = <<>>
    BY <2>1, <1>3, EmptySeq
  <2>3. QED
    BY <2>2, <1>2, <1>3, <1>4, <1>5 DEF w, q
<1>6. CASE n < L
  <2>1. d = n /\ L - d = L - (n + 1) + 1 /\ n + 1 \in Int /\ L \in Int /\ n + 1 <= L
        /\ \A i \in n + 1 .. L : q[i] \in Byte
    BY <1>1, <1>2, <1>3, <1>6
  <2> HIDE DEF d
  <2>2. /\ SubSeq(q, n + 1, L) \in Seq(Byte)
        /\ Len(SubSeq(q, n + 1, L)) = L - (n + 1) + 1
        /\ \A i \in 1 .. L - (n + 1) + 1 : SubSeq(q, n + 1, L)[i] = q[n + 1 + i - 1]
    BY <2>1, SubSeqProperties
  <2>3. ASSUME NEW i \in 1 .. L - d
        PROVE  Content(w)[i] = SubSeq(q, n + 1, L)[i]
    <3>1. n + 1 + i - 1 = i + d /\ i + d \in 1 .. L
      BY <2>1, <1>1, <1>2
    <3>2. QED
      BY <3>1, <2>1, <2>2, <1>2, <1>3
  <2>4. Content(w) = SubSeq(q, n + 1, L)
    BY <2>1, <2>2, <2>3, <1>3, SeqEqual
  <2>5. QED
    BY <2>4, <1>1, <1>2, <1>3, <1>4, <1>6 DEF w, q
<1>7. QED
  BY <1>1, <1>2, <1>5, <1>6

\* Copying reads a prefix of the content.
LEMMA CopyOK ==
  ASSUME RingOK(ring), NEW n \in Lengths
  PROVE  /\ shl_ring_copy(ring, n) \in Seq(Byte)
         /\ shl_ring_copy(ring, n) = Fifo!Take(Content(ring), n)
<1> DEFINE L == shl_ring_length(ring)
           q == Content(ring)
           d == IF n < L THEN n ELSE L
           c == shl_ring_copy(ring, n)
<1>1. n \in Nat
  BY CallerAssumption
<1>2. c = [i \in 1 .. d |-> At(ring, i)]
  BY <1>1, CopyLemma
<1>3. /\ L \in Nat /\ q \in Seq(Byte) /\ Len(q) = L
      /\ \A i \in 1 .. L : q[i] = At(ring, i)
  BY ContentLemma
<1>4. Fifo!Take(q, n) = IF n >= Len(q) THEN q ELSE SubSeq(q, 1, n)
  BY DEF Fifo!Take
<1> HIDE DEF c, L, q
<1>5. /\ d \in Nat /\ c \in Seq(Byte) /\ Len(c) = d
      /\ \A i \in 1 .. d : c[i] = q[i]
  BY <1>1, <1>2, <1>3
<1>6. CASE n >= L
  <2>1. d = L
    BY <1>1, <1>3, <1>6
  <2>2. c = q
    BY <2>1, <1>3, <1>5, SeqEqual
  <2>3. QED
    BY <2>2, <1>3, <1>4, <1>5, <1>6 DEF c, q
<1>7. CASE n < L
  <2>1. d = n /\ 1 \in Int /\ n \in Int /\ \A i \in 1 .. n : q[i] \in Byte
    BY <1>1, <1>3, <1>7
  <2> HIDE DEF d
  <2>2. /\ SubSeq(q, 1, n) \in Seq(Byte)
        /\ Len(SubSeq(q, 1, n)) = IF 1 <= n THEN n - 1 + 1 ELSE 0
        /\ \A i \in 1 .. n - 1 + 1 : SubSeq(q, 1, n)[i] = q[1 + i - 1]
    BY <2>1, SubSeqProperties
  <2>3. Len(SubSeq(q, 1, n)) = n /\ \A i \in 1 .. n : SubSeq(q, 1, n)[i] = q[i]
    BY <2>2, <1>1
  <2>4. c = SubSeq(q, 1, n)
    BY <2>1, <2>2, <2>3, <1>5, SeqEqual
  <2>5. QED
    BY <2>4, <1>1, <1>3, <1>4, <1>5, <1>7 DEF c, q
<1>8. QED
  BY <1>1, <1>3, <1>6, <1>7

-----------------------------------------------------------------------------
\* Every step preserves the inductive invariant and is a step of the FIFO.
LEMMA StepOK ==
  ASSUME IInv, [Next]_vars
  PROVE  IInv' /\ [Fifo!Next]_(Fifo!vars)
<1> USE DEF IInv
<1> DEFINE G == IInv' /\ [Fifo!Next]_(Fifo!vars)
<1>0. ASSUME NEW r, shl_ring_length(r) = 0
      PROVE  Content(r) = <<>>
  BY <1>0 DEF Content
<1>1. ASSUME NEW data \in Chunks, Push(data) PROVE G
  <2>1. /\ RingOK(ring') /\ Content(ring') = Content(ring) \o data
        /\ copied' = copied /\ call' = <<"push", data>>
    BY <1>1, PushOK DEF Push
  <2>2. Fifo!Push(data)
    BY <2>1 DEF Fifo!Push, Content
  <2>3. QED
    BY <2>1, <2>2 DEF Fifo!Next
<1>2. ASSUME NEW data \in Chunks, PushNoMem(data) PROVE G
  <2>1. ring' = ring /\ copied' = copied /\ call' = <<"nomem", data>>
    BY <1>2 DEF PushNoMem
  <2>2. Fifo!PushNoMem(data)
    BY <2>1 DEF Fifo!PushNoMem
  <2>3. QED
    BY <2>1, <2>2 DEF Fifo!Next
<1>3. ASSUME NEW n \in Lengths, Pull(n) PROVE G
  <2>1. /\ RingOK(ring') /\ Content(ring') = Fifo!Drop(Content(ring), n)
        /\ copied' = copied /\ call' = <<"pull", n>>
    BY <1>3, PullOK DEF Pull
  <2>2. Fifo!Pull(n)
    BY <2>1 DEF Fifo!Pull, Content
  <2>3. QED
    BY <2>1, <2>2 DEF Fifo!Next
<1>4. ASSUME NEW n \in Lengths, Copy(n) PROVE G
  <2>1. /\ copied' \in Seq(Byte) /\ copied' = Fifo!Take(Content(ring), n)
        /\ ring' = ring /\ call' = <<"copy", n>>
    BY <1>4, CopyOK DEF Copy
  <2>2. Fifo!Copy(n)
    BY <2>1 DEF Fifo!Copy
  <2>3. QED
    BY <2>1, <2>2 DEF Fifo!Next
<1>5. CASE Flush
  <2>1. ring' = [ring EXCEPT !.start = 0, !.end = 0] /\ copied' = copied
        /\ call' = <<"empty", 0>>
    BY <1>5 DEF Flush, shl_ring_flush
  <2>2. ring' = [buf |-> ring.buf, size |-> ring.size, start |-> 0, end |-> 0]
    BY <2>1 DEF RingOK
  <2>3. shl_ring_length(ring') = 0
    BY <2>2 DEF shl_ring_length
  <2>4. ring.size = 0 \/ 0 < ring.size
    BY SizesAssumption DEF RingOK
  <2>5. RingOK(ring')
    BY <2>2, <2>3, <2>4 DEF RingOK
  <2>6. Fifo!Empty
    BY <2>1, <2>3, <1>0 DEF Fifo!Empty
  <2>7. QED
    BY <2>1, <2>5, <2>6 DEF Fifo!Next
<1>6. CASE Clear
  <2>1. ring' = NullRing /\ copied' = copied /\ call' = <<"empty", 0>>
    BY <1>6 DEF Clear, shl_ring_clear
  <2>2. RingOK(NullRing) /\ shl_ring_length(NullRing) = 0
    BY NullLemma
  <2>3. Fifo!Empty
    BY <2>1, <2>2, <1>0 DEF Fifo!Empty
  <2>4. QED
    BY <2>1, <2>2, <2>3 DEF Fifo!Next
<1>7. CASE UNCHANGED vars
  BY <1>7 DEF vars, Fifo!vars
<1>8. QED
  BY <1>1, <1>2, <1>3, <1>4, <1>5, <1>6, <1>7 DEF Next

\* What the invariant says in the terms the runs check.
LEMMA InvImplies == IInv => TypeOK /\ NoJunkRead
<1>1. SUFFICES ASSUME IInv PROVE TypeOK /\ NoJunkRead
  OBVIOUS
<1>2. copied \in Seq(Byte \cup {Junk})
  BY <1>1, SeqMonotonic DEF IInv
<1>3. ring.size \in Nat
  BY <1>1, SizesAssumption DEF IInv, RingOK
<1>4. ring \in [buf   : [0 .. ring.size - 1 -> Byte \cup {Junk}],
                size  : Nat, start : Nat, end : Nat]
  BY <1>1, <1>3 DEF IInv, RingOK
<1>5. QED
  BY <1>1, <1>2, <1>4 DEF IInv, RingOK, TypeOK, InBounds, NoJunkRead

\* For every byte set, every set of block sizes and every caller: the ring is
\* well formed, its indexes are inside the block and no unread byte is
\* uninitialised memory, after any sequence of push, pull, flush, clear and copy
\* of shl_ring.c.
THEOREM RingSafety == Spec => [](TypeOK /\ NoJunkRead)
<1>1. Init => IInv
  BY InitOK
<1>2. IInv /\ [Next]_vars => IInv'
  BY StepOK
<1>3. IInv => TypeOK /\ NoJunkRead
  BY InvImplies
<1>4. QED
  BY <1>1, <1>2, <1>3, PTL DEF Spec

\* For every byte set, every set of block sizes and every caller, both indexes of
\* shl_ring.c stay inside the block and no unread byte is uninitialised memory.
THEOREM RingNoJunk == Spec => []NoJunkRead
BY RingSafety, PTL

\* For every caller, shl_ring.c implements the FIFO of RingFifo: what is read is
\* what was pushed, in order, with nothing lost, duplicated or invented, across
\* wraps, resizes and failed pushes.
THEOREM RingRefinement == Spec => ImplementsFifo
<1>1. Init => IInv /\ Fifo!Init
  <2>1. SUFFICES ASSUME Init PROVE IInv /\ Fifo!Init
    OBVIOUS
  <2>2. shl_ring_length(ring) = 0
    BY <2>1, NullLemma DEF Init
  <2>3. Content(ring) = <<>>
    BY <2>2 DEF Content
  <2>4. QED
    BY <2>1, <2>3, InitOK DEF Init, Fifo!Init
<1>2. IInv /\ [Next]_vars => IInv' /\ [Fifo!Next]_(Fifo!vars)
  BY StepOK
<1>3. QED
  BY <1>1, <1>2, PTL DEF Spec, ImplementsFifo, Fifo!Spec

=============================================================================

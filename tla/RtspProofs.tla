----------------------------- MODULE RtspProofs -----------------------------
(***************************************************************************)
(* Proofs about RtspTokenizer and RtspCtrl.                                *)
(*                                                                         *)
(* RtspTokenizer: of a line of words, separators, blanks and strings the   *)
(* tokens are the ones that were meant, and for every line of characters   *)
(* what is written fits into the block, but for the escape \0, which may   *)
(* move it to the front.  Induction over a text is by the least-element    *)
(* principle on sets of naturals; a fold is turned into the trace of the   *)
(* states between two characters.                                          *)
(*                                                                         *)
(* RtspCtrl, for any number of connections, rounds and queued bytes.  The  *)
(* inductive invariant adds to the properties why they hold: a closed      *)
(* channel is clean, connections are numbered in the order in which they   *)
(* are opened, and a connection is reported exactly when it becomes        *)
(* connected.                                                              *)
(***************************************************************************)
EXTENDS RtspCtrl, RtspTokenizer, SequenceTheorems, WellFoundedInduction, TLAPS

\* Induction over the naturals, for a set.
LEMMA SetInduction ==
  ASSUME NEW T, T \subseteq Nat, 0 \in T, \A n \in T : n + 1 \in T
  PROVE  Nat = T
<1> SUFFICES ASSUME Nat \ T # {} PROVE FALSE
  OBVIOUS
<1>1. PICK x \in Nat \ T : \A y \in Nat \ T : ~(<<y, x>> \in OpToRel(<, Nat))
  BY NatLessThanWellFounded, WFMin
<1>2. x \in Nat /\ x # 0 /\ x - 1 \in Nat /\ x = (x - 1) + 1
  OBVIOUS
<1>3. x - 1 \in Nat \ T
  BY <1>2
<1>4. ~(x - 1 < x)
  BY <1>1, <1>2, <1>3 DEF OpToRel
<1>5. QED
  BY <1>2, <1>4

\* The largest element of an interval and of a set that ends with k.
LEMMA MaxLast ==
  ASSUME NEW k \in Nat, NEW x, x \subseteq 1 .. k, k \in x
  PROVE  Max(x) = k
<1>1. \A y \in x : k >= y /\ y \in Int
  OBVIOUS
<1>2. \A z \in x : (\A y \in x : z >= y) => z = k
  BY <1>1
<1>3. QED
  BY <1>1, <1>2 DEF Max

\* What FoldLeft computes: the states h between two characters.
Round(g, t, s, x) == IF x = {} THEN t ELSE next_char(g[x \ {Max(x)}], s[Max(x)])

\* The function on sets of indices that FoldLeft is defined by.
Folds(g, t, s, n) == g = [x \in SUBSET (1 .. n) |-> Round(g, t, s, x)]

\* The definition of FoldLeft by a fold over the set of indices has a solution.
LEMMA FoldExists ==
  ASSUME NEW t, NEW s, NEW k \in Nat
  PROVE  \E g : Folds(g, t, s, k)
<1> USE DEF Folds
<1> DEFINE Q(g, n) == Folds(g, t, s, n)
           T == {n \in Nat : \E g : Q(g, n)}
<1>1. 0 \in T
  <2> DEFINE g == [x \in {{}} |-> t]
  <2>1. SUBSET (1 .. 0) = {{}}
    OBVIOUS
  <2>2. Q(g, 0)
    BY <2>1 DEF Folds, Round
  <2>3. QED
    BY <2>2
<1>2. ASSUME NEW n \in T PROVE n + 1 \in T
  <2>1. PICK g : Q(g, n)
    OBVIOUS
  <2> DEFINE m == n + 1
             h == [x \in SUBSET (1 .. m) |->
                     IF m \in x THEN next_char(g[x \ {m}], s[m]) ELSE g[x]]
  <2>2. n \in Nat /\ m \in Nat
    OBVIOUS
  <2>3. \A x \in SUBSET (1 .. n) : x \in SUBSET (1 .. m) /\ m \notin x
    BY <2>2
  <2>4. \A x \in SUBSET (1 .. n) : h[x] = g[x]
    BY <2>3
  <2>5. ASSUME NEW x \in SUBSET (1 .. m) PROVE h[x] = Round(h, t, s, x)
    <3>1. CASE m \in x
      <4>1. x \ {m} \in SUBSET (1 .. n)
        BY <2>2
      <4>2. Max(x) = m
        BY <2>2, <3>1, MaxLast
      <4>3. h[x] = next_char(g[x \ {m}], s[m])
        BY <3>1
      <4>4. h[x \ {m}] = g[x \ {m}]
        BY <2>4, <4>1
      <4> HIDE DEF h
      <4>5. QED
        BY <3>1, <4>2, <4>3, <4>4 DEF Round
    <3>2. CASE m \notin x
      <4>1. x \in SUBSET (1 .. n)
        BY <2>2, <3>2
      <4>2. h[x] = g[x]
        BY <2>4, <4>1
      <4>3. g[x] = Round(g, t, s, x)
        BY <2>1, <4>1
      <4>4. x # {} => h[x \ {Max(x)}] = g[x \ {Max(x)}]
        BY <2>4, <4>1
      <4> HIDE DEF h
      <4>5. QED
        BY <4>2, <4>3, <4>4 DEF Round
    <3>3. QED
      BY <3>1, <3>2
  <2>6. Q(h, m)
    <3>1. h = [x \in SUBSET (1 .. m) |-> h[x]]
      OBVIOUS
    <3> HIDE DEF h
    <3>2. QED
      BY <2>5, <3>1, Zenon
  <2>7. QED
    BY <2>2, <2>6
<1>3. k \in T
  BY <1>1, <1>2, SetInduction, Zenon
<1>4. QED
  BY <1>3

\* The locals between two characters of s.
Trace(h, t, s) == h[0] = t /\ \A i \in 1 .. Len(s) : h[i] = next_char(h[i - 1], s[i])

\* FoldLeft ends a trace of the characters.
LEMMA FoldTrace ==
  ASSUME NEW C, NEW s \in Seq(C), NEW t
  PROVE  \E h : Trace(h, t, s) /\ FoldLeft(next_char, t, s) = h[Len(s)]
<1> DEFINE n == Len(s)
           Q(g) == Folds(g, t, s, n)
           c == CHOOSE g : Q(g)
           h == [i \in 0 .. n |-> c[1 .. i]]
<1>1. n \in Nat /\ DOMAIN s = 1 .. n
  OBVIOUS
<1>2. Q(c)
  <2>1. \E g : Q(g)
    BY <1>1, FoldExists
  <2>2. QED
    BY <2>1
<1>3. FoldLeft(next_char, t, s) = c[1 .. n]
  BY <1>1 DEF FoldLeft, MapThenFoldSet, Folds, Round
<1> HIDE DEF c
<1>4. h[0] = t
  <2>1. 1 .. 0 = {} /\ {} \in SUBSET (1 .. n) /\ 0 \in 0 .. n
    BY <1>1
  <2>2. c[{}] = t
    BY <1>2, <2>1 DEF Folds, Round
  <2>3. QED
    BY <2>1, <2>2
<1>5. ASSUME NEW i \in 1 .. n PROVE h[i] = next_char(h[i - 1], s[i])
  <2>1. /\ i \in Nat /\ i \in 0 .. n /\ i - 1 \in 0 .. n /\ i \in 1 .. i
        /\ 1 .. i \in SUBSET (1 .. n) /\ (1 .. i) \ {i} = 1 .. (i - 1)
    BY <1>1
  <2>2. Max(1 .. i) = i
    BY <2>1, MaxLast
  <2>3. c[1 .. i] = next_char(c[1 .. (i - 1)], s[i])
    BY <1>2, <2>1, <2>2 DEF Folds, Round
  <2>4. QED
    BY <2>1, <2>3
<1>6. h[n] = c[1 .. n]
  BY <1>1
<1> HIDE DEF h
<1>7. QED
  BY <1>3, <1>4, <1>5, <1>6 DEF Trace

\* A trace of the characters ends where FoldLeft does.
LEMMA FoldUnique ==
  ASSUME NEW C, NEW s \in Seq(C), NEW t, NEW f, Trace(f, t, s)
  PROVE  FoldLeft(next_char, t, s) = f[Len(s)]
<1>1. PICK h : Trace(h, t, s) /\ FoldLeft(next_char, t, s) = h[Len(s)]
  BY FoldTrace
<1> DEFINE T == {n \in Nat : n <= Len(s) => f[n] = h[n]}
<1>2. 0 \in T
  BY <1>1 DEF Trace
<1>3. ASSUME NEW n \in T PROVE n + 1 \in T
  <2>1. CASE n + 1 <= Len(s)
    <3>1. n + 1 \in 1 .. Len(s) /\ (n + 1) - 1 = n /\ f[n] = h[n]
      BY <2>1
    <3>2. f[n + 1] = next_char(f[n], s[n + 1]) /\ h[n + 1] = next_char(h[n], s[n + 1])
      BY <1>1, <3>1 DEF Trace
    <3>3. QED
      BY <3>1, <3>2
  <2>2. QED
    BY <2>1
<1>4. Len(s) \in T
  <2>1. T \subseteq Nat /\ Len(s) \in Nat
    OBVIOUS
  <2> HIDE DEF T
  <2>2. QED
    BY <1>2, <1>3, <2>1, SetInduction, Zenon
<1>5. QED
  BY <1>1, <1>4

\* Two parts of a text are read one after the other.
LEMMA FoldConcat ==
  ASSUME NEW C, NEW a \in Seq(C), NEW b \in Seq(C), NEW t
  PROVE  FoldLeft(next_char, t, a \o b) = FoldLeft(next_char, FoldLeft(next_char, t, a), b)
<1> DEFINE u == FoldLeft(next_char, t, a)
           v == FoldLeft(next_char, u, b)
           m == Len(a)
           n == Len(b)
           c == a \o b
<1>1. PICK h : Trace(h, t, a) /\ u = h[m]
  BY FoldTrace
<1>2. PICK k : Trace(k, u, b) /\ v = k[n]
  BY FoldTrace
<1> HIDE DEF u, v
<1>0. /\ h[0] = t /\ k[0] = u
      /\ \A i \in 1 .. m : h[i] = next_char(h[i - 1], a[i])
      /\ \A i \in 1 .. n : k[i] = next_char(k[i - 1], b[i])
  BY <1>1, <1>2 DEF Trace
<1> DEFINE f == [i \in 0 .. m + n |-> IF i <= m THEN h[i] ELSE k[i - m]]
<1>3. /\ m \in Nat /\ n \in Nat /\ c \in Seq(C) /\ Len(c) = m + n
      /\ \A i \in 1 .. m : c[i] = a[i]
      /\ \A i \in m + 1 .. m + n : c[i] = b[i - m]
  OBVIOUS
<1> HIDE DEF m, n, c
<1>4. f[0] = t
  BY <1>0, <1>1, <1>3
<1>5. ASSUME NEW i \in 1 .. m + n PROVE f[i] = next_char(f[i - 1], c[i])
  <2>1. CASE i <= m
    <3>1. i \in 1 .. m /\ i \in 0 .. m + n /\ i - 1 \in 0 .. m + n /\ i - 1 <= m
      BY <1>3, <2>1
    <3>2. f[i] = h[i] /\ f[i - 1] = h[i - 1] /\ c[i] = a[i]
      BY <1>3, <2>1, <3>1
    <3>3. QED
      BY <1>0, <1>1, <3>1, <3>2
  <2>2. CASE i = m + 1
    <3>1. i \in 0 .. m + n /\ i - 1 \in 0 .. m + n /\ i - 1 <= m /\ ~(i <= m) /\ i - m = 1 /\ i - 1 = m
          /\ i \in m + 1 .. m + n /\ 1 \in 1 .. n
      BY <1>3, <2>2
    <3>2. f[i] = k[1] /\ f[i - 1] = h[m] /\ c[i] = b[1]
      BY <1>3, <3>1
    <3>3. k[1] = next_char(k[0], b[1])
      BY <1>0, <1>2, <3>1
    <3>4. QED
      BY <1>0, <1>1, <1>2, <3>2, <3>3
  <2>3. CASE i > m + 1
    <3>1. i \in 0 .. m + n /\ i - 1 \in 0 .. m + n /\ ~(i - 1 <= m) /\ ~(i <= m)
          /\ (i - 1) - m = (i - m) - 1 /\ i \in m + 1 .. m + n /\ i - m \in 1 .. n
      BY <1>3, <2>3
    <3>2. f[i] = k[i - m] /\ f[i - 1] = k[(i - m) - 1] /\ c[i] = b[i - m]
      BY <1>3, <3>1
    <3>3. QED
      BY <1>0, <1>2, <3>1, <3>2
  <2>4. QED
    BY <1>3, <2>1, <2>2, <2>3
<1>6. f[m + n] = v
  <2>1. CASE n = 0
    BY <1>0, <1>1, <1>2, <1>3, <2>1
  <2>2. CASE n # 0
    <3>1. m + n \in 0 .. m + n /\ ~(m + n <= m) /\ (m + n) - m = n
      BY <1>3, <2>2
    <3>2. QED
      BY <1>0, <1>2, <3>1
  <2>3. QED
    BY <2>1, <2>2
<1> HIDE DEF f
<1>7. FoldLeft(next_char, t, c) = f[m + n]
  <2>1. \A i \in 1 .. Len(c) : f[i] = next_char(f[i - 1], c[i])
    BY <1>3, <1>5
  <2>2. FoldLeft(next_char, t, c) = f[Len(c)]
    BY <1>3, <1>4, <2>1, FoldUnique DEF Trace
  <2>3. QED
    BY <1>3, <2>2
<1>8. QED
  BY <1>6, <1>7 DEF c, v, u

\* Texts of at most two characters.
LEMMA FoldFew ==
  ASSUME NEW C, NEW c \in C, NEW d \in C, NEW t
  PROVE  /\ FoldLeft(next_char, t, <<>>) = t
         /\ FoldLeft(next_char, t, <<c>>) = next_char(t, c)
         /\ FoldLeft(next_char, t, <<c, d>>) = next_char(next_char(t, c), d)
<1>1. FoldLeft(next_char, t, <<>>) = t
  <2>1. <<>> \in Seq(C) /\ Len(<<>>) = 0
    OBVIOUS
  <2>2. \E h : Trace(h, t, <<>>) /\ FoldLeft(next_char, t, <<>>) = h[Len(<<>>)]
    BY <2>1, FoldTrace, Zenon
  <2>3. QED
    BY <2>1, <2>2 DEF Trace
<1>2. FoldLeft(next_char, t, <<c>>) = next_char(t, c)
  <2>1. <<c>> \in Seq(C) /\ Len(<<c>>) = 1
    OBVIOUS
  <2>2. PICK h : Trace(h, t, <<c>>) /\ FoldLeft(next_char, t, <<c>>) = h[Len(<<c>>)]
    BY <2>1, FoldTrace
  <2>3. h[0] = t /\ h[1] = next_char(h[0], c)
    BY <2>1, <2>2 DEF Trace
  <2>4. QED
    BY <2>1, <2>2, <2>3
<1>3. FoldLeft(next_char, t, <<c, d>>) = next_char(next_char(t, c), d)
  <2>1. <<c, d>> \in Seq(C) /\ Len(<<c, d>>) = 2
    OBVIOUS
  <2>2. PICK h : Trace(h, t, <<c, d>>) /\ FoldLeft(next_char, t, <<c, d>>) = h[Len(<<c, d>>)]
    BY <2>1, FoldTrace
  <2>3. h[0] = t /\ h[1] = next_char(h[0], c) /\ h[2] = next_char(h[1], d)
    <3>1. 1 \in 1 .. Len(<<c, d>>) /\ 2 \in 1 .. Len(<<c, d>>) /\ 1 - 1 = 0 /\ 2 - 1 = 1
      BY <2>1
    <3>2. QED
      BY <2>2, <3>1 DEF Trace
  <2>4. QED
    BY <2>1, <2>2, <2>3
<1>4. QED
  BY <1>1, <1>2, <1>3

-----------------------------------------------------------------------------
\* FlattenSeq, as it is defined.
Flattens(g, ss, m) == g = [i \in 1 .. m |-> IF i = 1 THEN ss[i] ELSE g[i - 1] \o ss[i]]

\* The recursion has a solution.
LEMMA FlattenExists ==
  ASSUME NEW ss, NEW k \in Nat
  PROVE  \E g : Flattens(g, ss, k)
<1> DEFINE T == {n \in Nat : \E g : Flattens(g, ss, n)}
<1>1. 0 \in T
  <2> DEFINE g == [i \in 1 .. 0 |-> 0]
  <2>1. Flattens(g, ss, 0)
    BY DEF Flattens
  <2>2. QED
    BY <2>1
<1>2. ASSUME NEW n \in T PROVE n + 1 \in T
  <2>1. PICK g : Flattens(g, ss, n)
    OBVIOUS
  <2> DEFINE h == [i \in 1 .. n + 1 |->
                     IF i = n + 1 THEN (IF i = 1 THEN ss[i] ELSE g[i - 1] \o ss[i]) ELSE g[i]]
  <2>2. ASSUME NEW i \in 1 .. n + 1 PROVE h[i] = IF i = 1 THEN ss[i] ELSE h[i - 1] \o ss[i]
    <3>1. CASE i = n + 1
      <4>1. i # 1 => i - 1 \in 1 .. n /\ h[i - 1] = g[i - 1]
        BY <3>1
      <4>2. QED
        BY <3>1, <4>1
    <3>2. CASE i \in 1 .. n
      <4>1. h[i] = g[i] /\ (i # 1 => i - 1 \in 1 .. n /\ h[i - 1] = g[i - 1])
        BY <3>2
      <4>2. g[i] = IF i = 1 THEN ss[i] ELSE g[i - 1] \o ss[i]
        BY <2>1, <3>2 DEF Flattens
      <4> HIDE DEF h
      <4>3. QED
        BY <4>1, <4>2
    <3>3. QED
      BY <3>1, <3>2
  <2>3. h = [i \in 1 .. n + 1 |-> h[i]]
    OBVIOUS
  <2> HIDE DEF h
  <2>4. Flattens(h, ss, n + 1)
    BY <2>2, <2>3, Zenon DEF Flattens
  <2>5. QED
    BY <2>4
<1>3. k \in T
  BY <1>1, <1>2, SetInduction, Zenon
<1>4. QED
  BY <1>3

\* FlattenSeq puts one part after the other.
Grows(p, ss, C) ==
  /\ p[0] = <<>>
  /\ \A k \in 0 .. Len(ss) : p[k] \in Seq(C)
  /\ \A k \in 1 .. Len(ss) : p[k] = p[k - 1] \o ss[k]

\* So FlattenSeq is the last of the concatenations p.
LEMMA FlattenGrows ==
  ASSUME NEW C, NEW ss \in Seq(Seq(C))
  PROVE  \E p : Grows(p, ss, C) /\ FlattenSeq(ss) = p[Len(ss)]
<1> DEFINE n == Len(ss)
           g == CHOOSE f : Flattens(f, ss, n)
           p == [k \in 0 .. n |-> IF k = 0 THEN <<>> ELSE g[k]]
<1>1. n \in Nat /\ \A k \in 1 .. n : ss[k] \in Seq(C)
  OBVIOUS
<1>2. Flattens(g, ss, n)
  <2>1. \E f : Flattens(f, ss, n)
    BY <1>1, FlattenExists
  <2>2. QED
    BY <2>1
<1>3. FlattenSeq(ss) = IF n = 0 THEN <<>> ELSE g[n]
  BY DEF FlattenSeq, Flattens
<1> HIDE DEF g
<1>4. ss = <<>> <=> n = 0
  OBVIOUS
<1> HIDE DEF n
<1>5. \A k \in 1 .. n : g[k] = IF k = 1 THEN ss[k] ELSE g[k - 1] \o ss[k]
  BY <1>1, <1>2 DEF Flattens
<1>6. p[0] = <<>> /\ FlattenSeq(ss) = p[n]
  BY <1>1, <1>3
<1>7. ASSUME NEW k \in 1 .. n PROVE p[k] = p[k - 1] \o ss[k]
  <2>1. k \in 0 .. n /\ k - 1 \in 0 .. n /\ ss[k] \in Seq(C)
    BY <1>1
  <2>2. CASE k = 1
    <3>1. p[k] = ss[k] /\ p[k - 1] = <<>>
      BY <1>5, <2>1, <2>2
    <3>2. <<>> \o ss[k] = ss[k]
      BY <2>1
    <3>3. QED
      BY <3>1, <3>2
  <2>3. CASE k # 1
    <3>1. k - 1 # 0 /\ k # 0
      BY <2>1, <2>3
    <3>2. p[k] = g[k] /\ p[k - 1] = g[k - 1]
      BY <2>1, <3>1
    <3> HIDE DEF p
    <3>3. QED
      BY <1>5, <2>3, <3>2
  <2>4. QED
    BY <2>2, <2>3
<1> HIDE DEF p
<1> DEFINE T == {k \in Nat : k <= n => p[k] \in Seq(C)}
<1>8. 0 \in T
  <2>1. <<>> \in Seq(C)
    OBVIOUS
  <2>2. QED
    BY <1>6, <2>1
<1>9. ASSUME NEW k \in T PROVE k + 1 \in T
  <2>1. CASE k + 1 <= n
    <3>1. k + 1 \in 1 .. n /\ (k + 1) - 1 = k /\ p[k] \in Seq(C)
      BY <1>1, <2>1
    <3>2. p[k + 1] = p[k] \o ss[k + 1] /\ ss[k + 1] \in Seq(C)
      BY <1>1, <1>7, <3>1
    <3>3. p[k] \o ss[k + 1] \in Seq(C)
      BY <3>1, <3>2
    <3>4. p[k + 1] \in Seq(C)
      BY <3>2, <3>3, Zenon
    <3>5. QED
      BY <3>4
  <2>2. QED
    BY <2>1
<1>10. Nat = T
  <2>1. T \subseteq Nat
    OBVIOUS
  <2> HIDE DEF T
  <2>2. QED
    BY <1>8, <1>9, <2>1, SetInduction, Zenon
<1>11. \A k \in 0 .. n : p[k] \in Seq(C)
  BY <1>1, <1>10
<1>12. QED
  BY <1>6, <1>7, <1>11 DEF n, Grows

-----------------------------------------------------------------------------
\* What is read and written.
Bytes == Chars \cup DOMAIN Escapes \cup {NUL}

\* The locals of owfd_rtsp_tokenize, and the bytes they are good for.
Tk ==
  [out : Seq(Bytes), before : Nat, stray : BOOLEAN, num : Nat,
   quoted : BOOLEAN, escaped : BOOLEAN, last_c : BOOLEAN]

\* Nothing was written in front of the block, and nothing will be by the next write.
Inside == {t \in Tk : t.before = 0 /\ t.stray = FALSE}

\* The bytes that are written, and the zero of an open word.
Weight(t) == Len(t.out) + (IF t.last_c THEN 1 ELSE 0)

\* The sets of characters of rtsp_tokenizer.c.
LEMMA ConstantBytes ==
  /\ NUL \in Bytes /\ "\"" \in Bytes /\ "\\" \in Bytes /\ " " \in Bytes
  /\ Chars \subseteq Bytes /\ Letters \subseteq Chars /\ Special \subseteq Chars /\ Control \subseteq Chars
  /\ \A l \in DOMAIN Escapes : l \in Bytes /\ Escapes[l] \in Control
<1>1. "\\" \in Special
  BY DEF Special
<1>2. \A l \in DOMAIN Escapes : Escapes[l] \in Control
  BY DEF Escapes, Control
<1>3. QED
  BY <1>1, <1>2 DEF Bytes, Chars

\* The ones that the tokenizer tells apart.
LEMMA Distinct ==
  /\ "\"" \notin Control /\ "\"" \notin Special /\ " " \notin Special /\ "\\" \notin Control
  /\ Control \cap Special = {} /\ "\"" # " " /\ "\"" # "\\"
  BY DEF Special, Control

\* A byte is written, at the end of those in the block or in front of it.
LEMMA WriteTk ==
  ASSUME NEW t \in Tk, NEW c \in Bytes
  PROVE  LET w == write(t, c)
         IN  /\ w \in Tk /\ Len(w.out) <= Len(t.out) + 1
             /\ w.num = t.num /\ w.quoted = t.quoted /\ w.escaped = t.escaped
             /\ t \in Inside => w \in Inside /\ w.out = Append(t.out, c)
<1> DEFINE a == Append(t.out, c)
           u == [t EXCEPT !.out = a]
           v == [t EXCEPT !.before = t.before - 1, !.stray = TRUE]
<1>1. t.out \in Seq(Bytes) /\ t.before \in Nat /\ Len(t.out) \in Nat
  BY DEF Tk
<1>2. a \in Seq(Bytes) /\ Len(a) = Len(t.out) + 1
  BY <1>1
<1> HIDE DEF a
<1>3. CASE t.before = 0
  <2>1. write(t, c) = u
    BY <1>3 DEF write, a
  <2>2. /\ u \in Tk /\ u.out = a /\ u.before = t.before /\ u.stray = t.stray
        /\ u.num = t.num /\ u.quoted = t.quoted /\ u.escaped = t.escaped
    BY <1>2 DEF Tk
  <2> HIDE DEF u
  <2>3. QED
    BY <1>1, <1>2, <2>1, <2>2 DEF Inside, a
<1>4. CASE t.before # 0
  <2>1. write(t, c) = v
    BY <1>4 DEF write
  <2>2. t.before - 1 \in Nat
    BY <1>1, <1>4
  <2>3. v \in Tk /\ v.out = t.out /\ v.num = t.num /\ v.quoted = t.quoted /\ v.escaped = t.escaped
    BY <2>2 DEF Tk
  <2> HIDE DEF v
  <2>4. QED
    BY <1>1, <1>4, <2>1, <2>3 DEF Inside
<1>5. QED
  BY <1>3, <1>4

\* A zero ends a token.
LEMMA EndTokenTk ==
  ASSUME NEW t \in Tk
  PROVE  LET e == end_token(t)
         IN  /\ e \in Tk /\ Len(e.out) <= Len(t.out) + 1 /\ e.last_c = FALSE
             /\ e.num = t.num + 1 /\ e.quoted = t.quoted /\ e.escaped = t.escaped
             /\ t \in Inside => e \in Inside /\ e.out = Append(t.out, NUL)
<1> DEFINE w == write(t, NUL)
           e == [w EXCEPT !.num = w.num + 1, !.last_c = FALSE]
<1>1. /\ w \in Tk /\ Len(w.out) <= Len(t.out) + 1
      /\ w.num = t.num /\ w.quoted = t.quoted /\ w.escaped = t.escaped
      /\ t \in Inside => w \in Inside /\ w.out = Append(t.out, NUL)
  BY ConstantBytes, WriteTk
<1>2. end_token(t) = e
  BY DEF end_token
<1> HIDE DEF w
<1>3. w.num + 1 \in Nat
  BY <1>1 DEF Tk
<1>4. /\ e \in Tk /\ e.out = w.out /\ e.before = w.before /\ e.stray = w.stray
      /\ e.num = w.num + 1 /\ e.quoted = w.quoted /\ e.escaped = w.escaped /\ e.last_c = FALSE
  BY <1>1, <1>3 DEF Tk
<1> HIDE DEF e
<1>5. QED
  BY <1>1, <1>2, <1>4 DEF Inside

\* The weight is the length, or one more.
LEMMA Weights ==
  ASSUME NEW t \in Tk
  PROVE  Len(t.out) \in Nat /\ Weight(t) \in Nat /\ Weight(t) >= Len(t.out) /\ Weight(t) <= Len(t.out) + 1
         /\ (t.last_c => Weight(t) = Len(t.out) + 1) /\ (~t.last_c => Weight(t) = Len(t.out))
<1>1. Len(t.out) \in Nat
  BY DEF Tk
<1>2. CASE t.last_c
  BY <1>1, <1>2 DEF Weight
<1>3. CASE ~t.last_c
  BY <1>1, <1>3 DEF Weight
<1>4. QED
  BY <1>1, <1>2, <1>3

\* A word that is open ends with a zero, which its weight counted.
LEMMA EndWordTk ==
  ASSUME NEW t \in Tk
  PROVE  /\ end_word(t) \in Tk /\ Len(end_word(t).out) <= Weight(t) /\ ~end_word(t).last_c
         /\ end_word(t).quoted = t.quoted /\ end_word(t).escaped = t.escaped
         /\ t \in Inside => end_word(t) \in Inside
<1>1. CASE t.last_c
  <2>1. end_word(t) = end_token(t) /\ Weight(t) = Len(t.out) + 1
    BY <1>1, Weights DEF end_word
  <2>2. QED
    BY <2>1, EndTokenTk
<1>2. CASE ~t.last_c
  <2>1. end_word(t) = t /\ Weight(t) = Len(t.out) /\ Len(t.out) \in Nat
    BY <1>2, Weights DEF end_word
  <2>2. QED
    BY <1>2, <2>1
<1>3. QED
  BY <1>1, <1>2

\* A character is copied.
LEMMA PutTk ==
  ASSUME NEW t \in Tk, NEW c \in Bytes
  PROVE  LET u == put(t, c)
         IN  /\ u \in Tk /\ Weight(u) <= Weight(t) + 2 /\ Len(u.out) <= Len(t.out) + 1
             /\ u.last_c = TRUE /\ u.num = t.num /\ u.quoted = t.quoted /\ u.escaped = t.escaped
             /\ t \in Inside => u \in Inside /\ u.out = Append(t.out, c)
<1> DEFINE w == write(t, c)
           u == [w EXCEPT !.last_c = TRUE]
<1>1. /\ w \in Tk /\ Len(w.out) <= Len(t.out) + 1
      /\ w.num = t.num /\ w.quoted = t.quoted /\ w.escaped = t.escaped
      /\ t \in Inside => w \in Inside /\ w.out = Append(t.out, c)
  BY WriteTk
<1>2. put(t, c) = u
  BY DEF put
<1> HIDE DEF w
<1>3. /\ u \in Tk /\ u.out = w.out /\ u.before = w.before /\ u.stray = w.stray
      /\ u.num = w.num /\ u.quoted = w.quoted /\ u.escaped = w.escaped /\ u.last_c = TRUE
  BY <1>1 DEF Tk
<1> HIDE DEF u
<1>4. /\ Len(u.out) \in Nat /\ Len(t.out) \in Nat /\ Weight(u) \in Nat /\ Weight(t) \in Nat
      /\ Weight(u) <= Len(u.out) + 1 /\ Weight(t) >= Len(t.out)
  BY <1>3, Weights
<1>5. Weight(u) <= Weight(t) + 2
  BY <1>1, <1>3, <1>4
<1>6. QED
  BY <1>1, <1>2, <1>3, <1>5 DEF Inside

\* A byte is taken back, or dst leaves the block.
LEMMA StepBackTk ==
  ASSUME NEW t \in Tk
  PROVE  step_back(t) \in Tk /\ Len(step_back(t).out) <= Len(t.out)
<1> DEFINE a == SubSeq(t.out, 1, Len(t.out) - 1)
           u == [t EXCEPT !.before = t.before + 1]
           v == [t EXCEPT !.out = a]
<1>1. t.out \in Seq(Bytes) /\ Len(t.out) \in Nat /\ t.before + 1 \in Nat
  BY DEF Tk
<1>2. a \in Seq(Bytes) /\ Len(a) <= Len(t.out)
  BY <1>1
<1> HIDE DEF a
<1>3. u \in Tk /\ u.out = t.out /\ v \in Tk /\ v.out = a
  BY <1>1, <1>2 DEF Tk
<1>4. step_back(t) = IF t.out = <<>> THEN u ELSE v
  BY DEF step_back, a
<1> HIDE DEF u, v
<1>5. QED
  BY <1>1, <1>2, <1>3, <1>4

\* The character after a backslash is one byte, or takes one back.
LEMMA EscapedTk ==
  ASSUME NEW t \in Tk, NEW c \in Bytes
  PROVE  /\ escaped_char(t, c) \in Tk /\ Weight(escaped_char(t, c)) <= Weight(t) + 2
         /\ t \in Inside /\ c # "0" => escaped_char(t, c) \in Inside
<1>1. CASE c = "0"
  <2> DEFINE b == step_back(t)
             u == [b EXCEPT !.last_c = TRUE]
  <2>1. b \in Tk /\ Len(b.out) <= Len(t.out)
    BY StepBackTk
  <2>2. escaped_char(t, c) = u
    BY <1>1 DEF escaped_char
  <2> HIDE DEF b
  <2>3. u \in Tk /\ u.out = b.out
    BY <2>1 DEF Tk
  <2> HIDE DEF u
  <2>4. /\ Len(b.out) \in Nat /\ Len(t.out) \in Nat /\ Weight(u) \in Nat /\ Weight(t) \in Nat
        /\ Weight(u) <= Len(u.out) + 1 /\ Weight(t) >= Len(t.out)
    BY <2>1, <2>3, Weights
  <2>5. Weight(u) <= Weight(t) + 2
    BY <2>1, <2>3, <2>4
  <2>6. QED
    BY <1>1, <2>2, <2>3, <2>5
<1>2. CASE c # "0"
  <2> DEFINE x == IF c \in DOMAIN Escapes THEN Escapes[c] ELSE c
  <2>1. x \in Bytes
    BY ConstantBytes
  <2>2. escaped_char(t, c) = put(t, x)
    BY <1>2 DEF escaped_char
  <2> HIDE DEF x
  <2>3. QED
    BY <2>1, <2>2, PutTk
<1>3. QED
  BY <1>1, <1>2

\* Every character adds two bytes at most, and only "\0" leaves the block.
LEMMA NextCharTk ==
  ASSUME NEW t \in Tk, NEW c \in Bytes
  PROVE  /\ next_char(t, c) \in Tk /\ Weight(next_char(t, c)) <= Weight(t) + 2
         /\ t \in Inside /\ ~(t.quoted /\ t.escaped /\ c = "0") => next_char(t, c) \in Inside
<1>0. Len(t.out) \in Nat /\ Weight(t) \in Nat
  BY Weights
\* A change of the flags that are not about bytes.
<1>1. ASSUME NEW u \in Tk, NEW v \in Tk, v.out = u.out, v.last_c = u.last_c,
             v.before = u.before, v.stray = u.stray
      PROVE  Weight(v) = Weight(u) /\ (u \in Inside => v \in Inside)
  BY <1>1 DEF Weight, Inside
<1>2. CASE t.quoted
  <2>1. next_char(t, c) = quoted_char(t, c)
    BY <1>2 DEF next_char
  <2>2. CASE t.escaped
    <3> DEFINE u == escaped_char(t, c)
               v == [u EXCEPT !.escaped = FALSE]
    <3>1. quoted_char(t, c) = v
      BY <2>2 DEF quoted_char
    <3>2. u \in Tk /\ Weight(u) <= Weight(t) + 2 /\ (t \in Inside /\ c # "0" => u \in Inside)
      BY EscapedTk
    <3> HIDE DEF u
    <3>3. v \in Tk /\ v.out = u.out /\ v.last_c = u.last_c /\ v.before = u.before /\ v.stray = u.stray
      BY <3>2 DEF Tk
    <3> HIDE DEF v
    <3>4. Weight(v) = Weight(u) /\ (u \in Inside => v \in Inside)
      BY <1>1, <3>2, <3>3
    <3>5. QED
      BY <1>2, <2>1, <2>2, <3>1, <3>2, <3>3, <3>4
  <2>3. CASE ~t.escaped /\ c = "\""
    <3> DEFINE u == end_token(t)
               v == [u EXCEPT !.quoted = FALSE]
    <3>1. quoted_char(t, c) = v
      BY <2>3 DEF quoted_char
    <3>2. u \in Tk /\ Len(u.out) <= Len(t.out) + 1 /\ u.last_c = FALSE /\ (t \in Inside => u \in Inside)
      BY EndTokenTk
    <3> HIDE DEF u
    <3>3. v \in Tk /\ v.out = u.out /\ v.last_c = u.last_c /\ v.before = u.before /\ v.stray = u.stray
      BY <3>2 DEF Tk
    <3> HIDE DEF v
    <3>4. Weight(v) = Weight(u) /\ (u \in Inside => v \in Inside)
      BY <1>1, <3>2, <3>3
    <3>5. Weight(u) = Len(u.out) /\ Len(u.out) \in Nat /\ Weight(t) >= Len(t.out)
      BY <3>2, Weights
    <3>6. QED
      BY <1>0, <2>1, <3>1, <3>2, <3>3, <3>4, <3>5
  <2>4. CASE ~t.escaped /\ c = "\\"
    <3> DEFINE v == [t EXCEPT !.escaped = TRUE, !.last_c = TRUE]
    <3>1. quoted_char(t, c) = v
      BY <2>4 DEF quoted_char
    <3>2. v \in Tk /\ v.out = t.out /\ v.before = t.before /\ v.stray = t.stray
      BY DEF Tk
    <3> HIDE DEF v
    <3>3. Weight(v) <= Len(t.out) + 1 /\ (t \in Inside => v \in Inside)
      BY <3>2, Weights DEF Inside
    <3>4. Weight(v) \in Nat /\ Weight(t) >= Len(t.out)
      BY <3>2, Weights
    <3>5. QED
      BY <1>0, <2>1, <3>1, <3>2, <3>3, <3>4
  <2>5. CASE ~t.escaped /\ c # "\"" /\ c # "\\"
    <3>1. quoted_char(t, c) = put(t, c)
      BY <2>5 DEF quoted_char
    <3>2. QED
      BY <2>1, <3>1, PutTk
  <2>6. QED
    BY <2>2, <2>3, <2>4, <2>5
<1>3. CASE ~t.quoted
  <2>1. next_char(t, c) = unquoted_char(t, c)
    BY <1>3 DEF next_char
  <2> DEFINE e == end_word(t)
  <2>2. e \in Tk /\ Len(e.out) <= Weight(t) /\ ~e.last_c /\ (t \in Inside => e \in Inside)
    BY EndWordTk
  <2> HIDE DEF e
  <2>3. Weight(e) = Len(e.out) /\ Len(e.out) \in Nat
    BY <2>2, Weights
  <2>4. CASE c = "\""
    <3> DEFINE v == [e EXCEPT !.quoted = TRUE]
    <3>1. unquoted_char(t, c) = v
      BY <2>4, Distinct DEF unquoted_char, e
    <3>2. v \in Tk /\ v.out = e.out /\ v.last_c = e.last_c /\ v.before = e.before /\ v.stray = e.stray
      BY <2>2 DEF Tk
    <3> HIDE DEF v
    <3>3. Weight(v) = Weight(e) /\ (e \in Inside => v \in Inside)
      BY <1>1, <2>2, <3>2
    <3>4. QED
      BY <1>0, <2>1, <2>2, <2>3, <3>1, <3>2, <3>3
  <2>5. CASE c # "\"" /\ (c = " " \/ c \in Control)
    <3>1. unquoted_char(t, c) = e
      BY <2>5, Distinct DEF unquoted_char, e
    <3>2. QED
      BY <1>0, <2>1, <2>2, <2>3, <3>1
  <2>6. CASE c # "\"" /\ ~(c = " " \/ c \in Control) /\ c \in Special
    <3> DEFINE u == put(e, c)
               v == end_token(u)
    <3>1. unquoted_char(t, c) = v
      BY <2>6 DEF unquoted_char, e
    <3>2. u \in Tk /\ Len(u.out) <= Len(e.out) + 1 /\ (e \in Inside => u \in Inside)
      BY <2>2, PutTk
    <3> HIDE DEF u
    <3>3. v \in Tk /\ Len(v.out) <= Len(u.out) + 1 /\ v.last_c = FALSE /\ (u \in Inside => v \in Inside)
      BY <3>2, EndTokenTk
    <3> HIDE DEF v
    <3>4. Weight(v) = Len(v.out) /\ Len(v.out) \in Nat /\ Len(u.out) \in Nat
      BY <3>2, <3>3, Weights
    <3>5. QED
      BY <1>0, <2>1, <2>2, <2>3, <3>1, <3>2, <3>3, <3>4
  <2>7. CASE c # "\"" /\ ~(c = " " \/ c \in Control) /\ c \notin Special
    <3>1. unquoted_char(t, c) = put(t, c)
      BY <2>7 DEF unquoted_char
    <3>2. QED
      BY <2>1, <3>1, PutTk
  <2>8. QED
    BY <2>4, <2>5, <2>6, <2>7
<1>4. QED
  BY <1>2, <1>3

\* And so does every character of a text.
LEMMA FoldTk ==
  ASSUME NEW t \in Tk, NEW s \in Seq(Bytes)
  PROVE  /\ FoldLeft(next_char, t, s) \in Tk
         /\ Weight(FoldLeft(next_char, t, s)) <= Weight(t) + 2 * Len(s)
<1> DEFINE n == Len(s)
<1>0. n \in Nat /\ \A i \in 1 .. n : s[i] \in Bytes
  OBVIOUS
<1>1. PICK h : Trace(h, t, s) /\ FoldLeft(next_char, t, s) = h[n]
  BY FoldTrace
<1>2. h[0] = t /\ \A i \in 1 .. n : h[i] = next_char(h[i - 1], s[i])
  BY <1>1 DEF Trace
<1> HIDE DEF n
<1> DEFINE T == {i \in Nat : i <= n => h[i] \in Tk /\ Weight(h[i]) <= Weight(t) + 2 * i}
<1>3. \A u \in Tk : Weight(u) \in Nat
  BY Weights
<1>4. 0 \in T
  BY <1>2, <1>3
<1>5. ASSUME NEW i \in T PROVE i + 1 \in T
  <2>1. CASE i + 1 <= n
    <3> DEFINE u == h[i]
               v == h[i + 1]
    <3>1. i + 1 \in 1 .. n /\ (i + 1) - 1 = i /\ u \in Tk /\ Weight(u) <= Weight(t) + 2 * i
      BY <1>0, <2>1
    <3>2. v = next_char(u, s[i + 1]) /\ s[i + 1] \in Bytes
      BY <1>0, <1>2, <3>1
    <3> HIDE DEF u, v
    <3>3. v \in Tk /\ Weight(v) <= Weight(u) + 2
      BY <3>1, <3>2, NextCharTk
    <3>4. Weight(v) <= Weight(t) + 2 * (i + 1)
      <4>1. Weight(u) \in Nat /\ Weight(v) \in Nat /\ Weight(t) \in Nat
        BY <1>3, <3>1, <3>3
      <4>2. QED
        BY <3>1, <3>3, <4>1
    <3>5. QED
      BY <3>3, <3>4 DEF v
  <2>2. QED
    BY <2>1
<1>6. n \in T
  <2>1. T \subseteq Nat
    OBVIOUS
  <2> HIDE DEF T
  <2>2. QED
    BY <1>0, <1>4, <1>5, <2>1, SetInduction, Zenon
<1>7. QED
  BY <1>1, <1>6 DEF n

-----------------------------------------------------------------------------
\* What the peer writes for a character in quotes.
LEMMA InQuotesForm ==
  ASSUME NEW c \in Chars
  PROVE  \/ c \in {"\"", "\\"} /\ InQuotes(c) = <<"\\", c>>
         \/ c \notin {"\"", "\\"} /\ \E l \in DOMAIN Escapes : Escapes[l] = c /\ InQuotes(c) = <<"\\", l>>
         \/ c \notin {"\"", "\\"} /\ InQuotes(c) = <<c>>
<1>1. CASE c \in {"\"", "\\"}
  BY <1>1 DEF InQuotes
<1>2. CASE c \notin {"\"", "\\"} /\ c \in Range(Escapes)
  <2> DEFINE l == CHOOSE x \in DOMAIN Escapes : Escapes[x] = c
  <2>1. \E x \in DOMAIN Escapes : Escapes[x] = c
    BY <1>2 DEF Range
  <2>2. l \in DOMAIN Escapes /\ Escapes[l] = c
    BY <2>1
  <2>3. InQuotes(c) = <<"\\", l>>
    BY <1>2 DEF InQuotes
  <2> HIDE DEF l
  <2>4. QED
    BY <1>2, <2>2, <2>3
<1>3. CASE c \notin {"\"", "\\"} /\ c \notin Range(Escapes)
  BY <1>3 DEF InQuotes
<1>4. QED
  BY <1>1, <1>2, <1>3

\* The characters in quotes, of a string.
Parts(s) == [i \in DOMAIN s |-> InQuotes(s[i])]

\* A string in quotes is a text.
LEMMA QuoteBytes ==
  ASSUME NEW s \in Seq(Chars)
  PROVE  /\ Parts(s) \in Seq(Seq(Bytes)) /\ Len(Parts(s)) = Len(s)
         /\ \A i \in 1 .. Len(s) : Parts(s)[i] = InQuotes(s[i])
         /\ FlattenSeq(Parts(s)) \in Seq(Bytes)
         /\ Quote(s) = <<"\"">> \o FlattenSeq(Parts(s)) \o <<"\"">>
         /\ Quote(s) \in Seq(Bytes)
<1>1. \A c \in Chars : InQuotes(c) \in Seq(Bytes)
  <2> SUFFICES ASSUME NEW c \in Chars PROVE InQuotes(c) \in Seq(Bytes)
    OBVIOUS
  <2>1. c \in Bytes /\ "\\" \in Bytes
    BY ConstantBytes
  <2>2. \A d \in Bytes : <<"\\", d>> \in Seq(Bytes) /\ <<d>> \in Seq(Bytes)
    BY <2>1
  <2>3. QED
    BY <2>1, <2>2, InQuotesForm, ConstantBytes
<1>2. DOMAIN s = 1 .. Len(s) /\ Len(s) \in Nat /\ \A i \in 1 .. Len(s) : s[i] \in Chars
  OBVIOUS
<1>3. Parts(s) \in [1 .. Len(s) -> Seq(Bytes)]
  BY <1>1, <1>2 DEF Parts
<1>4. Parts(s) \in Seq(Seq(Bytes)) /\ Len(Parts(s)) = Len(s)
  <2> DEFINE q == Parts(s)
             n == Len(s)
  <2>1. q \in [1 .. n -> Seq(Bytes)] /\ n \in Nat
    BY <1>2, <1>3
  <2> HIDE DEF q, n
  <2>2. q \in Seq(Seq(Bytes)) /\ Len(q) = n
    BY <2>1
  <2>3. QED
    BY <2>2 DEF q, n
<1>5. \A i \in 1 .. Len(s) : Parts(s)[i] = InQuotes(s[i])
  BY <1>2 DEF Parts
<1>6. FlattenSeq(Parts(s)) \in Seq(Bytes)
  <2> DEFINE q == Parts(s)
  <2>1. q \in Seq(Seq(Bytes))
    BY <1>4
  <2> HIDE DEF q
  <2>2. PICK p : Grows(p, q, Bytes) /\ FlattenSeq(q) = p[Len(q)]
    BY <2>1, FlattenGrows
  <2>3. QED
    BY <2>1, <2>2 DEF q, Grows
<1>7. Quote(s) = <<"\"">> \o FlattenSeq(Parts(s)) \o <<"\"">>
  BY DEF Quote, Parts
<1>8. Quote(s) \in Seq(Bytes)
  <2>1. "\"" \in Bytes
    BY ConstantBytes
  <2> DEFINE d == "\""
             f == FlattenSeq(Parts(s))
  <2>2. d \in Bytes /\ f \in Seq(Bytes) /\ Quote(s) = <<d>> \o f \o <<d>>
    BY <1>6, <1>7, <2>1, Zenon
  <2> HIDE DEF d, f
  <2>3. <<d>> \in Seq(Bytes) /\ <<d>> \o f \o <<d>> \in Seq(Bytes)
    BY <2>2
  <2>4. QED
    BY <2>2, <2>3
<1>9. QED
  BY <1>4, <1>5, <1>6, <1>7, <1>8

\* What a line is put together from.
LEMMA WrittenBytes ==
  /\ Words \subseteq Seq(Bytes) /\ \A s \in Strings : Quote(s) \in Seq(Bytes)
  /\ \A c \in Separators \cup Blanks : <<c>> \in Seq(Bytes)
<1>1. Letters \subseteq Bytes
  BY ConstantBytes
<1>2. ASSUME NEW w \in Words PROVE w \in Seq(Bytes)
  <2>1. w \in Seq(Letters)
    BY PeerAssumption
  <2>2. QED
    BY <1>1, <2>1
<1>3. \A c \in Separators \cup Blanks : c \in Bytes
  BY PeerAssumption, ConstantBytes
<1>4. \A s \in Strings : Quote(s) \in Seq(Bytes)
  BY PeerAssumption, QuoteBytes
<1>5. \A c \in Separators \cup Blanks : <<c>> \in Seq(Bytes)
  BY <1>3
<1>6. QED
  BY <1>2, <1>4, <1>5

-----------------------------------------------------------------------------
\* Between t and u the bytes w were written, and nothing was ended.
Adds(t, u, w) ==
  /\ u \in Inside /\ u.out = t.out \o w
  /\ u.num = t.num /\ u.quoted = t.quoted /\ u.escaped = t.escaped

\* One more byte.
One(u, v, c) ==
  /\ v \in Inside /\ v.out = Append(u.out, c)
  /\ v.num = u.num /\ v.quoted = u.quoted /\ v.escaped = u.escaped

\* The bytes w and one more.
LEMMA AddsOne ==
  ASSUME NEW t \in Inside, NEW u, NEW v, NEW w \in Seq(Bytes), NEW c \in Bytes, Adds(t, u, w), One(u, v, c)
  PROVE  Adds(t, v, Append(w, c))
<1> DEFINE o == t.out
<1>1. o \in Seq(Bytes)
  BY DEF Tk, Inside
<1>2. v.out = Append(o \o w, c)
  BY DEF Adds, One
<1> HIDE DEF o
<1>3. Append(o \o w, c) = o \o Append(w, c)
  BY <1>1
<1>4. v.out = t.out \o Append(w, c)
  BY <1>2, <1>3 DEF o
<1>5. QED
  BY <1>4 DEF Adds, One

\* No byte.
LEMMA AddsNone ==
  ASSUME NEW t \in Inside
  PROVE  Adds(t, t, <<>>)
<1> DEFINE o == t.out
<1>1. o \in Seq(Bytes)
  BY DEF Tk, Inside
<1> HIDE DEF o
<1>2. o = o \o <<>>
  BY <1>1
<1>3. QED
  BY <1>2 DEF Adds, o

\* The tokenizer writes one.
LEMMA PutOne ==
  ASSUME NEW t \in Inside, NEW c \in Bytes
  PROVE  One(t, put(t, c), c) /\ put(t, c).last_c = TRUE
<1>1. t \in Tk
  BY DEF Inside
<1>2. QED
  BY <1>1, PutTk DEF One

\* A sequence over more elements.
LEMMA SeqOfMore ==
  ASSUME NEW A, NEW B, A \subseteq B, NEW s \in Seq(A)
  PROVE  s \in Seq(B)
  OBVIOUS

\* The first i elements.
First(s, i) == SubSeq(s, 1, i)

\* The beginnings of a sequence.
Begins(s) ==
  /\ First(s, 0) = <<>> /\ First(s, Len(s)) = s
  /\ \A i \in 0 .. Len(s) : First(s, i) \in Seq(Bytes)
  /\ \A i \in 0 .. Len(s) - 1 : First(s, i + 1) = Append(First(s, i), s[i + 1])

\* Each is the one before it and one element.
LEMMA BeginsOf ==
  ASSUME NEW s \in Seq(Bytes)
  PROVE  Begins(s)
<1>1. \A i \in 0 .. Len(s) : SubSeq(s, 1, i) \in Seq(Bytes) /\ Len(SubSeq(s, 1, i)) = i
  OBVIOUS
<1>2. ASSUME NEW i \in 0 .. Len(s) - 1 PROVE SubSeq(s, 1, i + 1) = Append(SubSeq(s, 1, i), s[i + 1])
  OBVIOUS
<1>3. SubSeq(s, 1, Len(s)) = s /\ SubSeq(s, 1, 0) = <<>>
  OBVIOUS
<1>4. QED
  BY <1>1, <1>2, <1>3, Zenon DEF First, Begins

\* The letters of a word are copied.
LEMMA WordAdds ==
  ASSUME NEW t \in Inside, ~t.quoted, NEW w \in Seq(Letters), w # <<>>
  PROVE  LET u == FoldLeft(next_char, t, w) IN Adds(t, u, w) /\ u.last_c
<1> DEFINE n == Len(w)
<1>0. n \in Nat /\ n # 0 /\ \A i \in 1 .. n : w[i] \in Letters
  OBVIOUS
<1>1. PICK h : Trace(h, t, w) /\ FoldLeft(next_char, t, w) = h[n]
  BY FoldTrace
<1>2. h[0] = t /\ \A i \in 1 .. n : h[i] = next_char(h[i - 1], w[i])
  BY <1>1 DEF Trace
<1>3. /\ First(w, 0) = <<>> /\ First(w, n) = w
      /\ \A i \in 0 .. n : First(w, i) \in Seq(Bytes)
      /\ \A i \in 0 .. n - 1 : First(w, i + 1) = Append(First(w, i), w[i + 1])
  <2>1. w \in Seq(Bytes)
    <3>1. Letters \subseteq Bytes
      BY ConstantBytes
    <3>2. QED
      BY <3>1, SeqOfMore
  <2>2. Begins(w)
    BY <2>1, BeginsOf
  <2>3. QED
    BY <2>2, Zenon DEF Begins
<1> HIDE DEF n
<1> DEFINE T == {i \in Nat : i <= n => Adds(t, h[i], First(w, i)) /\ (i # 0 => h[i].last_c)}
<1>4. 0 \in T
  BY <1>2, <1>3, AddsNone
<1>5. ASSUME NEW i \in T PROVE i + 1 \in T
  <2>1. CASE i + 1 <= n
    <3> DEFINE u == h[i]
               c == w[i + 1]
               x == First(w, i)
    <3>1. i + 1 \in 1 .. n /\ (i + 1) - 1 = i /\ i \in 0 .. n /\ i \in 0 .. n - 1 /\ Adds(t, u, x)
      BY <1>0, <2>1
    <3>2. h[i + 1] = next_char(u, c) /\ c \in Letters /\ x \in Seq(Bytes) /\ First(w, i + 1) = Append(x, c)
      BY <1>0, <1>2, <1>3, <3>1
    <3> HIDE DEF u, x, c
    <3>3. u \in Inside /\ ~u.quoted
      BY <3>1 DEF Adds
    <3>4. next_char(u, c) = put(u, c) /\ c \in Bytes
      <4>1. c \notin Special /\ c \notin Control /\ c # " " /\ c # "\""
        BY <3>2, PeerAssumption
      <4>2. QED
        BY <3>2, <3>3, <4>1, ConstantBytes DEF next_char, unquoted_char
    <3>5. One(u, put(u, c), c) /\ put(u, c).last_c
      BY <3>3, <3>4, PutOne
    <3>6. Adds(t, h[i + 1], First(w, i + 1))
      BY <3>1, <3>2, <3>4, <3>5, AddsOne
    <3>7. QED
      BY <3>2, <3>4, <3>5, <3>6
  <2>2. QED
    BY <2>1
<1>6. n \in T
  <2>1. T \subseteq Nat
    OBVIOUS
  <2> HIDE DEF T
  <2>2. QED
    BY <1>0, <1>4, <1>5, <2>1, SetInduction, Zenon
<1>7. Adds(t, h[n], w) /\ h[n].last_c
  <2>1. n <= n
    BY <1>0
  <2>2. QED
    BY <1>0, <1>3, <1>6, <2>1, Zenon
<1>8. QED
  BY <1>1, <1>7, Zenon

\* A character in quotes is copied, its escape undone.
LEMMA QuotedOne ==
  ASSUME NEW u \in Inside, u.quoted, ~u.escaped, NEW c \in Chars
  PROVE  One(u, FoldLeft(next_char, u, InQuotes(c)), c)
<1>1. c \in Bytes /\ "\\" \in Bytes
  BY ConstantBytes
<1>2. CASE InQuotes(c) = <<c>> /\ c \notin {"\"", "\\"}
  <2>1. FoldLeft(next_char, u, <<c>>) = next_char(u, c)
    BY <1>1, FoldFew
  <2>2. next_char(u, c) = put(u, c)
    BY <1>2 DEF next_char, quoted_char
  <2>3. QED
    BY <1>1, <1>2, <2>1, <2>2, PutOne
<1>3. ASSUME NEW l \in Bytes, InQuotes(c) = <<"\\", l>>, l # "0",
             c = IF l \in DOMAIN Escapes THEN Escapes[l] ELSE l
      PROVE  One(u, FoldLeft(next_char, u, InQuotes(c)), c)
  <2> DEFINE v == [u EXCEPT !.escaped = TRUE, !.last_c = TRUE]
             x == put(v, c)
             y == [x EXCEPT !.escaped = FALSE]
  <2>1. FoldLeft(next_char, u, <<"\\", l>>) = next_char(next_char(u, "\\"), l)
    BY <1>1, FoldFew
  <2>2. next_char(u, "\\") = v
    BY Distinct DEF next_char, quoted_char
  <2>3. v \in Inside /\ v.out = u.out /\ v.num = u.num /\ v.quoted = u.quoted /\ v.escaped = TRUE
    BY DEF Tk, Inside
  <2> HIDE DEF v
  <2>4. next_char(v, l) = y
    BY <1>3, <2>3 DEF next_char, quoted_char, escaped_char
  <2>5. One(v, x, c)
    BY <1>1, <2>3, PutOne
  <2>6. x \in Inside /\ x.out = Append(u.out, c) /\ x.num = u.num /\ x.quoted = u.quoted
    BY <2>3, <2>5 DEF One
  <2> HIDE DEF x
  <2>7. y \in Inside /\ y.out = x.out /\ y.num = x.num /\ y.quoted = x.quoted /\ y.escaped = FALSE
    BY <2>6 DEF Tk, Inside
  <2>8. u.escaped = FALSE
    BY DEF Tk, Inside
  <2> HIDE DEF y
  <2>9. One(u, y, c)
    BY <2>6, <2>7, <2>8 DEF One
  <2>10. QED
    BY <1>3, <2>1, <2>2, <2>4, <2>9
<1>4. CASE c \in {"\"", "\\"} /\ InQuotes(c) = <<"\\", c>>
  <2>1. c \notin DOMAIN Escapes /\ c # "0"
    BY <1>4 DEF Escapes
  <2>2. QED
    BY <1>1, <1>3, <1>4, <2>1
<1>5. CASE \E l \in DOMAIN Escapes : Escapes[l] = c /\ InQuotes(c) = <<"\\", l>>
  <2>1. "0" \notin DOMAIN Escapes
    BY DEF Escapes
  <2>2. QED
    BY <1>3, <1>5, <2>1, ConstantBytes
<1>6. QED
  BY <1>2, <1>4, <1>5, InQuotesForm

\* So are the characters of a string.
LEMMA StringAdds ==
  ASSUME NEW t \in Inside, t.quoted, ~t.escaped, NEW s \in Seq(Chars)
  PROVE  Adds(t, FoldLeft(next_char, t, FlattenSeq(Parts(s))), s)
<1> DEFINE n == Len(s)
           q == Parts(s)
<1>1. n \in Nat /\ \A i \in 1 .. n : s[i] \in Chars
  OBVIOUS
<1>2. q \in Seq(Seq(Bytes)) /\ Len(q) = n /\ \A i \in 1 .. n : q[i] = InQuotes(s[i])
  BY QuoteBytes
<1>3. /\ First(s, 0) = <<>> /\ First(s, n) = s
      /\ \A i \in 0 .. n : First(s, i) \in Seq(Bytes)
      /\ \A i \in 0 .. n - 1 : First(s, i + 1) = Append(First(s, i), s[i + 1])
  <2>1. s \in Seq(Bytes)
    <3>1. Chars \subseteq Bytes
      BY ConstantBytes
    <3>2. QED
      BY <3>1, SeqOfMore
  <2>2. Begins(s)
    BY <2>1, BeginsOf
  <2>3. QED
    BY <2>2, Zenon DEF Begins
<1> HIDE DEF q, n
<1>4. PICK p : Grows(p, q, Bytes) /\ FlattenSeq(q) = p[Len(q)]
  BY <1>2, FlattenGrows
<1>5. /\ p[0] = <<>> /\ FlattenSeq(q) = p[Len(q)]
      /\ \A k \in 0 .. Len(q) : p[k] \in Seq(Bytes)
      /\ \A k \in 1 .. Len(q) : p[k] = p[k - 1] \o q[k]
  BY <1>4 DEF Grows
<1> DEFINE T == {i \in Nat : i <= n => Adds(t, FoldLeft(next_char, t, p[i]), First(s, i))}
<1>6. 0 \in T
  <2>1. FoldLeft(next_char, t, <<>>) = t
    BY FoldFew, ConstantBytes
  <2>2. QED
    BY <1>3, <1>5, <2>1, AddsNone
<1>7. ASSUME NEW i \in T PROVE i + 1 \in T
  <2>1. CASE i + 1 <= n
    <3> DEFINE u == FoldLeft(next_char, t, p[i])
               c == s[i + 1]
               x == First(s, i)
               v == FoldLeft(next_char, u, InQuotes(c))
    <3>1. i + 1 \in 1 .. n /\ (i + 1) - 1 = i /\ i \in 0 .. n /\ i \in 0 .. n - 1 /\ Adds(t, u, x)
      BY <1>1, <2>1
    <3>2. /\ p[i + 1] = p[i] \o InQuotes(c) /\ c \in Chars /\ x \in Seq(Bytes)
          /\ First(s, i + 1) = Append(x, c)
      BY <1>1, <1>2, <1>3, <1>5, <3>1
    <3>3. p[i] \in Seq(Bytes) /\ InQuotes(c) \in Seq(Bytes)
      <4>1. q[i + 1] \in Seq(Bytes) /\ q[i + 1] = InQuotes(c)
        BY <1>2, <3>1
      <4>2. QED
        BY <1>2, <1>5, <3>1, <4>1
    <3>4. FoldLeft(next_char, t, p[i + 1]) = v
      BY <3>2, <3>3, FoldConcat
    <3> HIDE DEF u, c, x
    <3>5. u \in Inside /\ u.quoted /\ ~u.escaped
      BY <3>1 DEF Adds
    <3>6. One(u, v, c)
      BY <3>2, <3>5, QuotedOne
    <3> HIDE DEF v
    <3>7. c \in Bytes
      BY <3>2, ConstantBytes
    <3>8. Adds(t, v, Append(x, c))
      BY <3>1, <3>2, <3>6, <3>7, AddsOne
    <3>9. Adds(t, FoldLeft(next_char, t, p[i + 1]), First(s, i + 1))
      BY <3>2, <3>4, <3>8, Zenon
    <3>10. QED
      BY <3>9
  <2>2. QED
    BY <2>1
<1>8. n \in T
  <2>1. T \subseteq Nat
    OBVIOUS
  <2> HIDE DEF T
  <2>2. QED
    BY <1>1, <1>6, <1>7, <2>1, SetInduction, Zenon
<1>9. Adds(t, FoldLeft(next_char, t, p[n]), s)
  <2>1. n <= n
    BY <1>1
  <2>2. QED
    BY <1>3, <1>8, <2>1, Zenon
<1>10. QED
  BY <1>2, <1>5, <1>9, Zenon DEF q

-----------------------------------------------------------------------------
\* The tokens ts, each with its zero, lie one behind the other in out; p are the
\* bytes up to each of them.
Laid(p, ts, out) ==
  /\ p[0] = <<>> /\ p[Len(ts)] = out
  /\ \A k \in 0 .. Len(ts) : p[k] \in Seq(Bytes)
  /\ \A k \in 1 .. Len(ts) : p[k] = p[k - 1] \o Append(ts[k], NUL)

\* One more token.
LEMMA LaidOne ==
  ASSUME NEW p, NEW ts \in Seq(Seq(Chars)), NEW out \in Seq(Bytes), NEW w \in Seq(Chars), Laid(p, ts, out)
  PROVE  \E q : Laid(q, ts \o <<w>>, out \o Append(w, NUL))
<1> DEFINE n == Len(ts)
           us == ts \o <<w>>
           o == out \o Append(w, NUL)
           q == [k \in 0 .. n + 1 |-> IF k = n + 1 THEN o ELSE p[k]]
<1>1. n \in Nat /\ Len(us) = n + 1 /\ (\A k \in 1 .. n : us[k] = ts[k]) /\ us[n + 1] = w
  OBVIOUS
<1>2. o \in Seq(Bytes)
  <2>1. w \in Seq(Bytes) /\ NUL \in Bytes
    BY ConstantBytes, SeqOfMore
  <2>2. QED
    BY <2>1
<1> HIDE DEF n, us, o
<1>3. /\ p[0] = <<>> /\ p[n] = out
      /\ \A k \in 0 .. n : p[k] \in Seq(Bytes)
      /\ \A k \in 1 .. n : p[k] = p[k - 1] \o Append(ts[k], NUL)
  BY DEF Laid, n
<1>4. q[0] = <<>> /\ q[n + 1] = o /\ \A k \in 0 .. n + 1 : q[k] \in Seq(Bytes)
  BY <1>1, <1>2, <1>3
<1>5. ASSUME NEW k \in 1 .. n + 1 PROVE q[k] = q[k - 1] \o Append(us[k], NUL)
  <2>1. k - 1 \in 0 .. n /\ k - 1 # n + 1 /\ k - 1 \in 0 .. n + 1 /\ k \in 0 .. n + 1 /\ q[k - 1] = p[k - 1]
    BY <1>1
  <2>2. CASE k = n + 1
    <3>1. k - 1 = n /\ us[k] = w /\ q[k] = o
      BY <1>1, <2>1, <2>2
    <3> HIDE DEF q
    <3>2. QED
      BY <1>3, <2>1, <3>1 DEF o
  <2>3. CASE k # n + 1
    <3>1. k \in 1 .. n /\ us[k] = ts[k] /\ q[k] = p[k]
      BY <1>1, <2>1, <2>3
    <3> HIDE DEF q
    <3>2. QED
      BY <1>3, <2>1, <3>1
  <2>4. QED
    BY <2>2, <2>3
<1> HIDE DEF q
<1>6. Laid(q, us, o)
  BY <1>1, <1>4, <1>5 DEF Laid
<1>7. QED
  BY <1>6 DEF us, o

\* b begins with a.
Begin(a, b) == Len(a) <= Len(b) /\ \A j \in 1 .. Len(a) : b[j] = a[j]

\* What a concatenation consists of.
LEMMA Joined ==
  ASSUME NEW C, NEW a \in Seq(C), NEW b \in Seq(C)
  PROVE  /\ a \o b \in Seq(C) /\ Len(a \o b) = Len(a) + Len(b)
         /\ Len(a) \in Nat /\ Len(b) \in Nat
         /\ \A j \in 1 .. Len(a) : (a \o b)[j] = a[j]
         /\ \A j \in 1 .. Len(b) : (a \o b)[Len(a) + j] = b[j]
<1>1. ASSUME NEW j \in 1 .. Len(b) PROVE (a \o b)[Len(a) + j] = b[j]
  <2>1. Len(a) + j \in 1 .. Len(a) + Len(b) /\ Len(a) + j > Len(a) /\ (Len(a) + j) - Len(a) = j
    OBVIOUS
  <2>2. QED
    BY <2>1
<1>2. QED
  BY <1>1

\* A token and its zero behind the bytes a.
LEMMA BeginConcat ==
  ASSUME NEW a \in Seq(Bytes), NEW w \in Seq(Bytes), NEW z \in Bytes, NEW b, b = a \o Append(w, z)
  PROVE  /\ b \in Seq(Bytes) /\ Begin(a, b)
         /\ Len(b) = Len(a) + Len(w) + 1 /\ b[Len(b)] = z
         /\ \A j \in 1 .. Len(w) : b[Len(a) + j] = w[j]
<1> DEFINE v == Append(w, z)
<1>1. v \in Seq(Bytes) /\ Len(v) = Len(w) + 1 /\ v[Len(v)] = z /\ \A j \in 1 .. Len(w) : v[j] = w[j]
  OBVIOUS
<1>2. b = a \o v
  OBVIOUS
<1> HIDE DEF v
<1>3. /\ b \in Seq(Bytes) /\ Len(b) = Len(a) + Len(v) /\ Len(a) \in Nat /\ Len(v) \in Nat
      /\ \A j \in 1 .. Len(a) : b[j] = a[j]
      /\ \A j \in 1 .. Len(v) : b[Len(a) + j] = v[j]
  <2>1. /\ a \o v \in Seq(Bytes) /\ Len(a \o v) = Len(a) + Len(v)
        /\ Len(a) \in Nat /\ Len(v) \in Nat
        /\ \A j \in 1 .. Len(a) : (a \o v)[j] = a[j]
        /\ \A j \in 1 .. Len(v) : (a \o v)[Len(a) + j] = v[j]
    <3>1. v \in Seq(Bytes) /\ a \in Seq(Bytes)
      BY <1>1
    <3>2. /\ a \o v \in Seq(Bytes) /\ Len(a \o v) = Len(a) + Len(v) /\ Len(a) \in Nat /\ Len(v) \in Nat
          /\ \A j \in 1 .. Len(a) : (a \o v)[j] = a[j]
      BY <3>1
    <3>3. \A j \in 1 .. Len(v) : (a \o v)[Len(a) + j] = v[j]
      BY <3>1, Joined
    <3>4. QED
      BY <3>2, <3>3
  <2>2. QED
    BY <1>2, <2>1, Zenon
<1>4. Len(w) \in Nat /\ Len(v) \in 1 .. Len(v) /\ \A j \in 1 .. Len(w) : j \in 1 .. Len(v)
  BY <1>1
<1>5. QED
  BY <1>1, <1>3, <1>4 DEF Begin

\* To begin something is transitive.
LEMMA BeginTwice ==
  ASSUME NEW a \in Seq(Bytes), NEW b \in Seq(Bytes), NEW c \in Seq(Bytes), Begin(a, b), Begin(b, c)
  PROVE  Begin(a, c)
  BY DEF Begin

\* What lies before a token stays where it is.
LEMMA LaidBegins ==
  ASSUME NEW p, NEW ts \in Seq(Seq(Chars)), NEW out \in Seq(Bytes), Laid(p, ts, out),
         NEW k \in 0 .. Len(ts)
  PROVE  Begin(p[k], out)
<1> DEFINE n == Len(ts)
           T == {m \in Nat : k + m <= n => Begin(p[k], p[k + m])}
<1>1. n \in Nat /\ k \in Nat /\ k <= n /\ \A i \in 1 .. n : ts[i] \in Seq(Bytes)
  <2>1. \A i \in 1 .. n : ts[i] \in Seq(Chars)
    OBVIOUS
  <2>2. Chars \subseteq Bytes
    BY ConstantBytes
  <2>3. QED
    BY <2>1, <2>2, SeqOfMore
<1>2. /\ p[n] = out
      /\ \A i \in 0 .. n : p[i] \in Seq(Bytes)
      /\ \A i \in 1 .. n : p[i] = p[i - 1] \o Append(ts[i], NUL)
  BY DEF Laid
<1> HIDE DEF n
<1>3. 0 \in T
  <2>1. k + 0 = k /\ p[k] \in Seq(Bytes)
    BY <1>1, <1>2
  <2>2. Begin(p[k], p[k])
    BY <2>1 DEF Begin
  <2>3. QED
    BY <2>1, <2>2
<1>4. ASSUME NEW m \in T PROVE m + 1 \in T
  <2>1. CASE k + (m + 1) <= n
    <3> DEFINE i == k + (m + 1)
               a == p[k]
               b == p[k + m]
               c == p[i]
    <3>1. i \in 1 .. n /\ i - 1 = k + m /\ k + m \in 0 .. n /\ k \in 0 .. n /\ i \in 0 .. n
      BY <1>1, <2>1
    <3>2. Begin(a, b) /\ a \in Seq(Bytes) /\ b \in Seq(Bytes) /\ c \in Seq(Bytes)
      BY <1>1, <1>2, <3>1
    <3>3. c = b \o Append(ts[i], NUL) /\ ts[i] \in Seq(Bytes)
      BY <1>1, <1>2, <3>1
    <3> HIDE DEF i, a, b, c
    <3>4. Begin(b, c)
      BY <3>2, <3>3, BeginConcat, ConstantBytes
    <3>5. Begin(a, c)
      BY <3>2, <3>4, BeginTwice
    <3>6. QED
      BY <3>5 DEF a, c, i
  <2>2. QED
    BY <2>1
<1>5. Nat = T
  <2>1. T \subseteq Nat
    OBVIOUS
  <2> HIDE DEF T
  <2>2. QED
    BY <1>3, <1>4, <2>1, SetInduction, Zenon
<1>6. n - k \in T /\ k + (n - k) = n
  <2>1. n - k \in Nat /\ k + (n - k) = n
    BY <1>1
  <2> HIDE DEF T
  <2>2. QED
    BY <1>5, <2>1
<1>7. QED
  BY <1>1, <1>2, <1>6

\* Where strlen stops.
Zero(out, b) == Min({i \in DOMAIN out : i >= b /\ out[i] = NUL})

\* No character of a line is a zero.
LEMMA NoNul == NUL \notin Chars
<1>1. NUL \notin Letters
  BY PeerAssumption
<1>2. NUL \notin Special /\ NUL \notin Control /\ NUL # " " /\ NUL # "\""
  BY DEF NUL, Special, Control
<1>3. QED
  BY <1>1, <1>2 DEF Chars

\* The first zero from b on.
LEMMA ZeroAt ==
  ASSUME NEW out \in Seq(Bytes), NEW b \in Nat, NEW z \in 1 .. Len(out), b <= z, out[z] = NUL,
         \A i \in 1 .. Len(out) : i >= b /\ i < z => out[i] # NUL
  PROVE  Zero(out, b) = z
<1> DEFINE S == {i \in DOMAIN out : i >= b /\ out[i] = NUL}
<1>1. z \in S /\ \A i \in S : i \in Int /\ z <= i
  OBVIOUS
<1> HIDE DEF S
<1>2. \A x \in S : (\A y \in S : x <= y) => x = z
  BY <1>1
<1>3. Min(S) = z
  BY <1>1, <1>2 DEF Min
<1>4. QED
  BY <1>3 DEF Zero, S

\* A token is found from its first byte.
LEMMA LaidToken ==
  ASSUME NEW p, NEW ts \in Seq(Seq(Chars)), NEW out \in Seq(Bytes), Laid(p, ts, out),
         NEW k \in 1 .. Len(ts)
  PROVE  /\ Len(p[k - 1]) \in Nat /\ Len(p[k]) \in Nat
         /\ Zero(out, Len(p[k - 1]) + 1) = Len(p[k])
         /\ SubSeq(out, Len(p[k - 1]) + 1, Len(p[k]) - 1) = ts[k]
<1> DEFINE a == p[k - 1]
           b == p[k]
           w == ts[k]
<1>1. w \in Seq(Chars) /\ w \in Seq(Bytes) /\ \A j \in 1 .. Len(w) : w[j] # NUL
  <2>1. w \in Seq(Chars)
    OBVIOUS
  <2> HIDE DEF w
  <2>2. w \in Seq(Bytes)
    BY <2>1, ConstantBytes, SeqOfMore
  <2>3. \A j \in 1 .. Len(w) : w[j] \in Chars
    BY <2>1
  <2>4. QED
    BY <2>1, <2>2, <2>3, NoNul
<1>2. k - 1 \in 0 .. Len(ts) /\ k \in 0 .. Len(ts)
  OBVIOUS
<1>3. a \in Seq(Bytes) /\ b \in Seq(Bytes) /\ b = a \o Append(w, NUL)
  BY <1>2 DEF Laid
<1>4. Begin(b, out)
  BY <1>2, LaidBegins
<1> HIDE DEF a, b, w
<1>5. /\ Len(b) = Len(a) + Len(w) + 1 /\ b[Len(b)] = NUL
      /\ \A j \in 1 .. Len(w) : b[Len(a) + j] = w[j]
  <2>1. NUL \in Bytes
    BY ConstantBytes
  <2>2. QED
    BY <1>1, <1>3, <2>1, BeginConcat
<1> DEFINE m == Len(a)
           l == Len(w)
           z == Len(b)
<1>6. m \in Nat /\ l \in Nat /\ z \in Nat /\ Len(out) \in Nat /\ z <= Len(out) /\ z = m + l + 1
      /\ \A i \in 1 .. z : out[i] = b[i]
  BY <1>1, <1>3, <1>4, <1>5 DEF Begin
<1>7. \A j \in 1 .. l : out[m + j] = w[j] /\ w[j] # NUL
  <2> SUFFICES ASSUME NEW j \in 1 .. l PROVE out[m + j] = w[j] /\ w[j] # NUL
    OBVIOUS
  <2>1. m + j \in 1 .. z
    BY <1>6
  <2>2. QED
    BY <1>1, <1>5, <1>6, <2>1
<1>8. out[z] = NUL /\ z \in 1 .. Len(out)
  <2>1. z \in 1 .. z
    BY <1>6
  <2>2. QED
    BY <1>5, <1>6, <2>1
<1> HIDE DEF m, l, z
<1>9. \A i \in 1 .. Len(out) : i >= m + 1 /\ i < z => out[i] # NUL
  <2> SUFFICES ASSUME NEW i \in 1 .. Len(out), i >= m + 1, i < z PROVE out[i] # NUL
    OBVIOUS
  <2>1. i - m \in 1 .. l /\ m + (i - m) = i
    BY <1>6
  <2>2. QED
    BY <1>7, <2>1
<1>10. Zero(out, m + 1) = z
  <2>1. m + 1 \in Nat /\ m + 1 <= z
    BY <1>6
  <2>2. QED
    BY <1>8, <1>9, <2>1, ZeroAt
<1>11. SubSeq(out, m + 1, z - 1) = w
  <2> DEFINE x == SubSeq(out, m + 1, z - 1)
  <2>1. m + 1 \in Nat /\ m + 1 >= 1 /\ z - 1 <= Len(out) /\ z - 1 = m + l /\ z - 1 \in Int
    BY <1>6
  <2>2. Len(x) = l /\ x \in Seq(Bytes) /\ \A j \in 1 .. l : x[j] = out[m + j]
    BY <1>6, <2>1
  <2> HIDE DEF x
  <2>3. Len(w) = l /\ \A j \in 1 .. l : x[j] = w[j]
    BY <1>7, <2>2 DEF l
  <2>4. x = w
    BY <1>1, <2>2, <2>3
  <2>5. QED
    BY <2>4 DEF x
<1>12. QED
  BY <1>6, <1>10, <1>11 DEF m, z, a, b, w

\* The caller's walk finds the tokens.
Walk(f, out, n) == f = [i \in 1 .. n |-> IF i = 1 THEN 1 ELSE Zero(out, f[i - 1]) + 1]

\* The caller, who adds up the lengths of the tokens, reads the tokens.
LEMMA LaidRead ==
  ASSUME NEW p, NEW ts \in Seq(Seq(Chars)), NEW out \in Seq(Bytes), Laid(p, ts, out)
  PROVE  Read(out, Len(ts)) = ts
<1> DEFINE n == Len(ts)
           f == CHOOSE g : Walk(g, out, n)
           b == [i \in 1 .. n |-> Len(p[i - 1]) + 1]
<1>1. n \in Nat /\ DOMAIN ts = 1 .. n /\ ts = [i \in 1 .. n |-> ts[i]]
  OBVIOUS
<1>2. \A k \in 1 .. n : /\ Len(p[k - 1]) \in Nat /\ Len(p[k]) \in Nat
                        /\ Zero(out, Len(p[k - 1]) + 1) = Len(p[k])
                        /\ SubSeq(out, Len(p[k - 1]) + 1, Len(p[k]) - 1) = ts[k]
  BY LaidToken
<1>3. Read(out, n) = [i \in 1 .. n |-> SubSeq(out, f[i], Zero(out, f[i]) - 1)]
  BY DEF Read, Walk, Zero
<1>4. p[0] = <<>>
  BY DEF Laid
<1> HIDE DEF n
<1>5. Walk(b, out, n)
  <2>1. ASSUME NEW i \in 1 .. n PROVE b[i] = IF i = 1 THEN 1 ELSE Zero(out, b[i - 1]) + 1
    <3>1. CASE i = 1
      BY <1>1, <1>4, <3>1
    <3>2. CASE i # 1
      <4>1. i - 1 \in 1 .. n
        BY <1>1, <3>2
      <4>2. b[i - 1] = Len(p[(i - 1) - 1]) + 1 /\ b[i] = Len(p[i - 1]) + 1
        BY <4>1
      <4> HIDE DEF b
      <4>3. QED
        BY <1>2, <3>2, <4>1, <4>2
    <3>3. QED
      BY <3>1, <3>2
  <2>2. b = [i \in 1 .. n |-> b[i]]
    OBVIOUS
  <2> HIDE DEF b
  <2>3. QED
    BY <2>1, <2>2, Zenon DEF Walk
<1>6. Walk(f, out, n)
  <2> HIDE DEF b
  <2>1. \E g : Walk(g, out, n)
    BY <1>5
  <2>2. QED
    BY <2>1
<1> HIDE DEF f
<1>7. \A i \in 1 .. n : f[i] = IF i = 1 THEN 1 ELSE Zero(out, f[i - 1]) + 1
  BY <1>6 DEF Walk
<1>8. \A i \in 1 .. n : b[i] = IF i = 1 THEN 1 ELSE Zero(out, b[i - 1]) + 1
  <2> HIDE DEF b
  <2>1. QED
    BY <1>5 DEF Walk
<1> DEFINE T == {i \in Nat : i + 1 <= n => f[i + 1] = b[i + 1]}
<1>9. 0 \in T
  <2> HIDE DEF b
  <2>1. 1 <= n => f[1] = b[1]
    <3>1. 1 <= n => 1 \in 1 .. n
      BY <1>1
    <3>2. QED
      BY <1>7, <1>8, <3>1
  <2>2. QED
    BY <2>1
<1>10. ASSUME NEW i \in T PROVE i + 1 \in T
  <2> HIDE DEF b
  <2>1. CASE (i + 1) + 1 <= n
    <3> DEFINE k == (i + 1) + 1
    <3>1. k \in 1 .. n /\ k # 1 /\ k - 1 = i + 1 /\ i + 1 <= n
      BY <1>1, <2>1
    <3>2. f[i + 1] = b[i + 1]
      BY <3>1
    <3> HIDE DEF k
    <3>3. f[k] = b[k]
      BY <1>7, <1>8, <3>1, <3>2
    <3>4. QED
      BY <3>3 DEF k
  <2>2. QED
    BY <2>1
<1>11. Nat = T
  <2>1. T \subseteq Nat
    OBVIOUS
  <2> HIDE DEF T
  <2>2. QED
    BY <1>9, <1>10, <2>1, SetInduction, Zenon
<1>12. ASSUME NEW i \in 1 .. n PROVE SubSeq(out, f[i], Zero(out, f[i]) - 1) = ts[i]
  <2>1. i - 1 \in Nat /\ (i - 1) + 1 = i /\ i <= n
    BY <1>1
  <2>2. i - 1 \in T
    BY <1>11, <2>1
  <2>3. f[i] = b[i]
    <3> HIDE DEF b
    <3>1. QED
      BY <2>1, <2>2
  <2>4. b[i] = Len(p[i - 1]) + 1
    OBVIOUS
  <2> HIDE DEF b
  <2>5. QED
    BY <1>2, <2>3, <2>4
<1>13. QED
  BY <1>1, <1>3, <1>12, Zenon DEF n

-----------------------------------------------------------------------------
\* Between two elements the tokenizer is outside of quotes, it has a word open
\* exactly if the peer has, and the tokens so far lie in the block.
ExactInv ==
  /\ tk \in Inside /\ ~tk.quoted /\ ~tk.escaped /\ in_word \in BOOLEAN /\ (tk.last_c <=> in_word)
  /\ tokens \in Seq(Seq(Chars)) /\ end_word(tk).num = Len(tokens)
  /\ \E p : Laid(p, tokens, end_word(tk).out)

\* From t to u one token was written, and ended.
Ends(t, u, w) ==
  /\ u \in Inside /\ u.out = t.out \o Append(w, NUL) /\ u.num = t.num + 1
  /\ u.escaped = t.escaped /\ u.last_c = FALSE

\* The bytes w and a zero are a token.
LEMMA EndToken ==
  ASSUME NEW t \in Inside, NEW w \in Seq(Bytes), NEW u, Adds(t, u, w)
  PROVE  Ends(t, end_token(u), w) /\ end_token(u).quoted = t.quoted
<1>1. /\ u \in Inside /\ u \in Tk /\ u.out = t.out \o w
      /\ u.num = t.num /\ u.quoted = t.quoted /\ u.escaped = t.escaped
  BY DEF Adds, Inside
<1>2. end_token(u) \in Inside /\ end_token(u).out = Append(u.out, NUL) /\ end_token(u).last_c = FALSE
  BY <1>1, EndTokenTk
<1>3. /\ end_token(u).num = u.num + 1 /\ end_token(u).escaped = u.escaped
      /\ end_token(u).quoted = u.quoted
  BY <1>1, EndTokenTk
<1> DEFINE o == t.out
<1>4. o \in Seq(Bytes)
  BY DEF Tk, Inside
<1> HIDE DEF o
<1>5. Append(o \o w, NUL) = o \o Append(w, NUL)
  BY <1>4
<1>6. QED
  BY <1>1, <1>2, <1>3, <1>5 DEF Ends, o

\* One more token keeps the invariant.
LEMMA TokenWritten ==
  ASSUME ExactInv, NEW w \in Seq(Chars), tokens' = tokens \o <<w>>,
         tk' \in Inside, ~tk'.quoted, ~tk'.escaped, in_word' \in BOOLEAN, tk'.last_c <=> in_word',
         Ends(end_word(tk), end_word(tk'), w)
  PROVE  ExactInv'
<1> DEFINE o == end_word(tk).out
           x == end_word(tk').out
<1>1. o \in Seq(Bytes) /\ x = o \o Append(w, NUL) /\ end_word(tk').num = end_word(tk).num + 1
  BY EndWordTk DEF Ends, ExactInv, Tk, Inside
<1>2. PICK p : Laid(p, tokens, o)
  BY DEF ExactInv
<1>3. tokens \in Seq(Seq(Chars)) /\ end_word(tk).num = Len(tokens)
  BY DEF ExactInv
<1> HIDE DEF o, x
<1>4. \E q : Laid(q, tokens', x)
  BY <1>1, <1>2, <1>3, LaidOne
<1>5. tokens' \in Seq(Seq(Chars)) /\ Len(tokens') = Len(tokens) + 1
  BY <1>3
<1>6. end_word(tk').num = Len(tokens')
  BY <1>1, <1>3, <1>5
<1>7. QED
  BY <1>4, <1>5, <1>6 DEF ExactInv, x, end_word, end_token, write

\* A word is one more token.
LEMMA WordExact ==
  ASSUME ExactInv, WriteWord
  PROVE  ExactInv'
<1>1. PICK w \in Words : Write(w, <<w>>)
  BY DEF WriteWord
<1>2. in_word = FALSE /\ in_word' = TRUE
  BY DEF WriteWord
<1>3. w \in Seq(Letters) /\ w # <<>> /\ w \in Seq(Chars) /\ w \in Seq(Bytes)
  <2>1. w \in Seq(Letters) /\ w # <<>>
    BY PeerAssumption
  <2>2. Letters \subseteq Chars /\ Letters \subseteq Bytes
    BY ConstantBytes
  <2>3. QED
    BY <2>1, <2>2, SeqOfMore
<1>4. tk \in Inside /\ ~tk.quoted /\ ~tk.escaped /\ ~tk.last_c
  BY <1>2 DEF ExactInv
<1>5. tk' = FoldLeft(next_char, tk, w) /\ tokens' = tokens \o <<w>>
  BY <1>1 DEF Write
<1>6. Adds(tk, tk', w) /\ tk'.last_c
  BY <1>3, <1>4, <1>5, WordAdds
<1>7. end_word(tk) = tk /\ end_word(tk') = end_token(tk')
  BY <1>4, <1>6 DEF end_word
<1>8. Ends(end_word(tk), end_word(tk'), w)
  BY <1>3, <1>4, <1>6, <1>7, EndToken
<1>9. tk' \in Inside /\ ~tk'.quoted /\ ~tk'.escaped
  BY <1>4, <1>6 DEF Adds
<1>10. QED
  BY <1>2, <1>3, <1>5, <1>6, <1>8, <1>9, TokenWritten

\* What ends a word does not touch the rest.
LEMMA EndWordRest ==
  ASSUME NEW t \in Inside
  PROVE  /\ end_word(t) \in Inside /\ end_word(t).quoted = t.quoted /\ end_word(t).escaped = t.escaped
         /\ ~end_word(t).last_c /\ end_word(end_word(t)) = end_word(t)
<1>0. t \in Tk
  BY DEF Inside
<1>1. end_word(t) \in Inside /\ ~end_word(t).last_c
  BY <1>0, EndWordTk
<1>2. end_word(t).quoted = t.quoted /\ end_word(t).escaped = t.escaped
  BY <1>0, EndWordTk
<1>3. end_word(end_word(t)) = end_word(t)
  <2> DEFINE e == end_word(t)
  <2>1. ~e.last_c
    BY <1>1
  <2> HIDE DEF e
  <2>2. end_word(e) = e
    BY <2>1 DEF end_word
  <2>3. QED
    BY <2>2 DEF e
<1>4. QED
  BY <1>1, <1>2, <1>3

\* A separator ends the open word and is a token.
LEMMA SeparatorExact ==
  ASSUME ExactInv, WriteSeparator
  PROVE  ExactInv'
<1>1. PICK c \in Separators : Write(<<c>>, <<<<c>>>>)
  BY DEF WriteSeparator
<1> DEFINE e == end_word(tk)
           w == <<c>>
<1>2. c \in Special /\ c \in Chars /\ c \in Bytes
  BY PeerAssumption, ConstantBytes
<1>3. w \in Seq(Chars) /\ w \in Seq(Bytes) /\ w = Append(<<>>, c) /\ <<>> \in Seq(Bytes)
  BY <1>2
<1>4. tk \in Inside /\ ~tk.quoted /\ ~tk.escaped
  BY DEF ExactInv
<1>5. e \in Inside /\ ~e.quoted /\ ~e.escaped
  BY <1>4, EndWordRest
<1>6. tk' = end_token(put(e, c)) /\ tokens' = tokens \o <<w>>
  <2>1. FoldLeft(next_char, tk, <<c>>) = next_char(tk, c)
    BY <1>2, FoldFew
  <2>2. next_char(tk, c) = end_token(put(end_word(tk), c))
    BY <1>2, <1>4, Distinct DEF next_char, unquoted_char
  <2>3. QED
    BY <1>1, <2>1, <2>2 DEF Write
<1> HIDE DEF e
<1>7. Adds(e, put(e, c), w)
  <2>1. One(e, put(e, c), c) /\ Adds(e, e, <<>>)
    BY <1>2, <1>5, PutOne, AddsNone
  <2>2. QED
    BY <1>2, <1>3, <1>5, <2>1, AddsOne
<1> HIDE DEF w
<1>8. Ends(e, tk', w) /\ tk'.quoted = e.quoted
  BY <1>3, <1>5, <1>6, <1>7, EndToken
<1>9. tk' \in Inside /\ ~tk'.quoted /\ ~tk'.escaped /\ tk'.last_c = FALSE
  BY <1>5, <1>8 DEF Ends
<1>10. end_word(tk') = tk'
  BY <1>9 DEF end_word
<1>11. in_word' = FALSE
  BY DEF WriteSeparator
<1>12. Ends(end_word(tk), end_word(tk'), w)
  BY <1>8, <1>10 DEF e
<1>13. QED
  BY <1>3, <1>6, <1>9, <1>11, <1>12, TokenWritten

\* A blank ends the open word.
LEMMA BlankExact ==
  ASSUME ExactInv, WriteBlank
  PROVE  ExactInv'
<1>1. PICK c \in Blanks : Write(<<c>>, <<>>)
  BY DEF WriteBlank
<1>2. c \in Bytes /\ (c = " " \/ c \in Control)
  BY PeerAssumption, ConstantBytes
<1>3. tk \in Inside /\ ~tk.quoted /\ ~tk.escaped /\ tokens \in Seq(Seq(Chars))
  BY DEF ExactInv
<1>4. tk' = end_word(tk) /\ tokens' = tokens
  <2>1. FoldLeft(next_char, tk, <<c>>) = next_char(tk, c)
    BY <1>2, FoldFew
  <2>2. next_char(tk, c) = end_word(tk)
    BY <1>2, <1>3, Distinct DEF next_char, unquoted_char
  <2>3. tokens \o <<>> = tokens
    BY <1>3
  <2>4. QED
    BY <1>1, <2>1, <2>2, <2>3 DEF Write
<1>5. /\ tk' \in Inside /\ tk'.quoted = tk.quoted /\ tk'.escaped = tk.escaped /\ ~tk'.last_c
      /\ end_word(tk') = end_word(tk)
  BY <1>3, <1>4, EndWordRest
<1>6. in_word' = FALSE
  BY DEF WriteBlank
<1>7. end_word(tk').num = Len(tokens) /\ \E p : Laid(p, tokens, end_word(tk').out)
  BY <1>5 DEF ExactInv
<1>8. QED
  BY <1>3, <1>4, <1>5, <1>6, <1>7 DEF ExactInv, end_word, end_token, write

\* A string ends the open word and is a token, without its quotes and escapes.
LEMMA StringExact ==
  ASSUME ExactInv, WriteString
  PROVE  ExactInv'
<1>1. PICK s \in Strings : Write(Quote(s), <<s>>)
  BY DEF WriteString
<1> DEFINE d == "\""
           f == FlattenSeq(Parts(s))
           e == end_word(tk)
           q == [e EXCEPT !.quoted = TRUE]
           u == FoldLeft(next_char, q, f)
<1>2. s \in Seq(Chars) /\ s \in Seq(Bytes)
  <2>1. s \in Seq(Chars)
    BY PeerAssumption
  <2>2. QED
    BY <2>1, ConstantBytes, SeqOfMore
<1>3. d \in Bytes /\ f \in Seq(Bytes) /\ Quote(s) = <<d>> \o f \o <<d>>
  BY <1>2, ConstantBytes, QuoteBytes, Zenon
<1>4. tk \in Inside /\ ~tk.quoted /\ ~tk.escaped
  BY DEF ExactInv
<1>5. e \in Inside /\ ~e.quoted /\ ~e.escaped /\ ~e.last_c
  BY <1>4, EndWordRest
<1>6. next_char(tk, d) = q
  BY <1>4, Distinct DEF next_char, unquoted_char
<1>7. \A x : next_char(x, d) = IF x.quoted THEN quoted_char(x, d) ELSE unquoted_char(x, d)
  BY DEF next_char
<1> HIDE DEF e
<1>8. q \in Inside /\ q.quoted /\ q.escaped = e.escaped /\ q.out = e.out /\ q.num = e.num
  BY <1>5 DEF Tk, Inside
<1> HIDE DEF q, f
<1>9. Adds(q, u, s)
  <2>1. ~q.escaped
    BY <1>5, <1>8
  <2>2. QED
    BY <1>2, <1>8, <2>1, StringAdds DEF f
<1>10. FoldLeft(next_char, tk, Quote(s)) = next_char(u, d)
  <2> HIDE DEF d
  <2>1. <<d>> \in Seq(Bytes) /\ <<d>> \o f \in Seq(Bytes)
    BY <1>3
  <2>2. FoldLeft(next_char, tk, <<d>> \o f) = FoldLeft(next_char, FoldLeft(next_char, tk, <<d>>), f)
    BY <1>3, <2>1, FoldConcat
  <2>3. FoldLeft(next_char, tk, <<d>>) = next_char(tk, d)
    BY <1>3, FoldFew
  <2>4. FoldLeft(next_char, u, <<d>>) = next_char(u, d)
    <3> HIDE DEF u
    <3>1. QED
      BY <1>3, FoldFew
  <2>5. FoldLeft(next_char, tk, (<<d>> \o f) \o <<d>>)
          = FoldLeft(next_char, FoldLeft(next_char, tk, <<d>> \o f), <<d>>)
    BY <2>1, FoldConcat
  <2>6. QED
    BY <1>3, <1>6, <2>2, <2>3, <2>5, <2>4, Zenon
<1> HIDE DEF u
<1>11. u \in Inside /\ u.quoted /\ ~u.escaped /\ u.escaped = q.escaped
  BY <1>5, <1>8, <1>9 DEF Adds
<1> DEFINE v == end_token(u)
           y == [v EXCEPT !.quoted = FALSE]
<1>12. next_char(u, d) = y
  BY <1>11, Distinct DEF next_char, quoted_char
<1>13. Ends(q, v, s)
  BY <1>2, <1>8, <1>9, EndToken
<1> HIDE DEF v
<1>14. y \in Inside /\ y.out = v.out /\ y.num = v.num /\ y.escaped = v.escaped /\ y.last_c = v.last_c /\ ~y.quoted
  BY <1>13 DEF Ends, Tk, Inside
<1> HIDE DEF y
<1>15. tk' = y /\ tokens' = tokens \o <<s>>
  BY <1>1, <1>10, <1>12 DEF Write
<1>16. Ends(e, y, s)
  BY <1>8, <1>13, <1>14 DEF Ends
<1>17. y.last_c = FALSE /\ ~y.escaped
  BY <1>5, <1>16 DEF Ends
<1>18. end_word(y) = y
  BY <1>17 DEF end_word
<1>19. Ends(end_word(tk), end_word(tk'), s)
  BY <1>15, <1>16, <1>18 DEF e
<1>20. in_word' = FALSE
  BY DEF WriteString
<1>21. QED
  BY <1>2, <1>14, <1>15, <1>17, <1>19, <1>20, TokenWritten

\* So it is at first, and the elements that the peer writes keep it so.
LEMMA ExactStart ==
  ASSUME TInit
  PROVE  ExactInv
<1>1. tk = Start /\ tokens = <<>> /\ in_word = FALSE
  BY DEF TInit
<1>2. /\ Start \in Inside /\ Start.out = <<>> /\ Start.num = 0
      /\ Start.last_c = FALSE /\ Start.quoted = FALSE /\ Start.escaped = FALSE
  BY DEF Start, Tk, Inside
<1>3. end_word(Start) = Start
  BY <1>2 DEF end_word
<1>4. Laid([k \in 0 .. 0 |-> <<>>], <<>>, <<>>)
  BY DEF Laid
<1>5. <<>> \in Seq(Seq(Chars)) /\ Len(<<>>) = 0
  OBVIOUS
<1>6. \E p : Laid(p, <<>>, <<>>)
  BY <1>4
<1>7. QED
  BY <1>1, <1>2, <1>3, <1>5, <1>6 DEF ExactInv

\* A line of elements remains one.
LEMMA ExactStep ==
  ASSUME ~wild => ExactInv, [TNext]_tvars
  PROVE  (~wild => ExactInv)'
<1> SUFFICES ASSUME ~wild'
             PROVE  ExactInv'
  OBVIOUS
<1>1. wild' = wild
  BY DEF TNext, WriteWord, WriteSeparator, WriteBlank, WriteString, Write, WriteChar, tvars
<1>2. ExactInv
  BY <1>1
<1>3. CASE UNCHANGED tvars
  BY <1>2, <1>3 DEF tvars, ExactInv, end_word, end_token, write
<1>4. CASE WriteChar
  BY <1>1, <1>4 DEF WriteChar
<1>5. QED
  BY <1>2, <1>3, <1>4, WordExact, SeparatorExact, BlankExact, StringExact DEF TNext

\* owfd_rtsp_tokenize: for every line that consists of any words, separators, blanks and
\* quoted strings the caller who walks the block finds exactly these, in their order.
THEOREM TokensExactHolds == TSpec => []TokensExact
<1>1. TInit => (~wild => ExactInv)
  BY ExactStart
<1>2. (~wild => ExactInv) /\ [TNext]_tvars => (~wild => ExactInv)'
  BY ExactStep
<1>3. (~wild => ExactInv) => TokensExact
  <2> SUFFICES ASSUME ExactInv PROVE TokensExact
    BY DEF TokensExact
  <2> DEFINE o == end_word(tk).out
  <2>1. o \in Seq(Bytes) /\ tokens \in Seq(Seq(Chars)) /\ end_word(tk).num = Len(tokens)
    BY EndWordTk DEF ExactInv, Tk, Inside
  <2>2. PICK p : Laid(p, tokens, o)
    BY DEF ExactInv
  <2> HIDE DEF o
  <2>3. Read(o, Len(tokens)) = tokens
    BY <2>1, <2>2, LaidRead
  <2>4. QED
    BY <2>1, <2>3 DEF o, TokensExact, owfd_rtsp_tokenize
<1>4. QED
  BY <1>1, <1>2, <1>3, PTL DEF TSpec

-----------------------------------------------------------------------------
\* Each character takes two bytes at most, the zero that ends a word included, and
\* without an escape \0 none of them is in front of the block.
FitsInv ==
  /\ tk \in Tk /\ len \in Nat /\ Weight(tk) <= 2 * len
  /\ ~zeroes => tk \in Inside

\* An element takes two bytes for each character at most.
LEMMA WriteFits ==
  ASSUME FitsInv, NEW text \in Seq(Bytes), NEW ts, Write(text, ts), tk' \in Inside
  PROVE  FitsInv'
<1> DEFINE u == FoldLeft(next_char, tk, text)
<1>1. tk \in Tk /\ len \in Nat /\ Weight(tk) <= 2 * len /\ Len(text) \in Nat
  BY DEF FitsInv
<1>2. tk' = u /\ len' = len + Len(text)
  BY DEF Write
<1>3. u \in Tk /\ Weight(u) <= Weight(tk) + 2 * Len(text)
  BY <1>1, FoldTk
<1> HIDE DEF u
<1>4. Weight(u) \in Nat /\ Weight(tk) \in Nat
  BY <1>1, <1>3, Weights
<1>5. Weight(u) <= 2 * (len + Len(text))
  BY <1>1, <1>3, <1>4
<1>6. tk' \in Tk /\ len' \in Nat /\ Weight(tk') <= 2 * len'
  BY <1>1, <1>2, <1>3, <1>5
<1>7. QED
  BY <1>6 DEF FitsInv, Weight

\* And so does any character.
LEMMA CharFits ==
  ASSUME FitsInv, WriteChar
  PROVE  FitsInv'
<1>1. PICK c \in Anything : /\ tk' = next_char(tk, c)
                            /\ zeroes' = (zeroes \/ (tk.quoted /\ tk.escaped /\ c = "0"))
  BY DEF WriteChar
<1>2. c \in Bytes /\ tk \in Tk /\ len \in Nat /\ Weight(tk) <= 2 * len /\ len' = len + 1
  BY PeerAssumption, ConstantBytes DEF WriteChar, FitsInv
<1>3. tk' \in Tk /\ Weight(tk') <= Weight(tk) + 2
  BY <1>1, <1>2, NextCharTk
<1>4. ~zeroes' => tk' \in Inside
  BY <1>1, <1>2, NextCharTk DEF FitsInv
<1>5. Weight(tk') \in Nat /\ Weight(tk) \in Nat
  BY <1>2, <1>3, Weights
<1>6. len' \in Nat /\ Weight(tk') <= 2 * len'
  BY <1>2, <1>3, <1>5
<1>7. QED
  BY <1>3, <1>4, <1>6 DEF FitsInv, Weight

\* owfd_rtsp_tokenize allocates its block by the length of the line before it knows the
\* tokens: for every line, of any length and any characters, quotes left open and escapes
\* \0 included, nothing is written behind it, and without an escape \0 nothing in front.
THEOREM BlockFitsHolds == TSpec => []BlockFits
<1> DEFINE Inv == FitsInv /\ (~wild => ExactInv)
<1>1. TInit => Inv
  <2> SUFFICES ASSUME TInit PROVE FitsInv
    BY ExactStart
  <2>1. tk = Start /\ len = 0
    BY DEF TInit
  <2>2. Start \in Tk /\ Start \in Inside /\ Start.out = <<>> /\ ~Start.last_c
    BY DEF Start, Tk, Inside
  <2>3. Weight(Start) = 0
    BY <2>2, Weights
  <2>4. QED
    BY <2>1, <2>2, <2>3 DEF FitsInv
<1>2. Inv /\ [TNext]_tvars => Inv'
  <2> SUFFICES ASSUME Inv, [TNext]_tvars PROVE FitsInv'
    BY ExactStep
  <2>1. (~wild => ExactInv)'
    BY ExactStep
  <2>2. ASSUME NEW text \in Seq(Bytes), NEW ts, Write(text, ts) PROVE FitsInv'
    <3>1. tk' \in Inside
      BY <2>1, <2>2 DEF Write, ExactInv
    <3>2. QED
      BY <2>2, <3>1, WriteFits
  <2>3. CASE WriteWord
    <3>1. PICK w \in Words : Write(w, <<w>>)
      BY <2>3 DEF WriteWord
    <3>2. QED
      BY <2>2, <3>1, WrittenBytes
  <2>4. CASE WriteSeparator
    <3>1. PICK c \in Separators : Write(<<c>>, <<<<c>>>>)
      BY <2>4 DEF WriteSeparator
    <3>2. QED
      BY <2>2, <3>1, WrittenBytes
  <2>5. CASE WriteBlank
    <3>1. PICK c \in Blanks : Write(<<c>>, <<>>)
      BY <2>5 DEF WriteBlank
    <3>2. QED
      BY <2>2, <3>1, WrittenBytes
  <2>6. CASE WriteString
    <3>1. PICK s \in Strings : Write(Quote(s), <<s>>)
      BY <2>6 DEF WriteString
    <3>2. QED
      BY <2>2, <3>1, WrittenBytes
  <2>7. CASE UNCHANGED tvars
    BY <2>7 DEF tvars, FitsInv, Weight
  <2>8. QED
    BY <2>3, <2>4, <2>5, <2>6, <2>7, CharFits DEF TNext
<1>3. Inv => BlockFits
  <2> SUFFICES ASSUME FitsInv PROVE BlockFits
    OBVIOUS
  <2> DEFINE e == end_word(tk)
  <2>1. /\ e \in Tk /\ Len(e.out) <= Weight(tk) /\ (tk \in Inside => e \in Inside)
        /\ Weight(tk) <= 2 * len /\ len \in Nat /\ Weight(tk) \in Nat /\ (~zeroes => tk \in Inside)
    BY EndWordTk, Weights DEF FitsInv
  <2>2. owfd_rtsp_tokenize(tk) = e
    BY DEF owfd_rtsp_tokenize
  <2> HIDE DEF e
  <2>3. Len(e.out) \in Nat
    BY <2>1 DEF Tk
  <2>4. Len(e.out) <= BlockSize(len)
    BY <2>1, <2>3 DEF BlockSize
  <2>5. e.stray => zeroes
    BY <2>1 DEF Inside
  <2>6. QED
    BY <2>2, <2>4, <2>5 DEF BlockFits
<1> HIDE DEF Inv
<1>4. QED
  BY <1>1, <1>2, <1>3, PTL DEF TSpec

-----------------------------------------------------------------------------
\* A closed channel is not connected, has nothing to send and was not written.
ClosedIsClean ==
  fd = None => ~connected /\ out_ring = <<>> /\ ~flushed

\* The open connection is the last one that was opened, and a connection that
\* is not connected was not reported.
Numbering ==
  /\ fd # None => fd = opened
  /\ notified # None => notified <= opened
  /\ connected => notified = fd
  /\ fd # None /\ ~connected => notified # fd

\* While the callback runs the dispatched connection can go, but a connection
\* that replaced it is not connected; recv_all and send_all run connected.
DispatchInv ==
  /\ pc \notin InCallback \cup {"idle"} => fd = dispatched /\ fd # None
  /\ pc \in InCallback /\ connected => fd = dispatched
  /\ pc \in InCallback => dispatched # None
  /\ pc \in {"read", "write"} => connected
  /\ pc \in {"in", "cb_in", "read"} => rounds > 0

\* The inductive invariant of the channel.
IInv ==
  /\ TypeOK
  /\ NoStaleBytes
  /\ QueuedIsArmed
  /\ ClosedIsClean
  /\ Numbering
  /\ DispatchInv

USE CtrlAssumption DEF Conn, InCallback

\* A new channel satisfies the invariant.
LEMMA InitOK == Init => IInv
<1> SUFFICES ASSUME Init PROVE IInv
  OBVIOUS
<1>1. TypeOK
  <2>1. out_ring \in Seq(Conn) /\ events \subseteq {"IN", "OUT", "HUP"}
    BY DEF Init
  <2>2. fd = None /\ opened = 0 /\ rounds = 0 /\ pc = "idle"
        /\ dispatched = None /\ notified = None
    BY DEF Init
  <2>3. connected \in BOOLEAN /\ cb \in BOOLEAN /\ epollout \in BOOLEAN /\ flushed \in BOOLEAN
    BY Zenon DEF Init
  <2>4. QED
    BY <2>1, <2>2, <2>3 DEF TypeOK
<1>2. NoStaleBytes /\ QueuedIsArmed /\ ClosedIsClean /\ Numbering /\ DispatchInv
  BY DEF Init, NoStaleBytes, QueuedIsArmed, ClosedIsClean, Numbering, DispatchInv
<1>3. QED
  BY <1>1, <1>2 DEF IInv

\* A step that changes nothing of the channel and goes to a label that the
\* invariant allows.
LEMMA GotoOK ==
  ASSUME IInv, NEW l \in {"read", "out", "write", "hup", "idle"}, Goto(l),
         l # "idle" => fd = dispatched /\ fd # None,
         l \in {"read", "write"} => connected,
         l = "read" => rounds > 0
  PROVE  IInv'
<1>1. TypeOK'
  BY DEF IInv, TypeOK, Goto, channel
<1>2. NoStaleBytes' /\ QueuedIsArmed' /\ ClosedIsClean' /\ Numbering'
  BY DEF IInv, NoStaleBytes, QueuedIsArmed, ClosedIsClean, Numbering, Goto, channel
<1>3. DispatchInv'
  BY DEF IInv, DispatchInv, Goto, channel
<1>4. QED
  BY <1>1, <1>2, <1>3 DEF IInv

\* Closing leaves a clean channel.
LEMMA ClosedOK ==
  ASSUME IInv, Closed, UNCHANGED <<events, rounds, dispatched, notified>>,
         pc' \in InCallback \cup {"idle"}, pc' = pc \/ pc' = "idle"
  PROVE  IInv'
<1>1. TypeOK'
  <2>1. out_ring' \in Seq(Conn)
    BY DEF Closed
  <2>2. fd' = None /\ opened' = opened
        /\ connected' = FALSE /\ cb' = FALSE /\ epollout' = FALSE /\ flushed' = FALSE
    BY DEF Closed
  <2>3. QED
    BY <2>1, <2>2 DEF IInv, TypeOK
<1>2. NoStaleBytes' /\ QueuedIsArmed' /\ ClosedIsClean' /\ Numbering'
  BY DEF IInv, TypeOK, NoStaleBytes, QueuedIsArmed, ClosedIsClean, Numbering, Closed
<1>3. DispatchInv'
  BY DEF IInv, DispatchInv, Closed
<1>4. QED
  BY <1>1, <1>2, <1>3 DEF IInv

\* So does the close at the end of a failed dispatch.
LEMMA FailOK ==
  ASSUME IInv, Fail
  PROVE  IInv'
<1>1. CASE is_open
  BY <1>1, ClosedOK DEF Fail
<1>2. CASE ~is_open
  <2>1. Goto("idle")
    BY <1>2 DEF Fail, Goto
  <2>2. QED
    BY <2>1, GotoOK
<1>3. QED
  BY <1>1, <1>2

\* Reporting a connection, with or without a callback.
LEMMA ConnectDoneOK ==
  ASSUME IInv, NEW back \in {"cb_in", "cb_out"}, NEW next \in {"read", "write"},
         pc \in {"in", "out"}, connect_done(back, next),
         back = "cb_in" \/ next = "read" => rounds > 0
  PROVE  IInv'
<1>1. TypeOK'
  BY DEF IInv, TypeOK, DispatchInv, connect_done
<1>2. NoStaleBytes' /\ QueuedIsArmed' /\ ClosedIsClean' /\ Numbering'
  BY DEF IInv, TypeOK, NoStaleBytes, QueuedIsArmed, ClosedIsClean, Numbering,
     DispatchInv, connect_done
<1>3. DispatchInv'
  BY DEF IInv, DispatchInv, connect_done
<1>4. QED
  BY <1>1, <1>2, <1>3 DEF IInv

\* Whatever the user calls, inside the callback or outside.
LEMMA UserCallOK ==
  ASSUME IInv, UserCall
  PROVE  IInv'
<1>1. CASE owfd_rtsp_ctrl_close
  BY <1>1, ClosedOK DEF UserCall, owfd_rtsp_ctrl_close
<1>2. ASSUME NEW withCb \in BOOLEAN, owfd_rtsp_ctrl_open_tcp_fd(withCb) PROVE IInv'
  <2>1. TypeOK'
    <3>1. fd' = opened + 1 /\ opened' = opened + 1 /\ opened + 1 \in Conn
          /\ out_ring' = out_ring /\ flushed' = flushed
      BY <1>2 DEF IInv, TypeOK, owfd_rtsp_ctrl_open_tcp_fd
    <3>2. pc' = pc /\ events' = events /\ rounds' = rounds
          /\ dispatched' = dispatched /\ notified' = notified
      BY DEF UserCall
    <3>3. connected' \in BOOLEAN /\ cb' \in BOOLEAN /\ epollout' \in BOOLEAN
      BY <1>2, Zenon DEF owfd_rtsp_ctrl_open_tcp_fd
    <3>4. QED
      BY <3>1, <3>2, <3>3 DEF IInv, TypeOK
  <2>2. NoStaleBytes' /\ QueuedIsArmed' /\ ClosedIsClean'
    BY <1>2 DEF IInv, NoStaleBytes, QueuedIsArmed, ClosedIsClean, is_open,
       owfd_rtsp_ctrl_open_tcp_fd
  <2>3. Numbering'
    BY <1>2 DEF IInv, TypeOK, Numbering, UserCall, owfd_rtsp_ctrl_open_tcp_fd
  <2>4. DispatchInv'
    BY <1>2 DEF IInv, DispatchInv, UserCall, owfd_rtsp_ctrl_open_tcp_fd
  <2>5. QED
    BY <2>1, <2>2, <2>3, <2>4 DEF IInv
<1>3. CASE owfd_rtsp_ctrl_send
  <2>1. TypeOK'
    BY <1>3 DEF IInv, TypeOK, UserCall, owfd_rtsp_ctrl_send, is_open
  <2>2. NoStaleBytes'
    BY <1>3 DEF IInv, TypeOK, NoStaleBytes, owfd_rtsp_ctrl_send
  <2>3. QueuedIsArmed' /\ ClosedIsClean' /\ Numbering'
    BY <1>3 DEF IInv, TypeOK, QueuedIsArmed, ClosedIsClean, Numbering, UserCall,
       is_open, owfd_rtsp_ctrl_send
  <2>4. DispatchInv'
    BY <1>3 DEF IInv, DispatchInv, UserCall, owfd_rtsp_ctrl_send
  <2>5. QED
    BY <2>1, <2>2, <2>3, <2>4 DEF IInv
<1>4. QED
  BY <1>1, <1>2, <1>3 DEF UserCall

\* The start of a dispatch.
LEMMA EpollWaitOK ==
  ASSUME IInv, NEW evs \in SUBSET {"IN", "OUT", "HUP"}, epoll_wait(evs)
  PROVE  IInv'
<1>1. TypeOK'
  BY DEF IInv, TypeOK, epoll_wait, channel, is_open
<1>2. NoStaleBytes' /\ QueuedIsArmed' /\ ClosedIsClean' /\ Numbering'
  BY DEF IInv, NoStaleBytes, QueuedIsArmed, ClosedIsClean, Numbering, epoll_wait, channel
<1>3. DispatchInv'
  BY DEF IInv, DispatchInv, epoll_wait, channel, is_open
<1>4. QED
  BY <1>1, <1>2, <1>3 DEF IInv

\* One read of recv_all.
LEMMA RecvOK ==
  ASSUME IInv, recv_all
  PROVE  IInv'
<1>1. CASE Fail
  BY <1>1, FailOK
<1>2. CASE Goto("out")
  BY <1>2, GotoOK DEF recv_all, IInv, DispatchInv
<1>3. CASE /\ rounds' = rounds - 1
           /\ pc' = IF cb THEN "cb_read" ELSE IF rounds > 1 THEN "read" ELSE "out"
           /\ UNCHANGED <<channel, events, dispatched, notified>>
  <2>1. TypeOK'
    BY <1>3 DEF IInv, TypeOK, DispatchInv, recv_all, channel
  <2>2. NoStaleBytes' /\ QueuedIsArmed' /\ ClosedIsClean' /\ Numbering'
    BY <1>3 DEF IInv, NoStaleBytes, QueuedIsArmed, ClosedIsClean, Numbering, channel
  <2>3. DispatchInv'
    BY <1>3 DEF IInv, TypeOK, DispatchInv, recv_all, channel
  <2>4. QED
    BY <2>1, <2>2, <2>3 DEF IInv
<1>4. QED
  BY <1>1, <1>2, <1>3 DEF recv_all

\* The write of send_all.
LEMMA SendOK ==
  ASSUME IInv, send_all
  PROVE  IInv'
<1>1. CASE Fail
  BY <1>1, FailOK
<1>2. CASE Goto("hup")
  BY <1>2, GotoOK DEF send_all, IInv, DispatchInv
<1>3. CASE /\ epollout' = FALSE
           /\ flushed' = (flushed \/ out_ring # <<>>)
           /\ pc' = "hup"
           /\ UNCHANGED <<fd, connected, cb, out_ring, opened, events, rounds, dispatched, notified>>
  <2>1. TypeOK'
    BY <1>3 DEF IInv, TypeOK
  <2>2. NoStaleBytes' /\ QueuedIsArmed' /\ ClosedIsClean' /\ Numbering'
    BY <1>3 DEF IInv, NoStaleBytes, QueuedIsArmed, ClosedIsClean, Numbering
  <2>3. DispatchInv'
    BY <1>3 DEF IInv, DispatchInv, send_all
  <2>4. QED
    BY <2>1, <2>2, <2>3 DEF IInv
<1>4. QED
  BY <1>1, <1>2, <1>3 DEF send_all

\* Every step keeps the invariant: one case per step of the dispatch.
LEMMA StepOK ==
  ASSUME IInv, [Next]_vars
  PROVE  IInv'
<1>1. CASE dispatch_in
  <2>1. CASE Goto("out")
    BY <1>1, <2>1, GotoOK DEF dispatch_in, IInv, DispatchInv
  <2>2. CASE connected /\ Goto("read")
    BY <1>1, <2>2, GotoOK DEF dispatch_in, IInv, DispatchInv
  <2>3. CASE connect_done("cb_in", "read")
    BY <1>1, <2>3, ConnectDoneOK DEF dispatch_in, IInv, DispatchInv
  <2>4. QED
    BY <1>1, <2>1, <2>2, <2>3 DEF dispatch_in
<1>2. CASE dispatch_out
  <2>1. CASE Goto("hup")
    BY <1>2, <2>1, GotoOK DEF dispatch_out, IInv, DispatchInv
  <2>2. CASE connected /\ Goto("write")
    BY <1>2, <2>2, GotoOK DEF dispatch_out, IInv, DispatchInv
  <2>3. CASE connect_done("cb_out", "write")
    BY <1>2, <2>3, ConnectDoneOK DEF dispatch_out
  <2>4. QED
    BY <1>2, <2>1, <2>2, <2>3 DEF dispatch_out
<1>3. CASE dispatch_hup
  BY <1>3, FailOK, GotoOK DEF dispatch_hup
<1>4. CASE connect_done_returns
  <2>1. CASE ~connected
    BY <1>4, <2>1, FailOK DEF connect_done_returns
  <2>2. CASE connected /\ Goto("read") /\ pc = "cb_in"
    BY <2>2, GotoOK DEF IInv, DispatchInv
  <2>3. CASE connected /\ Goto("write") /\ pc = "cb_out"
    BY <2>3, GotoOK DEF IInv, DispatchInv
  <2>4. QED
    BY <1>4, <2>1, <2>2, <2>3 DEF connect_done_returns
<1>5. CASE recv_all_returns
  <2>1. CASE ~connected
    BY <1>5, <2>1, FailOK DEF recv_all_returns
  <2>2. CASE connected /\ Goto("read") /\ rounds > 0
    BY <1>5, <2>2, GotoOK DEF recv_all_returns, IInv, DispatchInv
  <2>3. CASE connected /\ Goto("out")
    BY <1>5, <2>3, GotoOK DEF recv_all_returns, IInv, DispatchInv
  <2>4. QED
    BY <1>5, <2>1, <2>2, <2>3 DEF recv_all_returns
<1>6. CASE UNCHANGED vars
  BY <1>6 DEF vars, channel, IInv, TypeOK, NoStaleBytes, QueuedIsArmed, ClosedIsClean,
     Numbering, DispatchInv
<1>7. QED
  BY <1>1, <1>2, <1>3, <1>4, <1>5, <1>6, UserCallOK, EpollWaitOK, RecvOK, SendOK DEF Next

-----------------------------------------------------------------------------
\* For any number of connections and any callback: no byte queued for one
\* connection is left for another, a dispatch never goes on with a connection
\* other than the one it was called for, and unsent bytes are waited for until
\* the first complete write.
THEOREM ChannelSafety ==
  Spec => [](TypeOK /\ NoStaleBytes /\ DispatchOnOwnConnection /\ QueuedIsArmed)
<1>1. Init => IInv
  BY InitOK
<1>2. IInv /\ [Next]_vars => IInv'
  BY StepOK
<1>3. IInv => TypeOK /\ NoStaleBytes /\ DispatchOnOwnConnection /\ QueuedIsArmed
  BY DEF IInv, DispatchInv, DispatchOnOwnConnection
<1>4. QED
  BY <1>1, <1>2, <1>3, PTL DEF Spec

\* For any number of connections and any callback, owfd_rtsp_ctrl_close and
\* owfd_rtsp_ctrl_open_tcp_fd leave no byte of one connection for another.
THEOREM NoStaleBytesProved == Spec => []NoStaleBytes
BY ChannelSafety, PTL

\* For any number of connections and any callback, owfd_rtsp_ctrl_dispatch goes on
\* only with the connection whose events it has.
THEOREM OwnConnectionProved == Spec => []DispatchOnOwnConnection
BY ChannelSafety, PTL

\* For any number of connections and any callback, the bytes that
\* owfd_rtsp_ctrl_send has queued are waited for until the first complete write.
THEOREM QueuedIsArmedProved == Spec => []QueuedIsArmed
BY ChannelSafety, PTL

\* A step that enters the callback enters it in the right order.
LEMMA OrderOK ==
  ASSUME IInv, [Next]_vars
  PROVE  /\ pc' \in {"cb_in", "cb_out"} /\ pc # pc' => notified # fd
         /\ pc' = "cb_read" /\ pc # pc' => notified = fd /\ connected
<1>1. CASE dispatch_in \/ dispatch_out
  BY <1>1 DEF dispatch_in, dispatch_out, Goto, connect_done, IInv, Numbering, DispatchInv
<1>2. CASE recv_all
  BY <1>2 DEF recv_all, Fail, Goto, IInv, Numbering, DispatchInv
<1>3. CASE UserCall \/ UNCHANGED vars
  BY <1>3 DEF UserCall, vars
<1>4. CASE dispatch_hup \/ connect_done_returns \/ recv_all_returns \/ send_all
  BY <1>4 DEF dispatch_hup, connect_done_returns, recv_all_returns, send_all, Fail, Goto
<1>5. ASSUME NEW evs, epoll_wait(evs) PROVE pc' = "in"
  BY <1>5 DEF epoll_wait
<1>6. QED
  BY <1>1, <1>2, <1>3, <1>4, <1>5 DEF Next

\* For any number of connections and any callback: a connection is reported to
\* the callback once, and before any of its data.
THEOREM CallbackOrderProved == Spec => CallbackOrder
<1>1. Init => IInv
  BY InitOK
<1>2. IInv /\ [Next]_vars => IInv'
  BY StepOK
<1>3. IInv /\ [Next]_vars =>
        [/\ pc' \in {"cb_in", "cb_out"} /\ pc # pc' => notified # fd
         /\ pc' = "cb_read" /\ pc # pc' => notified = fd /\ connected]_vars
  BY OrderOK
<1>4. QED
  BY <1>1, <1>2, <1>3, PTL DEF Spec, CallbackOrder

=============================================================================

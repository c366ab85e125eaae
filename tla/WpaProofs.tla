----------------------------- MODULE WpaProofs ------------------------------
(***************************************************************************)
(* Proofs about WpaParser and WpaCtrl.                                     *)
(*                                                                         *)
(* WpaParser: no string is lost, whichever allocation fails, and an event  *)
(* is read as wpa_supplicant meant it, for device names of any length.     *)
(* Induction over a text is by the least-element principle on sets of      *)
(* naturals; a fold is turned into the trace of the states between two     *)
(* pieces.                                                                 *)
(*                                                                         *)
(* WpaCtrl, for every maximal timeout, timer period and length of the      *)
(* sockets' queues: a request ends within its time, it returns its own     *)
(* reply unless an earlier one was given up, and the events of an open     *)
(* connection are kept for the callback.                                   *)
(***************************************************************************)
EXTENDS WpaCtrl, WpaParser, FiniteSetTheorems, SequenceTheorems, WellFoundedInduction, TLAPS

\* The members of a struct owfd_wpa_event.
Fields == {"type", "priority", "raw", "mac", "role", "string"}

\* A struct owfd_wpa_event that holds a string only if its type is one for which
\* the reset frees it.
Owns(e) == DOMAIN e = Fields /\ (e.string # NULL => e.type \in StringTypes)

\* What is allocated is counted, and the reset frees all of it.
LEMMA OwnsFreed ==
  ASSUME NEW e, Owns(e)
  PROVE  /\ owfd_wpa_event_reset(e) = Allocated(e)
         /\ Cardinality(Allocated(e)) \in Nat
<1>1. IsFiniteSet({"raw", "string"})
  <2>1. IsFiniteSet({"string"})
    BY FS_Singleton
  <2>2. IsFiniteSet({"string"} \cup {"raw"})
    BY <2>1, FS_AddElement
  <2>3. {"string"} \cup {"raw"} = {"raw", "string"}
    OBVIOUS
  <2>4. QED
    BY <2>2, <2>3
<1>2. Allocated(e) \subseteq {"raw", "string"}
  BY DEF Allocated
<1>3. Cardinality(Allocated(e)) \in Nat
  BY <1>1, <1>2, FS_Subset, FS_CardinalityType
<1>4. owfd_wpa_event_reset(e) = Allocated(e)
  BY DEF owfd_wpa_event_reset, Allocated, Owns
<1>5. QED
  BY <1>3, <1>4

\* A cleared struct holds nothing.
LEMMA InitOwns ==
  Owns(owfd_wpa_event_init) /\ Cardinality(Allocated(owfd_wpa_event_init)) = 0
<1>1. Owns(owfd_wpa_event_init)
  BY DEF Owns, Fields, owfd_wpa_event_init
<1>2. Allocated(owfd_wpa_event_init) = {}
  BY DEF Allocated, owfd_wpa_event_init
<1>3. QED
  BY <1>1, <1>2, FS_EmptySet

\* The parsers that allocate a string are those of the types whose reset frees it;
\* the others leave the pointer alone, wherever they stop.
LEMMA PayloadOwns ==
  ASSUME NEW e, Owns(e), e.string = NULL, e.type \in event_list, NEW ts, NEW mem
  PROVE  Owns(parse_payload(e, ts, mem).ev)
<1> USE DEF Result, strdup, parse_mac
<1> DEFINE r == parse_payload(e, ts, mem)
<1>1. CASE e.type \in MacTypes
  <2>1. r = parse_mac_event(e, ts)
    BY <1>1 DEF parse_payload, MacTypes, PlainTypes
  <2>2. QED
    BY <2>1 DEF parse_mac_event, Owns, Fields
<1>2. CASE e.type = "P2P_DEVICE_FOUND"
  <2>1. r = parse_p2p_device_found(e, ts, mem)
    BY <1>2 DEF parse_payload, MacTypes, PlainTypes
  <2>2. QED
    BY <1>2, <2>1 DEF parse_p2p_device_found, Owns, Fields, StringTypes
<1>3. CASE e.type = "P2P_GO_NEG_SUCCESS"
  <2>1. r = parse_p2p_go_neg_success(e, ts)
    BY <1>3 DEF parse_payload, MacTypes, PlainTypes
  <2>2. QED
    BY <2>1 DEF parse_p2p_go_neg_success, Owns, Fields
<1>4. CASE e.type = "P2P_GROUP_STARTED"
  <2>1. r = parse_p2p_group_started(e, ts, mem)
    BY <1>4 DEF parse_payload, MacTypes, PlainTypes
  <2>2. QED
    BY <1>4, <2>1 DEF parse_p2p_group_started, Owns, Fields, StringTypes
<1>5. CASE e.type = "P2P_PROV_DISC_SHOW_PIN"
  <2>1. r = parse_p2p_prov_disc_show_pin(e, ts, mem)
    BY <1>5 DEF parse_payload, MacTypes, PlainTypes
  <2>2. QED
    BY <1>5, <2>1 DEF parse_p2p_prov_disc_show_pin, Owns, Fields, StringTypes
<1>6. CASE e.type \in PlainTypes
  <2>1. r = Result(e, "OK")
    BY <1>6 DEF parse_payload, MacTypes, PlainTypes
  <2>2. QED
    BY <2>1
<1>7. QED
  BY <1>1, <1>2, <1>3, <1>4, <1>5, <1>6 DEF event_list, StringTypes

\* Wherever owfd_wpa_event_parse stops.
LEMMA ParsedOwns ==
  ASSUME NEW prefix, NEW type, NEW ts, NEW fail
  PROVE  Owns(Parsed(prefix, type, ts, fail).ev)
<1> DEFINE e == [owfd_wpa_event_init EXCEPT !.priority = priority(prefix)]
           d == [e EXCEPT !.type = type]
           raw == [d EXCEPT !.raw = "text"]
<1>1. /\ DOMAIN e = Fields /\ DOMAIN d = Fields /\ DOMAIN raw = Fields
      /\ e.string = NULL /\ d.string = NULL /\ raw.string = NULL /\ raw.type = type
  BY DEF Fields, owfd_wpa_event_init
<1> HIDE DEF e, d, raw
<1>2. Owns(e) /\ Owns(d) /\ Owns(raw)
  BY <1>1 DEF Owns
<1>3. type \in event_list => Owns(parse_payload(raw, ts, fail # "string").ev)
  BY <1>1, <1>2, PayloadOwns
<1>4. \/ Parsed(prefix, type, ts, fail) = Result(e, "OK")
      \/ Parsed(prefix, type, ts, fail) = Result(d, ENOMEM)
      \/ Parsed(prefix, type, ts, fail) = Result(raw, ENOMEM)
      \/ type \in event_list /\ Parsed(prefix, type, ts, fail) = parse_payload(raw, ts, fail # "string")
  BY DEF Parsed, e, d, raw
<1>5. QED
  BY <1>2, <1>3, <1>4 DEF Result

\* The struct holds the strings that are allocated, and its type tells which.
LeakInv == NothingLeaks /\ Owns(ev)

\* Parsing into a struct that is in use frees what it held.
LEMMA ParseKeeps ==
  ASSUME LeakInv, NEW prefix, NEW type, NEW ts, owfd_wpa_event_parse(prefix, type, ts)
  PROVE  LeakInv'
<1>1. PICK fail \in Allocations :
        LET p == Parsed(prefix, type, ts, fail)
            freed == Cardinality(owfd_wpa_event_reset(ev))
                       + (IF p.r = "OK" THEN 0 ELSE Cardinality(owfd_wpa_event_reset(p.ev)))
        IN  /\ ev' = IF p.r = "OK" THEN p.ev ELSE owfd_wpa_event_init
            /\ live' = live - freed + Cardinality(Allocated(p.ev))
  BY DEF owfd_wpa_event_parse
<1> DEFINE p == Parsed(prefix, type, ts, fail)
           n == Cardinality(Allocated(ev))
           k == Cardinality(Allocated(p.ev))
<1>2. Owns(p.ev)
  BY ParsedOwns
<1>3. n \in Nat /\ k \in Nat /\ owfd_wpa_event_reset(ev) = Allocated(ev)
      /\ owfd_wpa_event_reset(p.ev) = Allocated(p.ev) /\ live = n
  BY <1>2, OwnsFreed DEF LeakInv, NothingLeaks
<1>4. /\ ev' = IF p.r = "OK" THEN p.ev ELSE owfd_wpa_event_init
      /\ live' = live - (n + (IF p.r = "OK" THEN 0 ELSE k)) + k
  BY <1>1, <1>3
<1> HIDE DEF p
<1>5. CASE p.r = "OK"
  <2>1. ev' = p.ev /\ live' = k
    <3> HIDE DEF n, k
    <3>1. QED
      BY <1>3, <1>4, <1>5
  <2>2. QED
    BY <1>2, <2>1 DEF LeakInv, NothingLeaks, Owns
<1>6. CASE p.r # "OK"
  <2>1. ev' = owfd_wpa_event_init /\ live' = 0
    <3> HIDE DEF n, k
    <3>1. QED
      BY <1>3, <1>4, <1>6
  <2>2. QED
    BY <2>1, InitOwns DEF LeakInv, NothingLeaks, Owns
<1>7. QED
  BY <1>5, <1>6

\* NothingLeaks, for every text and every event, however many are parsed in a row.
THEOREM NothingLeaksHolds == ESpec => []NothingLeaks
<1>1. EInit => LeakInv
  BY InitOwns DEF EInit, LeakInv, NothingLeaks
<1>2. LeakInv /\ [ENext]_evars => LeakInv'
  <2> SUFFICES ASSUME LeakInv, [ENext]_evars PROVE LeakInv'
    OBVIOUS
  <2>1. CASE ParseEvent
    BY <2>1, ParseKeeps DEF ParseEvent
  <2>2. CASE AddWord
    BY <2>2 DEF AddWord, LeakInv, NothingLeaks, Owns
  <2>3. CASE ParseText
    BY <2>3, ParseKeeps DEF ParseText
  <2>4. CASE Reset
    <3>1. live' = live - Cardinality(owfd_wpa_event_reset(ev)) /\ ev' = owfd_wpa_event_init
      BY <2>4 DEF Reset
    <3>2. live' = 0
      BY <3>1, OwnsFreed DEF LeakInv, NothingLeaks
    <3>3. QED
      BY <3>1, <3>2, InitOwns DEF LeakInv, NothingLeaks, Owns
  <2>5. CASE UNCHANGED evars
    BY <2>5 DEF evars, LeakInv, NothingLeaks, Owns, Allocated
  <2>6. QED
    BY <2>1, <2>2, <2>3, <2>4, <2>5 DEF ENext
<1>3. QED
  BY <1>1, <1>2, PTL DEF ESpec, LeakInv

-----------------------------------------------------------------------------
\* Induction over the naturals, for a set.
LEMMA SetInduction ==
  ASSUME NEW T, T \subseteq Nat, 0 \in T, \A n \in T : n + 1 \in T
  PROVE  Nat = T
<1> SUFFICES ASSUME Nat \ T # {} PROVE FALSE
  OBVIOUS
<1>1. PICK x \in Nat \ T : \A y \in Nat \ T : ~(<<y, x>> \in OpToRel(<, Nat))
  BY NatLessThanWellFounded, WFMin
<1>2. x \in Nat /\ x # 0 /\ x - 1 \in Nat /\ x = (x - 1) + 1
  OBVIOUS
<1>3. x - 1 \in Nat \ T
  BY <1>2
<1>4. ~(x - 1 < x)
  BY <1>1, <1>2, <1>3 DEF OpToRel
<1>5. QED
  BY <1>2, <1>4

\* The largest element of an interval and of a set that ends with k.
LEMMA MaxLast ==
  ASSUME NEW k \in Nat, NEW x, x \subseteq 1 .. k, k \in x
  PROVE  Max(x) = k
<1>1. \A y \in x : k >= y /\ y \in Int
  OBVIOUS
<1>2. \A z \in x : (\A y \in x : z >= y) => z = k
  BY <1>1
<1>3. QED
  BY <1>1, <1>2 DEF Max

\* What FoldLeft computes: the states h between two characters.
Round(g, t, s, x) == IF x = {} THEN t ELSE tokenize_char(g[x \ {Max(x)}], s[Max(x)])

\* The function on sets of indices that FoldLeft is defined by.
Folds(g, t, s, n) == g = [x \in SUBSET (1 .. n) |-> Round(g, t, s, x)]

\* The definition of FoldLeft by a fold over the set of indices has a solution.
LEMMA FoldExists ==
  ASSUME NEW t, NEW s, NEW k \in Nat
  PROVE  \E g : Folds(g, t, s, k)
<1> USE DEF Folds
<1> DEFINE Q(g, n) == Folds(g, t, s, n)
           T == {n \in Nat : \E g : Q(g, n)}
<1>1. 0 \in T
  <2> DEFINE g == [x \in {{}} |-> t]
  <2>1. SUBSET (1 .. 0) = {{}}
    OBVIOUS
  <2>2. Q(g, 0)
    BY <2>1 DEF Folds, Round
  <2>3. QED
    BY <2>2
<1>2. ASSUME NEW n \in T PROVE n + 1 \in T
  <2>1. PICK g : Q(g, n)
    OBVIOUS
  <2> DEFINE m == n + 1
             h == [x \in SUBSET (1 .. m) |->
                     IF m \in x THEN tokenize_char(g[x \ {m}], s[m]) ELSE g[x]]
  <2>2. n \in Nat /\ m \in Nat
    OBVIOUS
  <2>3. \A x \in SUBSET (1 .. n) : x \in SUBSET (1 .. m) /\ m \notin x
    BY <2>2
  <2>4. \A x \in SUBSET (1 .. n) : h[x] = g[x]
    BY <2>3
  <2>5. ASSUME NEW x \in SUBSET (1 .. m) PROVE h[x] = Round(h, t, s, x)
    <3>1. CASE m \in x
      <4>1. x \ {m} \in SUBSET (1 .. n)
        BY <2>2
      <4>2. Max(x) = m
        BY <2>2, <3>1, MaxLast
      <4>3. h[x] = tokenize_char(g[x \ {m}], s[m])
        BY <3>1
      <4>4. h[x \ {m}] = g[x \ {m}]
        BY <2>4, <4>1
      <4> HIDE DEF h
      <4>5. QED
        BY <3>1, <4>2, <4>3, <4>4 DEF Round
    <3>2. CASE m \notin x
      <4>1. x \in SUBSET (1 .. n)
        BY <2>2, <3>2
      <4>2. h[x] = g[x]
        BY <2>4, <4>1
      <4>3. g[x] = Round(g, t, s, x)
        BY <2>1, <4>1
      <4>4. x # {} => h[x \ {Max(x)}] = g[x \ {Max(x)}]
        BY <2>4, <4>1
      <4> HIDE DEF h
      <4>5. QED
        BY <4>2, <4>3, <4>4 DEF Round
    <3>3. QED
      BY <3>1, <3>2
  <2>6. Q(h, m)
    <3>1. h = [x \in SUBSET (1 .. m) |-> h[x]]
      OBVIOUS
    <3> HIDE DEF h
    <3>2. QED
      BY <2>5, <3>1, Zenon
  <2>7. QED
    BY <2>2, <2>6
<1>3. k \in T
  BY <1>1, <1>2, SetInduction, Zenon
<1>4. QED
  BY <1>3

\* The locals of tokenize between two pieces of s.
Trace(h, t, s) == h[0] = t /\ \A i \in 1 .. Len(s) : h[i] = tokenize_char(h[i - 1], s[i])

\* FoldLeft ends a trace of the pieces.
LEMMA FoldTrace ==
  ASSUME NEW C, NEW s \in Seq(C), NEW t
  PROVE  \E h : Trace(h, t, s) /\ FoldLeft(tokenize_char, t, s) = h[Len(s)]
<1> DEFINE n == Len(s)
           Q(g) == Folds(g, t, s, n)
           c == CHOOSE g : Q(g)
           h == [i \in 0 .. n |-> c[1 .. i]]
<1>1. n \in Nat /\ DOMAIN s = 1 .. n
  OBVIOUS
<1>2. Q(c)
  <2>1. \E g : Q(g)
    BY <1>1, FoldExists
  <2>2. QED
    BY <2>1
<1>3. FoldLeft(tokenize_char, t, s) = c[1 .. n]
  BY <1>1 DEF FoldLeft, MapThenFoldSet, Folds, Round
<1> HIDE DEF c
<1>4. h[0] = t
  <2>1. 1 .. 0 = {} /\ {} \in SUBSET (1 .. n) /\ 0 \in 0 .. n
    BY <1>1
  <2>2. c[{}] = t
    BY <1>2, <2>1 DEF Folds, Round
  <2>3. QED
    BY <2>1, <2>2
<1>5. ASSUME NEW i \in 1 .. n PROVE h[i] = tokenize_char(h[i - 1], s[i])
  <2>1. /\ i \in Nat /\ i \in 0 .. n /\ i - 1 \in 0 .. n /\ i \in 1 .. i
        /\ 1 .. i \in SUBSET (1 .. n) /\ (1 .. i) \ {i} = 1 .. (i - 1)
    BY <1>1
  <2>2. Max(1 .. i) = i
    BY <2>1, MaxLast
  <2>3. c[1 .. i] = tokenize_char(c[1 .. (i - 1)], s[i])
    BY <1>2, <2>1, <2>2 DEF Folds, Round
  <2>4. QED
    BY <2>1, <2>3
<1>6. h[n] = c[1 .. n]
  BY <1>1
<1> HIDE DEF h
<1>7. QED
  BY <1>3, <1>4, <1>5, <1>6 DEF Trace

\* A trace of the characters ends where FoldLeft does.
LEMMA FoldUnique ==
  ASSUME NEW C, NEW s \in Seq(C), NEW t, NEW f, Trace(f, t, s)
  PROVE  FoldLeft(tokenize_char, t, s) = f[Len(s)]
<1>1. PICK h : Trace(h, t, s) /\ FoldLeft(tokenize_char, t, s) = h[Len(s)]
  BY FoldTrace
<1> DEFINE T == {n \in Nat : n <= Len(s) => f[n] = h[n]}
<1>2. 0 \in T
  BY <1>1 DEF Trace
<1>3. ASSUME NEW n \in T PROVE n + 1 \in T
  <2>1. CASE n + 1 <= Len(s)
    <3>1. n + 1 \in 1 .. Len(s) /\ (n + 1) - 1 = n /\ f[n] = h[n]
      BY <2>1
    <3>2. f[n + 1] = tokenize_char(f[n], s[n + 1]) /\ h[n + 1] = tokenize_char(h[n], s[n + 1])
      BY <1>1, <3>1 DEF Trace
    <3>3. QED
      BY <3>1, <3>2
  <2>2. QED
    BY <2>1
<1>4. Len(s) \in T
  <2>1. T \subseteq Nat /\ Len(s) \in Nat
    OBVIOUS
  <2> HIDE DEF T
  <2>2. QED
    BY <1>2, <1>3, <2>1, SetInduction, Zenon
<1>5. QED
  BY <1>1, <1>4

\* Two parts of a text are read one after the other.
LEMMA FoldConcat ==
  ASSUME NEW C, NEW a \in Seq(C), NEW b \in Seq(C), NEW t
  PROVE  FoldLeft(tokenize_char, t, a \o b) = FoldLeft(tokenize_char, FoldLeft(tokenize_char, t, a), b)
<1> DEFINE u == FoldLeft(tokenize_char, t, a)
           v == FoldLeft(tokenize_char, u, b)
           m == Len(a)
           n == Len(b)
           c == a \o b
<1>1. PICK h : Trace(h, t, a) /\ u = h[m]
  BY FoldTrace
<1>2. PICK k : Trace(k, u, b) /\ v = k[n]
  BY FoldTrace
<1> HIDE DEF u, v
<1>0. /\ h[0] = t /\ k[0] = u
      /\ \A i \in 1 .. m : h[i] = tokenize_char(h[i - 1], a[i])
      /\ \A i \in 1 .. n : k[i] = tokenize_char(k[i - 1], b[i])
  BY <1>1, <1>2 DEF Trace
<1> DEFINE f == [i \in 0 .. m + n |-> IF i <= m THEN h[i] ELSE k[i - m]]
<1>3. /\ m \in Nat /\ n \in Nat /\ c \in Seq(C) /\ Len(c) = m + n
      /\ \A i \in 1 .. m : c[i] = a[i]
      /\ \A i \in m + 1 .. m + n : c[i] = b[i - m]
  OBVIOUS
<1> HIDE DEF m, n, c
<1>4. f[0] = t
  BY <1>0, <1>1, <1>3
<1>5. ASSUME NEW i \in 1 .. m + n PROVE f[i] = tokenize_char(f[i - 1], c[i])
  <2>1. CASE i <= m
    <3>1. i \in 1 .. m /\ i \in 0 .. m + n /\ i - 1 \in 0 .. m + n /\ i - 1 <= m
      BY <1>3, <2>1
    <3>2. f[i] = h[i] /\ f[i - 1] = h[i - 1] /\ c[i] = a[i]
      BY <1>3, <2>1, <3>1
    <3>3. QED
      BY <1>0, <1>1, <3>1, <3>2
  <2>2. CASE i = m + 1
    <3>1. i \in 0 .. m + n /\ i - 1 \in 0 .. m + n /\ i - 1 <= m /\ ~(i <= m) /\ i - m = 1 /\ i - 1 = m
          /\ i \in m + 1 .. m + n /\ 1 \in 1 .. n
      BY <1>3, <2>2
    <3>2. f[i] = k[1] /\ f[i - 1] = h[m] /\ c[i] = b[1]
      BY <1>3, <3>1
    <3>3. k[1] = tokenize_char(k[0], b[1])
      BY <1>0, <1>2, <3>1
    <3>4. QED
      BY <1>0, <1>1, <1>2, <3>2, <3>3
  <2>3. CASE i > m + 1
    <3>1. i \in 0 .. m + n /\ i - 1 \in 0 .. m + n /\ ~(i - 1 <= m) /\ ~(i <= m)
          /\ (i - 1) - m = (i - m) - 1 /\ i \in m + 1 .. m + n /\ i - m \in 1 .. n
      BY <1>3, <2>3
    <3>2. f[i] = k[i - m] /\ f[i - 1] = k[(i - m) - 1] /\ c[i] = b[i - m]
      BY <1>3, <3>1
    <3>3. QED
      BY <1>0, <1>2, <3>1, <3>2
  <2>4. QED
    BY <1>3, <2>1, <2>2, <2>3
<1>6. f[m + n] = v
  <2>1. CASE n = 0
    BY <1>0, <1>1, <1>2, <1>3, <2>1
  <2>2. CASE n # 0
    <3>1. m + n \in 0 .. m + n /\ ~(m + n <= m) /\ (m + n) - m = n
      BY <1>3, <2>2
    <3>2. QED
      BY <1>0, <1>2, <3>1
  <2>3. QED
    BY <2>1, <2>2
<1> HIDE DEF f
<1>7. FoldLeft(tokenize_char, t, c) = f[m + n]
  <2>1. \A i \in 1 .. Len(c) : f[i] = tokenize_char(f[i - 1], c[i])
    BY <1>3, <1>5
  <2>2. FoldLeft(tokenize_char, t, c) = f[Len(c)]
    BY <1>3, <1>4, <2>1, FoldUnique DEF Trace
  <2>3. QED
    BY <1>3, <2>2
<1>8. QED
  BY <1>6, <1>7 DEF c, v, u

\* Texts of at most two pieces.
LEMMA FoldFew ==
  ASSUME NEW C, NEW c \in C, NEW d \in C, NEW t
  PROVE  /\ FoldLeft(tokenize_char, t, <<>>) = t
         /\ FoldLeft(tokenize_char, t, <<c>>) = tokenize_char(t, c)
         /\ FoldLeft(tokenize_char, t, <<c, d>>) = tokenize_char(tokenize_char(t, c), d)
<1>1. FoldLeft(tokenize_char, t, <<>>) = t
  <2>1. <<>> \in Seq(C) /\ Len(<<>>) = 0
    OBVIOUS
  <2>2. \E h : Trace(h, t, <<>>) /\ FoldLeft(tokenize_char, t, <<>>) = h[Len(<<>>)]
    BY <2>1, FoldTrace, Zenon
  <2>3. QED
    BY <2>1, <2>2 DEF Trace
<1>2. FoldLeft(tokenize_char, t, <<c>>) = tokenize_char(t, c)
  <2>1. <<c>> \in Seq(C) /\ Len(<<c>>) = 1
    OBVIOUS
  <2>2. PICK h : Trace(h, t, <<c>>) /\ FoldLeft(tokenize_char, t, <<c>>) = h[Len(<<c>>)]
    BY <2>1, FoldTrace
  <2>3. h[0] = t /\ h[1] = tokenize_char(h[0], c)
    BY <2>1, <2>2 DEF Trace
  <2>4. QED
    BY <2>1, <2>2, <2>3
<1>3. FoldLeft(tokenize_char, t, <<c, d>>) = tokenize_char(tokenize_char(t, c), d)
  <2>1. <<c, d>> \in Seq(C) /\ Len(<<c, d>>) = 2
    OBVIOUS
  <2>2. PICK h : Trace(h, t, <<c, d>>) /\ FoldLeft(tokenize_char, t, <<c, d>>) = h[Len(<<c, d>>)]
    BY <2>1, FoldTrace
  <2>3. h[0] = t /\ h[1] = tokenize_char(h[0], c) /\ h[2] = tokenize_char(h[1], d)
    <3>1. 1 \in 1 .. Len(<<c, d>>) /\ 2 \in 1 .. Len(<<c, d>>) /\ 1 - 1 = 0 /\ 2 - 1 = 1
      BY <2>1
    <3>2. QED
      BY <2>2, <3>1 DEF Trace
  <2>4. QED
    BY <2>1, <2>2, <2>3
<1>4. QED
  BY <1>1, <1>2, <1>3

-----------------------------------------------------------------------------
\* FlattenSeq, as it is defined.
Flattens(g, ss, m) == g = [i \in 1 .. m |-> IF i = 1 THEN ss[i] ELSE g[i - 1] \o ss[i]]

\* The recursion has a solution.
LEMMA FlattenExists ==
  ASSUME NEW ss, NEW k \in Nat
  PROVE  \E g : Flattens(g, ss, k)
<1> DEFINE T == {n \in Nat : \E g : Flattens(g, ss, n)}
<1>1. 0 \in T
  <2> DEFINE g == [i \in 1 .. 0 |-> 0]
  <2>1. Flattens(g, ss, 0)
    BY DEF Flattens
  <2>2. QED
    BY <2>1
<1>2. ASSUME NEW n \in T PROVE n + 1 \in T
  <2>1. PICK g : Flattens(g, ss, n)
    OBVIOUS
  <2> DEFINE h == [i \in 1 .. n + 1 |->
                     IF i = n + 1 THEN (IF i = 1 THEN ss[i] ELSE g[i - 1] \o ss[i]) ELSE g[i]]
  <2>2. ASSUME NEW i \in 1 .. n + 1 PROVE h[i] = IF i = 1 THEN ss[i] ELSE h[i - 1] \o ss[i]
    <3>1. CASE i = n + 1
      <4>1. i # 1 => i - 1 \in 1 .. n /\ h[i - 1] = g[i - 1]
        BY <3>1
      <4>2. QED
        BY <3>1, <4>1
    <3>2. CASE i \in 1 .. n
      <4>1. h[i] = g[i] /\ (i # 1 => i - 1 \in 1 .. n /\ h[i - 1] = g[i - 1])
        BY <3>2
      <4>2. g[i] = IF i = 1 THEN ss[i] ELSE g[i - 1] \o ss[i]
        BY <2>1, <3>2 DEF Flattens
      <4> HIDE DEF h
      <4>3. QED
        BY <4>1, <4>2
    <3>3. QED
      BY <3>1, <3>2
  <2>3. h = [i \in 1 .. n + 1 |-> h[i]]
    OBVIOUS
  <2> HIDE DEF h
  <2>4. Flattens(h, ss, n + 1)
    BY <2>2, <2>3, Zenon DEF Flattens
  <2>5. QED
    BY <2>4
<1>3. k \in T
  BY <1>1, <1>2, SetInduction, Zenon
<1>4. QED
  BY <1>3

\* FlattenSeq puts one part after the other.
Grows(p, ss, C) ==
  /\ p[0] = <<>>
  /\ \A k \in 0 .. Len(ss) : p[k] \in Seq(C)
  /\ \A k \in 1 .. Len(ss) : p[k] = p[k - 1] \o ss[k]

\* So FlattenSeq is the last of the concatenations p.
LEMMA FlattenGrows ==
  ASSUME NEW C, NEW ss \in Seq(Seq(C))
  PROVE  \E p : Grows(p, ss, C) /\ FlattenSeq(ss) = p[Len(ss)]
<1> DEFINE n == Len(ss)
           g == CHOOSE f : Flattens(f, ss, n)
           p == [k \in 0 .. n |-> IF k = 0 THEN <<>> ELSE g[k]]
<1>1. n \in Nat /\ \A k \in 1 .. n : ss[k] \in Seq(C)
  OBVIOUS
<1>2. Flattens(g, ss, n)
  <2>1. \E f : Flattens(f, ss, n)
    BY <1>1, FlattenExists
  <2>2. QED
    BY <2>1
<1>3. FlattenSeq(ss) = IF n = 0 THEN <<>> ELSE g[n]
  BY DEF FlattenSeq, Flattens
<1> HIDE DEF g
<1>4. ss = <<>> <=> n = 0
  OBVIOUS
<1> HIDE DEF n
<1>5. \A k \in 1 .. n : g[k] = IF k = 1 THEN ss[k] ELSE g[k - 1] \o ss[k]
  BY <1>1, <1>2 DEF Flattens
<1>6. p[0] = <<>> /\ FlattenSeq(ss) = p[n]
  BY <1>1, <1>3
<1>7. ASSUME NEW k \in 1 .. n PROVE p[k] = p[k - 1] \o ss[k]
  <2>1. k \in 0 .. n /\ k - 1 \in 0 .. n /\ ss[k] \in Seq(C)
    BY <1>1
  <2>2. CASE k = 1
    <3>1. p[k] = ss[k] /\ p[k - 1] = <<>>
      BY <1>5, <2>1, <2>2
    <3>2. <<>> \o ss[k] = ss[k]
      BY <2>1
    <3>3. QED
      BY <3>1, <3>2
  <2>3. CASE k # 1
    <3>1. k - 1 # 0 /\ k # 0
      BY <2>1, <2>3
    <3>2. p[k] = g[k] /\ p[k - 1] = g[k - 1]
      BY <2>1, <3>1
    <3> HIDE DEF p
    <3>3. QED
      BY <1>5, <2>3, <3>2
  <2>4. QED
    BY <2>2, <2>3
<1> HIDE DEF p
<1> DEFINE T == {k \in Nat : k <= n => p[k] \in Seq(C)}
<1>8. 0 \in T
  <2>1. <<>> \in Seq(C)
    OBVIOUS
  <2>2. QED
    BY <1>6, <2>1
<1>9. ASSUME NEW k \in T PROVE k + 1 \in T
  <2>1. CASE k + 1 <= n
    <3>1. k + 1 \in 1 .. n /\ (k + 1) - 1 = k /\ p[k] \in Seq(C)
      BY <1>1, <2>1
    <3>2. p[k + 1] = p[k] \o ss[k + 1] /\ ss[k + 1] \in Seq(C)
      BY <1>1, <1>7, <3>1
    <3>3. p[k] \o ss[k + 1] \in Seq(C)
      BY <3>1, <3>2
    <3>4. p[k + 1] \in Seq(C)
      BY <3>2, <3>3, Zenon
    <3>5. QED
      BY <3>4
  <2>2. QED
    BY <2>1
<1>10. Nat = T
  <2>1. T \subseteq Nat
    OBVIOUS
  <2> HIDE DEF T
  <2>2. QED
    BY <1>8, <1>9, <2>1, SetInduction, Zenon
<1>11. \A k \in 0 .. n : p[k] \in Seq(C)
  BY <1>1, <1>10
<1>12. QED
  BY <1>6, <1>7, <1>11 DEF n, Grows

-----------------------------------------------------------------------------
(* tokenize undoes what wpa_supplicant does.                               *)

\* The pieces that texts consist of.
Pieces ==
  STRING \cup {" ", "'", "\\", "mac", "x", "GO", "client", "name=", "role=", "peer_dev=", "go_dev_addr="}

\* The locals of tokenize when no piece is escaped.
St(ws, w, q, l) == [words |-> ws, word |-> w, quoted |-> q, escaped |-> FALSE, last_c |-> l]

\* The text w, in front of a blank, is read as the token v.
Reads(w, v) == \A ws : FoldLeft(tokenize_char, St(ws, <<>>, FALSE, FALSE), w) = St(ws, v, FALSE, TRUE)

\* One piece, where none is escaped.
LEMMA PieceSteps ==
  ASSUME NEW ws, NEW w, NEW l \in BOOLEAN, NEW c
  PROVE  /\ c \notin {" ", "'"} => tokenize_char(St(ws, w, FALSE, l), c) = St(ws, Append(w, c), FALSE, TRUE)
         /\ tokenize_char(St(ws, w, FALSE, TRUE), " ") = St(Append(ws, w), <<>>, FALSE, FALSE)
         /\ tokenize_char(St(ws, w, FALSE, l), "'") = St(ws, w, TRUE, TRUE)
         /\ tokenize_char(St(ws, w, TRUE, TRUE), "'") = St(ws, w, FALSE, TRUE)
<1>1. c \notin {" ", "'"} => tokenize_char(St(ws, w, FALSE, l), c) = St(ws, Append(w, c), FALSE, TRUE)
  BY DEF tokenize_char, St, keep
<1>2. tokenize_char(St(ws, w, FALSE, TRUE), " ") = St(Append(ws, w), <<>>, FALSE, FALSE)
  BY DEF tokenize_char, St, finish_word
<1>3. tokenize_char(St(ws, w, FALSE, l), "'") = St(ws, w, TRUE, TRUE)
  BY DEF tokenize_char, St
<1>4. tokenize_char(St(ws, w, TRUE, TRUE), "'") = St(ws, w, FALSE, TRUE)
  BY DEF tokenize_char, St
<1>5. QED
  BY <1>1, <1>2, <1>3, <1>4

\* How a piece is written in apostrophes.
Escaped(c) == IF c \in {"'", "\\"} THEN <<"\\", c>> ELSE <<c>>

\* In apostrophes a piece is read as it was meant.
LEMMA PieceQuoted ==
  ASSUME NEW ws, NEW w, NEW c \in Pieces
  PROVE  /\ FoldLeft(tokenize_char, St(ws, w, TRUE, TRUE), Escaped(c)) = St(ws, Append(w, c), TRUE, TRUE)
         /\ Escaped(c) \in Seq(Pieces)
<1> DEFINE t == St(ws, w, TRUE, TRUE)
<1>1. "\\" \in Pieces
  BY DEF Pieces
<1>2. CASE c \in {"'", "\\"}
  <2>1. Escaped(c) = <<"\\", c>>
    BY <1>2 DEF Escaped
  <2>2. FoldLeft(tokenize_char, t, <<"\\", c>>) = tokenize_char(tokenize_char(t, "\\"), c)
    BY <1>1, FoldFew
  <2>3. tokenize_char(t, "\\") = [t EXCEPT !.escaped = TRUE]
    BY DEF tokenize_char, St
  <2>4. tokenize_char([t EXCEPT !.escaped = TRUE], c) = St(ws, Append(w, c), TRUE, TRUE)
    BY DEF tokenize_char, St, keep
  <2>5. <<"\\", c>> \in Seq(Pieces)
    BY <1>1
  <2>6. QED
    BY <2>1, <2>2, <2>3, <2>4, <2>5
<1>3. CASE c \notin {"'", "\\"}
  <2>1. Escaped(c) = <<c>>
    BY <1>3 DEF Escaped
  <2>2. FoldLeft(tokenize_char, t, <<c>>) = tokenize_char(t, c)
    BY FoldFew
  <2>3. tokenize_char(t, c) = St(ws, Append(w, c), TRUE, TRUE)
    BY <1>3 DEF tokenize_char, St, keep
  <2>4. <<c>> \in Seq(Pieces)
    OBVIOUS
  <2>5. QED
    BY <2>1, <2>2, <2>3, <2>4
<1>4. QED
  BY <1>2, <1>3

\* The first i elements.
Upto(s, i) == SubSeq(s, 1, i)

\* The beginnings of a sequence.
Begins(s) ==
  /\ Upto(s, 0) = <<>> /\ Upto(s, Len(s)) = s
  /\ \A i \in 0 .. Len(s) - 1 : Upto(s, i + 1) = Append(Upto(s, i), s[i + 1])

\* Each is the one before it and one element.
LEMMA BeginsOf ==
  ASSUME NEW C, NEW s \in Seq(C)
  PROVE  Begins(s)
<1>1. ASSUME NEW i \in 0 .. Len(s) - 1 PROVE SubSeq(s, 1, i + 1) = Append(SubSeq(s, 1, i), s[i + 1])
  OBVIOUS
<1>2. SubSeq(s, 1, Len(s)) = s /\ SubSeq(s, 1, 0) = <<>>
  OBVIOUS
<1>3. QED
  BY <1>1, <1>2, Zenon DEF Upto, Begins

\* The pieces of a name, as they are written.
Parts(s) == [i \in DOMAIN s |-> Escaped(s[i])]

\* They are what stands between the apostrophes.
LEMMA PartsOf ==
  ASSUME NEW s \in Seq(Pieces)
  PROVE  /\ Parts(s) \in Seq(Seq(Pieces)) /\ Len(Parts(s)) = Len(s)
         /\ \A i \in 1 .. Len(s) : Parts(s)[i] = Escaped(s[i])
         /\ InApostrophes(s) = <<"'">> \o FlattenSeq(Parts(s)) \o <<"'">>
<1>1. \A c \in Pieces : Escaped(c) \in Seq(Pieces)
  BY PieceQuoted
<1> DEFINE q == Parts(s)
           n == Len(s)
<1>2. q \in [1 .. n -> Seq(Pieces)] /\ n \in Nat
  BY <1>1 DEF Parts
<1>3. \A i \in 1 .. n : q[i] = Escaped(s[i])
  BY DEF Parts
<1>4. InApostrophes(s) = <<"'">> \o FlattenSeq(q) \o <<"'">>
  BY DEF InApostrophes, Parts, Escaped
<1> HIDE DEF q, n
<1>5. q \in Seq(Seq(Pieces)) /\ Len(q) = n
  BY <1>2
<1>6. QED
  BY <1>3, <1>4, <1>5 DEF q, n

\* A name in apostrophes is read piece by piece.
LEMMA NameQuoted ==
  ASSUME NEW s \in Seq(Pieces), NEW ws, NEW w \in Seq(Pieces)
  PROVE  /\ FoldLeft(tokenize_char, St(ws, w, TRUE, TRUE), FlattenSeq(Parts(s))) = St(ws, w \o s, TRUE, TRUE)
         /\ FlattenSeq(Parts(s)) \in Seq(Pieces)
<1> DEFINE n == Len(s)
           q == Parts(s)
           t == St(ws, w, TRUE, TRUE)
<1>0. n \in Nat /\ \A i \in 1 .. n : s[i] \in Pieces
  OBVIOUS
<1>1. q \in Seq(Seq(Pieces)) /\ Len(q) = n /\ \A i \in 1 .. n : q[i] = Escaped(s[i])
  BY PartsOf
<1>2. /\ Upto(s, 0) = <<>> /\ Upto(s, n) = s
      /\ \A i \in 0 .. n - 1 : Upto(s, i + 1) = Append(Upto(s, i), s[i + 1])
  BY BeginsOf DEF Begins
<1>3. \A i \in 0 .. n : Upto(s, i) \in Seq(Pieces)
  BY DEF Upto
<1> HIDE DEF q, n
<1>4. PICK p : Grows(p, q, Pieces) /\ FlattenSeq(q) = p[Len(q)]
  BY <1>1, FlattenGrows
<1>5. /\ p[0] = <<>> /\ FlattenSeq(q) = p[n]
      /\ \A k \in 0 .. n : p[k] \in Seq(Pieces)
      /\ \A k \in 1 .. n : p[k] = p[k - 1] \o q[k]
  BY <1>1, <1>4 DEF Grows
<1> HIDE DEF t
<1> DEFINE Q(i) == FoldLeft(tokenize_char, t, p[i]) = St(ws, w \o Upto(s, i), TRUE, TRUE)
<1> DEFINE T == {i \in Nat : i <= n => Q(i)}
<1>6. 0 \in T
  <2>1. FoldLeft(tokenize_char, t, <<>>) = t
    BY FoldFew, " " \in Pieces DEF Pieces
  <2>2. w \o <<>> = w
    OBVIOUS
  <2>3. Q(0)
    BY <1>2, <1>5, <2>1, <2>2 DEF t
  <2> HIDE DEF Q
  <2>4. QED
    BY <2>3
<1>7. ASSUME NEW i \in T PROVE i + 1 \in T
  <2>1. CASE i + 1 <= n
    <3> DEFINE c == s[i + 1]
               x == Upto(s, i)
               y == w \o x
               u == St(ws, y, TRUE, TRUE)
    <3>1. i + 1 \in 1 .. n /\ (i + 1) - 1 = i /\ i \in 0 .. n /\ i \in 0 .. n - 1 /\ Q(i)
      <4> HIDE DEF Q
      <4>1. QED
        BY <1>0, <2>1
    <3>2. /\ p[i + 1] = p[i] \o Escaped(c) /\ c \in Pieces /\ x \in Seq(Pieces)
          /\ Upto(s, i + 1) = Append(x, c) /\ p[i] \in Seq(Pieces)
      BY <1>0, <1>1, <1>2, <1>3, <1>5, <3>1
    <3> HIDE DEF c, x
    <3>3. w \o Append(x, c) = Append(y, c)
      BY <3>2
    <3> HIDE DEF y
    <3>4. FoldLeft(tokenize_char, u, Escaped(c)) = St(ws, Append(y, c), TRUE, TRUE) /\ Escaped(c) \in Seq(Pieces)
      BY <3>2, PieceQuoted
    <3> HIDE DEF u
    <3>5. FoldLeft(tokenize_char, t, p[i] \o Escaped(c))
            = FoldLeft(tokenize_char, FoldLeft(tokenize_char, t, p[i]), Escaped(c))
      BY <3>2, <3>4, FoldConcat
    <3>6. Q(i + 1)
      BY <3>1, <3>2, <3>3, <3>4, <3>5, Zenon DEF u, y, x
    <3> HIDE DEF Q
    <3>7. QED
      BY <3>6
  <2> HIDE DEF Q
  <2>2. QED
    BY <2>1
<1>8. n \in T
  <2>1. T \subseteq Nat
    OBVIOUS
  <2> HIDE DEF T
  <2>2. QED
    BY <1>0, <1>6, <1>7, <2>1, SetInduction, Zenon
<1>9. FoldLeft(tokenize_char, t, p[n]) = St(ws, w \o s, TRUE, TRUE)
  <2>1. n <= n
    BY <1>0
  <2>2. QED
    BY <1>2, <1>8, <2>1, Zenon
<1>10. n \in 0 .. n
  BY <1>0
<1>11. QED
  BY <1>5, <1>9, <1>10 DEF q, t

\* Short sequences.
LEMMA AppendFew ==
  ASSUME NEW C, NEW c \in C, NEW d \in C
  PROVE  /\ Append(<<>>, c) = <<c>> /\ Append(<<c>>, d) = <<c, d>>
         /\ <<c>> \in Seq(C) /\ <<c, d>> \in Seq(C)
<1>1. Append(<<>>, c) = <<c>>
  OBVIOUS
<1>2. Append(<<c>>, d) = <<c, d>>
  <2> DEFINE a == Append(<<c>>, d)
             b == <<c, d>>
  <2>1. a \in Seq(C) /\ b \in Seq(C) /\ Len(a) = 2 /\ Len(b) = 2 /\ a[1] = c /\ a[2] = d /\ b[1] = c /\ b[2] = d
    OBVIOUS
  <2> HIDE DEF a, b
  <2>2. a = b
    BY <2>1
  <2>3. QED
    BY <2>2 DEF a, b
<1>3. <<c>> \in Seq(C) /\ <<c, d>> \in Seq(C)
  OBVIOUS
<1>4. QED
  BY <1>1, <1>2, <1>3

\* A word of one or two pieces, and the name of a device after its key.
LEMMA WordReads ==
  ASSUME NEW c \in Pieces \ {" ", "'"}, NEW d \in Pieces \ {" ", "'"}
  PROVE  Reads(<<c>>, <<c>>) /\ Reads(<<c, d>>, <<c, d>>)
<1> DEFINE t(ws) == St(ws, <<>>, FALSE, FALSE)
<1>1. Append(<<>>, c) = <<c>> /\ Append(<<c>>, d) = <<c, d>>
  BY AppendFew
<1>2. c \notin {" ", "'"} /\ d \notin {" ", "'"}
  OBVIOUS
<1>3. ASSUME NEW ws
      PROVE  /\ FoldLeft(tokenize_char, t(ws), <<c>>) = St(ws, <<c>>, FALSE, TRUE)
             /\ FoldLeft(tokenize_char, t(ws), <<c, d>>) = St(ws, <<c, d>>, FALSE, TRUE)
  <2> DEFINE u == t(ws)
  <2>1. tokenize_char(u, c) = St(ws, <<c>>, FALSE, TRUE)
    <3>1. tokenize_char(u, c) = St(ws, Append(<<>>, c), FALSE, TRUE)
      BY <1>2 DEF tokenize_char, St, keep
    <3>2. QED
      BY <1>1, <3>1, Zenon
  <2>2. tokenize_char(St(ws, <<c>>, FALSE, TRUE), d) = St(ws, <<c, d>>, FALSE, TRUE)
    <3>1. tokenize_char(St(ws, <<c>>, FALSE, TRUE), d) = St(ws, Append(<<c>>, d), FALSE, TRUE)
      BY <1>2 DEF tokenize_char, St, keep
    <3>2. QED
      BY <1>1, <3>1, Zenon
  <2> HIDE DEF u
  <2>3. /\ FoldLeft(tokenize_char, u, <<c>>) = tokenize_char(u, c)
        /\ FoldLeft(tokenize_char, u, <<c, d>>) = tokenize_char(tokenize_char(u, c), d)
    BY FoldFew
  <2>4. QED
    BY <2>1, <2>2, <2>3 DEF u
<1>4. QED
  BY <1>3 DEF Reads

\* The name of a device, after its key.
LEMMA NameReads ==
  ASSUME NEW s \in Seq(Pieces)
  PROVE  /\ Reads(<<"name=">> \o InApostrophes(s), <<"name=">> \o s)
         /\ <<"name=">> \o InApostrophes(s) \in Seq(Pieces)
<1> DEFINE k == "name="
           a == "'"
           f == FlattenSeq(Parts(s))
           x == InApostrophes(s)
<1>1. k \in Pieces /\ a \in Pieces /\ k \notin {" ", "'"}
  BY DEF Pieces
<1>2. x = <<a>> \o f \o <<a>>
  BY PartsOf, Zenon
<1>3. f \in Seq(Pieces)
  BY NameQuoted, <<>> \in Seq(Pieces)
<1> HIDE DEF x, f
<1>4. ASSUME NEW ws
      PROVE  FoldLeft(tokenize_char, St(ws, <<>>, FALSE, FALSE), <<k>> \o x) = St(ws, <<k>> \o s, FALSE, TRUE)
  <2> DEFINE t == St(ws, <<>>, FALSE, FALSE)
             u == St(ws, <<k>>, FALSE, TRUE)
             v == St(ws, <<k>>, TRUE, TRUE)
             y == St(ws, <<k>> \o s, TRUE, TRUE)
             z == St(ws, <<k>> \o s, FALSE, TRUE)
  <2>1. FoldLeft(tokenize_char, t, <<k>>) = u
    BY <1>1, WordReads DEF Reads
  <2>2. tokenize_char(u, a) = v
    BY PieceSteps
  <2>3. FoldLeft(tokenize_char, v, f) = y
    BY <1>1, NameQuoted, <<k>> \in Seq(Pieces) DEF f
  <2>4. tokenize_char(y, a) = z
    BY PieceSteps
  <2> HIDE DEF t, u, v, y, z, a, k
  <2>5. /\ <<k>> \in Seq(Pieces) /\ <<a>> \in Seq(Pieces) /\ <<a>> \o f \in Seq(Pieces)
        /\ (<<a>> \o f) \o <<a>> \in Seq(Pieces)
    <3>1. <<k>> \in Seq(Pieces) /\ <<a>> \in Seq(Pieces)
      BY <1>1, AppendFew, Zenon
    <3>2. QED
      BY <1>3, <3>1
  <2>6. FoldLeft(tokenize_char, t, <<k>> \o x) = FoldLeft(tokenize_char, u, x)
    BY <1>2, <2>1, <2>5, FoldConcat
  <2>7. FoldLeft(tokenize_char, u, (<<a>> \o f) \o <<a>>)
          = FoldLeft(tokenize_char, FoldLeft(tokenize_char, u, <<a>> \o f), <<a>>)
    BY <2>5, FoldConcat
  <2>8. FoldLeft(tokenize_char, u, <<a>> \o f) = FoldLeft(tokenize_char, FoldLeft(tokenize_char, u, <<a>>), f)
    BY <1>3, <2>5, FoldConcat
  <2>9. FoldLeft(tokenize_char, u, <<a>>) = v /\ FoldLeft(tokenize_char, y, <<a>>) = z
    BY <1>1, <2>2, <2>4, FoldFew
  <2>10. FoldLeft(tokenize_char, t, <<k>> \o x) = z
    BY <1>2, <2>3, <2>6, <2>7, <2>8, <2>9, Zenon
  <2>11. QED
    BY <2>10 DEF t, z
<1> HIDE DEF k, a
<1>5. <<k>> \o x \in Seq(Pieces)
  <2>1. <<k>> \in Seq(Pieces) /\ <<a>> \in Seq(Pieces)
    BY <1>1, AppendFew, Zenon
  <2>2. x \in Seq(Pieces)
    BY <1>2, <1>3, <2>1
  <2>3. QED
    BY <2>1, <2>2
<1>6. QED
  BY <1>4, <1>5, Zenon DEF Reads, k, x

\* tokenize yields the words, one after the other.
LEMMA SpacedReads ==
  ASSUME NEW ws \in Seq(Seq(Pieces)), NEW vs \in Seq(Seq(Pieces)), Len(vs) = Len(ws),
         \A i \in 1 .. Len(ws) : Reads(ws[i], vs[i])
  PROVE  tokenize(Spaced(ws)) = vs
<1> DEFINE n == Len(ws)
           b == " "
           q == [i \in DOMAIN ws |-> ws[i] \o <<b>>]
           t == St(<<>>, <<>>, FALSE, FALSE)
<1>0. n \in Nat /\ DOMAIN ws = 1 .. n /\ \A i \in 1 .. n : ws[i] \in Seq(Pieces)
  OBVIOUS
<1>1. Spaced(ws) = FlattenSeq(q)
  BY DEF Spaced
<1>2. <<b>> \in Seq(Pieces) /\ b \in Pieces
  <2>1. b \in Pieces
    BY DEF Pieces
  <2>2. QED
    BY <2>1, AppendFew, Zenon
<1>3. /\ Upto(vs, 0) = <<>> /\ Upto(vs, n) = vs
      /\ \A i \in 0 .. n - 1 : Upto(vs, i + 1) = Append(Upto(vs, i), vs[i + 1])
  <2>1. Begins(vs)
    BY BeginsOf
  <2>2. QED
    BY <2>1, Zenon DEF Begins
<1>5. \A w, v : tokenize_char(St(w, v, FALSE, TRUE), b) = St(Append(w, v), <<>>, FALSE, FALSE)
  BY DEF tokenize_char, St, finish_word
<1>6. tokenize(Spaced(ws)) = finish_word(FoldLeft(tokenize_char, t, Spaced(ws))).words
  BY DEF tokenize, St
<1>7. \A i \in 1 .. n : Reads(ws[i], vs[i])
  OBVIOUS
<1> HIDE DEF n, b
<1>8. q \in Seq(Seq(Pieces)) /\ Len(q) = n /\ \A i \in 1 .. n : q[i] = ws[i] \o <<b>>
  <2>1. \A i \in 1 .. n : ws[i] \o <<b>> \in Seq(Pieces)
    <3> SUFFICES ASSUME NEW i \in 1 .. n PROVE ws[i] \o <<b>> \in Seq(Pieces)
      OBVIOUS
    <3> DEFINE x == ws[i]
               y == <<b>>
    <3>1. x \in Seq(Pieces) /\ y \in Seq(Pieces)
      BY <1>0, <1>2
    <3> HIDE DEF x, y
    <3>2. x \o y \in Seq(Pieces)
      BY <3>1
    <3>3. QED
      BY <3>2 DEF x, y
  <2>2. q \in [1 .. n -> Seq(Pieces)] /\ \A i \in 1 .. n : q[i] = ws[i] \o <<b>>
    BY <1>0, <2>1
  <2> HIDE DEF q
  <2>3. q \in Seq(Seq(Pieces)) /\ Len(q) = n
    BY <1>0, <2>2
  <2>4. QED
    BY <2>2, <2>3
<1> HIDE DEF q, t
<1>9. PICK p : Grows(p, q, Pieces) /\ FlattenSeq(q) = p[Len(q)]
  BY <1>8, FlattenGrows
<1>10. /\ p[0] = <<>> /\ FlattenSeq(q) = p[n]
       /\ \A k \in 0 .. n : p[k] \in Seq(Pieces)
       /\ \A k \in 1 .. n : p[k] = p[k - 1] \o q[k]
  BY <1>8, <1>9 DEF Grows
<1> DEFINE Q(i) == FoldLeft(tokenize_char, t, p[i]) = St(Upto(vs, i), <<>>, FALSE, FALSE)
<1> DEFINE T == {i \in Nat : i <= n => Q(i)}
<1>11. 0 \in T
  <2>1. FoldLeft(tokenize_char, t, <<>>) = t
    BY <1>2, FoldFew
  <2>2. Q(0)
    BY <1>3, <1>10, <2>1 DEF t
  <2> HIDE DEF Q
  <2>3. QED
    BY <2>2
<1>12. ASSUME NEW i \in T PROVE i + 1 \in T
  <2>1. CASE i + 1 <= n
    <3> DEFINE w == ws[i + 1]
               v == vs[i + 1]
               x == Upto(vs, i)
               u == St(x, <<>>, FALSE, FALSE)
               y == St(x, v, FALSE, TRUE)
    <3>1. i + 1 \in 1 .. n /\ (i + 1) - 1 = i /\ i \in 0 .. n /\ i \in 0 .. n - 1 /\ Q(i)
      <4> HIDE DEF Q
      <4>1. QED
        BY <1>0, <2>1
    <3>2. /\ p[i + 1] = p[i] \o q[i + 1] /\ q[i + 1] = w \o <<b>> /\ p[i] \in Seq(Pieces)
          /\ w \in Seq(Pieces) /\ Upto(vs, i + 1) = Append(x, v) /\ q[i + 1] \in Seq(Pieces)
      <4>1. p[i + 1] = p[i] \o q[i + 1] /\ p[i] \in Seq(Pieces)
        BY <1>10, <3>1
      <4>2. q[i + 1] = w \o <<b>> /\ w \in Seq(Pieces) /\ q[i + 1] \in Seq(Pieces)
        <5>1. q[i + 1] = w \o <<b>>
          BY <1>8, <3>1, Zenon
        <5>2. w \in Seq(Pieces)
          BY <1>0, <3>1
        <5>3. q[i + 1] \in Seq(Pieces)
          <6> HIDE DEF w
          <6>1. QED
            BY <1>2, <5>1, <5>2
        <5>4. QED
          BY <5>1, <5>2, <5>3, Zenon
      <4>3. Upto(vs, i + 1) = Append(x, v)
        BY <1>3, <3>1
      <4>4. QED
        BY <4>1, <4>2, <4>3
    <3>3. FoldLeft(tokenize_char, u, w) = y
      BY <1>7, <3>1 DEF Reads
    <3>4. tokenize_char(y, b) = St(Append(x, v), <<>>, FALSE, FALSE)
      BY <1>5
    <3> HIDE DEF w, v, x, u, y
    <3>5. FoldLeft(tokenize_char, y, <<b>>) = tokenize_char(y, b)
      <4>1. b \in Pieces
        BY <1>2
      <4>2. QED
        BY <4>1, FoldFew
    <3>6. FoldLeft(tokenize_char, u, w \o <<b>>) = FoldLeft(tokenize_char, FoldLeft(tokenize_char, u, w), <<b>>)
      BY <1>2, <3>2, FoldConcat
    <3>7. FoldLeft(tokenize_char, t, p[i] \o q[i + 1])
            = FoldLeft(tokenize_char, FoldLeft(tokenize_char, t, p[i]), q[i + 1])
      BY <3>2, FoldConcat
    <3>8. Q(i + 1)
      BY <3>1, <3>2, <3>3, <3>4, <3>5, <3>6, <3>7, Zenon DEF u, x
    <3> HIDE DEF Q
    <3>9. QED
      BY <3>8
  <2> HIDE DEF Q
  <2>2. QED
    BY <2>1
<1>13. n \in T
  <2>1. T \subseteq Nat
    OBVIOUS
  <2> HIDE DEF T
  <2>2. QED
    BY <1>0, <1>11, <1>12, <2>1, SetInduction, Zenon
<1>14. FoldLeft(tokenize_char, t, p[n]) = St(vs, <<>>, FALSE, FALSE)
  <2>1. n <= n
    BY <1>0
  <2>2. QED
    BY <1>3, <1>13, <2>1, Zenon
<1>15. finish_word(St(vs, <<>>, FALSE, FALSE)).words = vs
  BY DEF finish_word, St
<1>16. QED
  BY <1>1, <1>6, <1>10, <1>14, <1>15, Zenon

-----------------------------------------------------------------------------
(* The events.                                                             *)

\* w is read as the token v.
Word(w, v) == w \in Seq(Pieces) /\ v \in Seq(Pieces) /\ Reads(w, v)

\* Texts of one word to four.
LEMMA Tokens1 ==
  ASSUME NEW a, NEW u, Word(a, u)
  PROVE  tokenize(Spaced(<<a>>)) = <<u>>
<1> DEFINE s == <<a>>
           t == <<u>>
<1>1. s \in Seq(Seq(Pieces)) /\ t \in Seq(Seq(Pieces)) /\ Len(s) = 1 /\ Len(t) = 1
  BY DEF Word
<1>2. \A i \in 1 .. 1 : Reads(s[i], t[i])
  BY DEF Word
<1> HIDE DEF s, t
<1>3. tokenize(Spaced(s)) = t
  BY <1>1, <1>2, SpacedReads
<1>4. QED
  BY <1>3 DEF s, t

\* Two words.
LEMMA Tokens2 ==
  ASSUME NEW a, NEW b, NEW u, NEW v, Word(a, u), Word(b, v)
  PROVE  tokenize(Spaced(<<a, b>>)) = <<u, v>>
<1> DEFINE s == <<a, b>>
           t == <<u, v>>
<1>1. s \in Seq(Seq(Pieces)) /\ t \in Seq(Seq(Pieces)) /\ Len(s) = 2 /\ Len(t) = 2
  BY DEF Word
<1>2. \A i \in 1 .. 2 : Reads(s[i], t[i])
  BY DEF Word
<1> HIDE DEF s, t
<1>3. tokenize(Spaced(s)) = t
  BY <1>1, <1>2, SpacedReads
<1>4. QED
  BY <1>3 DEF s, t

\* Three words.
LEMMA Tokens3 ==
  ASSUME NEW a, NEW b, NEW c, NEW u, NEW v, NEW w, Word(a, u), Word(b, v), Word(c, w)
  PROVE  tokenize(Spaced(<<a, b, c>>)) = <<u, v, w>>
<1> DEFINE s == <<a, b, c>>
           t == <<u, v, w>>
<1>1. s \in Seq(Seq(Pieces)) /\ t \in Seq(Seq(Pieces)) /\ Len(s) = 3 /\ Len(t) = 3
  BY DEF Word
<1>2. \A i \in 1 .. 3 : Reads(s[i], t[i])
  BY DEF Word
<1> HIDE DEF s, t
<1>3. tokenize(Spaced(s)) = t
  BY <1>1, <1>2, SpacedReads
<1>4. QED
  BY <1>3 DEF s, t

\* Four words.
LEMMA Tokens4 ==
  ASSUME NEW a, NEW b, NEW c, NEW d, NEW u, NEW v, NEW w, NEW x, Word(a, u), Word(b, v), Word(c, w), Word(d, x)
  PROVE  tokenize(Spaced(<<a, b, c, d>>)) = <<u, v, w, x>>
<1> DEFINE s == <<a, b, c, d>>
           t == <<u, v, w, x>>
<1>1. s \in Seq(Seq(Pieces)) /\ t \in Seq(Seq(Pieces)) /\ Len(s) = 4 /\ Len(t) = 4
  BY DEF Word
<1>2. \A i \in 1 .. 4 : Reads(s[i], t[i])
  BY DEF Word
<1> HIDE DEF s, t
<1>3. tokenize(Spaced(s)) = t
  BY <1>1, <1>2, SpacedReads
<1>4. QED
  BY <1>3 DEF s, t

\* A sequence over more elements.
LEMMA SeqOfMore ==
  ASSUME NEW A, NEW B, A \subseteq B, NEW s \in Seq(A)
  PROVE  s \in Seq(B)
  OBVIOUS

\* The words of wpa_supplicant that are not quoted.
LEMMA PlainWords ==
  /\ \A c \in {"mac", "x", "GO", "client"} : Word(<<c>>, <<c>>)
  /\ \A c \in {"role=", "peer_dev=", "go_dev_addr="}, d \in {"mac", "GO", "client"} : Word(<<c, d>>, <<c, d>>)
<1>1. \A c \in {"mac", "x", "GO", "client", "role=", "peer_dev=", "go_dev_addr="} : c \in Pieces \ {" ", "'"}
  BY DEF Pieces
<1>2. ASSUME NEW c \in {"mac", "x", "GO", "client"} PROVE Word(<<c>>, <<c>>)
  <2>1. c \in Pieces \ {" ", "'"} /\ c \in Pieces
    BY <1>1
  <2>2. Reads(<<c>>, <<c>>)
    BY <2>1, WordReads, Zenon
  <2>3. <<c>> \in Seq(Pieces)
    BY <2>1, AppendFew, Zenon
  <2>4. QED
    BY <2>2, <2>3 DEF Word
<1>3. ASSUME NEW c \in {"role=", "peer_dev=", "go_dev_addr="}, NEW d \in {"mac", "GO", "client"}
      PROVE  Word(<<c, d>>, <<c, d>>)
  <2>1. c \in Pieces \ {" ", "'"} /\ c \in Pieces /\ d \in Pieces \ {" ", "'"} /\ d \in Pieces
    BY <1>1
  <2>2. Reads(<<c, d>>, <<c, d>>)
    BY <2>1, WordReads, Zenon
  <2>3. <<c, d>> \in Seq(Pieces)
    BY <2>1, AppendFew, Zenon
  <2>4. QED
    BY <2>2, <2>3 DEF Word
<1>4. QED
  BY <1>2, <1>3

\* The one that is.
LEMMA NameWord ==
  ASSUME NEW s \in Names
  PROVE  Word(<<"name=">> \o InApostrophes(s), <<"name=">> \o s) /\ s \in Seq(Pieces)
<1>1. s \in Seq(Pieces)
  <2>1. s \in Seq(STRING)
    BY TextAssumption
  <2>2. STRING \subseteq Pieces
    BY DEF Pieces
  <2>3. QED
    BY <2>1, <2>2, SeqOfMore
<1>2. "name=" \in Pieces
  BY DEF Pieces
<1>3. <<"name=">> \in Seq(Pieces)
  BY <1>2, AppendFew, Zenon
<1>4. <<"name=">> \o s \in Seq(Pieces)
  BY <1>1, <1>3
<1>5. QED
  BY <1>1, <1>4, NameReads DEF Word

\* The event before its payload is read.
Raw(e) ==
  [type |-> e.type, priority |-> e.priority, raw |-> "text", mac |-> <<>>, role |-> "GO", string |-> NULL]

\* What was meant is what was read.
Same(e, r) ==
  r.r # ENOMEM =>
    /\ r.r = "OK" /\ r.ev.type = e.type /\ r.ev.priority = e.priority
    /\ r.ev.mac = e.mac /\ r.ev.role = e.role /\ r.ev.string = e.string

\* The events with an address only.
LEMMA MacSame ==
  ASSUME NEW e, e.type \in MacTypes, e.mac = <<"mac">>, e.role = "GO", e.string = NULL, NEW mem,
         NEW ws \in Renderings(e)
  PROVE  Same(e, parse_payload(Raw(e), tokenize(Spaced(ws)), mem))
<1> DEFINE m == <<"mac">>
           ts == <<m>>
<1>1. ws = <<m>>
  BY DEF Renderings, MacTypes, PlainTypes
<1>2. Word(m, m) /\ IsMac(m)
  BY PlainWords DEF IsMac
<1>3. parse_payload(Raw(e), ts, mem) = parse_mac_event(Raw(e), ts)
  BY DEF parse_payload, MacTypes, PlainTypes, Raw
<1>4. e.mac = m
  OBVIOUS
<1> HIDE DEF m
<1>5. tokenize(Spaced(ws)) = ts
  BY <1>1, <1>2, Tokens1
<1>6. Len(ts) = 1 /\ ts[1] = m
  OBVIOUS
<1> HIDE DEF ts
<1>7. parse_mac_event(Raw(e), ts) = Result([Raw(e) EXCEPT !.mac = m], "OK")
  BY <1>2, <1>6 DEF parse_mac_event, parse_mac
<1>8. QED
  BY <1>3, <1>4, <1>5, <1>7 DEF Same, Result, Raw

\* The events without a payload.
LEMMA PlainSame ==
  ASSUME NEW e, e.type \in PlainTypes, e.mac = <<>>, e.role = "GO", e.string = NULL, NEW mem, NEW ts
  PROVE  Same(e, parse_payload(Raw(e), ts, mem))
<1>1. parse_payload(Raw(e), ts, mem) = Result(Raw(e), "OK")
  BY DEF parse_payload, MacTypes, PlainTypes, Raw
<1>2. QED
  BY <1>1 DEF Same, Result, Raw

\* The last of the tokens is the first with the key.
LEMMA FirstAt ==
  ASSUME NEW ts, NEW n \in Nat, NEW key, Len(ts) \in Nat, n <= Len(ts),
         Key(ts[Len(ts)]) = key, \A i \in n .. Len(ts) - 1 : Key(ts[i]) # key
  PROVE  First(ts, n, key) = Len(ts)
<1> DEFINE k == Len(ts)
           I == {i \in n .. k : Key(ts[i]) = key}
<1>1. I = {k}
  OBVIOUS
<1>2. Min({k}) = k
  BY DEF Min
<1>3. First(ts, n, key) = IF I # {} THEN Min(I) ELSE 0
  BY DEF First, SelectInSubSeq
<1> HIDE DEF I
<1>4. QED
  BY <1>1, <1>2, <1>3

\* What follows a first element.
LEMMA Consed ==
  ASSUME NEW C, NEW k \in C, NEW s \in Seq(C)
  PROVE  <<k>> \o s # <<>> /\ (<<k>> \o s)[1] = k /\ Tail(<<k>> \o s) = s
<1> DEFINE a == <<k>>
           b == a \o s
<1>1. a \in Seq(C) /\ Len(a) = 1 /\ a[1] = k /\ Len(s) \in Nat
  OBVIOUS
<1> HIDE DEF a
<1>2. b \in Seq(C) /\ Len(b) = Len(a) + Len(s)
      /\ \A i \in 1 .. Len(a) + Len(s) : b[i] = IF i <= Len(a) THEN a[i] ELSE s[i - Len(a)]
  BY <1>1, ConcatProperties
<1> HIDE DEF b
<1>3. b # <<>> /\ b[1] = k
  BY <1>1, <1>2
<1>4. Tail(b) = s
  <2>1. Tail(b) \in Seq(C) /\ Len(Tail(b)) = Len(s) /\ \A i \in 1 .. Len(s) : Tail(b)[i] = b[i + 1]
    BY <1>1, <1>2
  <2>2. \A i \in 1 .. Len(s) : b[i + 1] = s[i]
    BY <1>1, <1>2
  <2>3. QED
    BY <2>1, <2>2
<1>5. QED
  BY <1>3, <1>4 DEF a, b

\* The key and the value of a token.
LEMMA KeyTail ==
  ASSUME NEW k \in Pieces, NEW s \in Seq(Pieces)
  PROVE  Key(<<k>> \o s) = k /\ Tail(<<k>> \o s) = s
  BY Consed, Zenon DEF Key

\* Words with another one between them, or without.
LEMMA WordsBetween ==
  ASSUME NEW C, NEW a \in C, NEW b \in C, NEW c \in C
  PROVE  /\ <<a>> \o <<>> \o <<c>> = <<a, c>> /\ <<a>> \o <<b>> \o <<c>> = <<a, b, c>>
         /\ <<a, b>> \o <<>> \o <<c>> = <<a, b, c>>
<1> DEFINE p == <<a>> \o <<>> \o <<c>>
           q == <<a>> \o <<b>> \o <<c>>
           r == <<a, b>> \o <<>> \o <<c>>
           s == <<a, c>>
           t == <<a, b, c>>
<1>1. /\ s \in Seq(C) /\ Len(s) = 2 /\ s[1] = a /\ s[2] = c
      /\ t \in Seq(C) /\ Len(t) = 3 /\ t[1] = a /\ t[2] = b /\ t[3] = c
  OBVIOUS
<1>2. p \in Seq(C) /\ Len(p) = 2 /\ p[1] = a /\ p[2] = c
  OBVIOUS
<1>3. q \in Seq(C) /\ Len(q) = 3 /\ q[1] = a /\ q[2] = b /\ q[3] = c
  OBVIOUS
<1>4. r \in Seq(C) /\ Len(r) = 3 /\ r[1] = a /\ r[2] = b /\ r[3] = c
  OBVIOUS
<1> HIDE DEF p, q, r, s, t
<1>5. p = s /\ q = t /\ r = t
  BY <1>1, <1>2, <1>3, <1>4
<1>6. QED
  BY <1>5 DEF p, q, r, s, t

\* And four of them.
LEMMA FourWords ==
  ASSUME NEW a \in Seq(Pieces), NEW b \in Seq(Pieces), NEW c \in Seq(Pieces), NEW d \in Seq(Pieces)
  PROVE  <<a, b>> \o <<c>> \o <<d>> = <<a, b, c, d>>
<1> DEFINE y == <<a, b, c, d>>
           z == <<a, b>> \o <<c>> \o <<d>>
<1>1. y \in Seq(Seq(Pieces)) /\ Len(y) = 4 /\ y[1] = a /\ y[2] = b /\ y[3] = c /\ y[4] = d
  OBVIOUS
<1>2. z \in Seq(Seq(Pieces)) /\ Len(z) = 4 /\ z[1] = a /\ z[2] = b /\ z[3] = c /\ z[4] = d
  OBVIOUS
<1> HIDE DEF y, z
<1>3. Len(z) = Len(y) /\ \A i \in 1 .. Len(z) : z[i] = y[i]
  BY <1>1, <1>2
<1>4. z = y
  BY <1>1, <1>2, <1>3, SeqEqual, Zenon
<1>5. QED
  BY <1>4 DEF y, z

\* An address and a string were read.
LEMMA StrdupSame ==
  ASSUME NEW e, NEW mem, NEW m, NEW s, e.mac = m, e.role = "GO", e.string = s
  PROVE  Same(e, strdup([Raw(e) EXCEPT !.mac = m], s, mem))
  BY DEF Same, strdup, Result, Raw

\* parse_p2p_device_found
LEMMA FoundSame ==
  ASSUME NEW e, e.type = "P2P_DEVICE_FOUND", e.mac = <<"mac">>, e.role = "GO", e.string \in Names, NEW mem,
         NEW ws \in Renderings(e)
  PROVE  Same(e, parse_payload(Raw(e), tokenize(Spaced(ws)), mem))
<1> DEFINE m == <<"mac">>
           x == <<"x">>
           k == "name="
           s == e.string
           n == <<"name=">> \o InApostrophes(s)
           v == <<"name=">> \o s
           R(ts) == parse_payload(Raw(e), ts, mem)
<1>1. ws \in {<<m>> \o w \o <<n>> : w \in {<<>>, <<x>>}}
  BY DEF Renderings, MacTypes, PlainTypes
<1>2. Word(m, m) /\ IsMac(m) /\ Word(x, x) /\ Key(x) = "x" /\ "x" # k
  BY PlainWords DEF IsMac, Key
<1>3. Word(n, v) /\ s \in Seq(Pieces)
  BY NameWord
<1>4. Key(v) = k /\ Tail(v) = s
  BY <1>3, KeyTail DEF Pieces
<1>5. \A ts : R(ts) = parse_p2p_device_found(Raw(e), ts, mem)
  BY DEF parse_payload, MacTypes, PlainTypes, Raw
<1>6. e.mac = m
  OBVIOUS
<1> HIDE DEF m, x, n, v, k
<1>7. ws = <<m, n>> \/ ws = <<m, x, n>>
  <2>1. <<m>> \o <<>> \o <<n>> = <<m, n>> /\ <<m>> \o <<x>> \o <<n>> = <<m, x, n>>
    <3>1. m \in Seq(Pieces) /\ x \in Seq(Pieces) /\ n \in Seq(Pieces)
      BY <1>2, <1>3 DEF Word
    <3>2. QED
      BY <3>1, WordsBetween, Zenon
  <2>2. QED
    BY <1>1, <2>1
<1>8. ASSUME NEW ts, Len(ts) \in {2, 3}, ts[1] = m, First(ts, 2, k) \in {2, 3}, ts[First(ts, 2, k)] = v
      PROVE  Same(e, R(ts))
  <2>1. parse_p2p_device_found(Raw(e), ts, mem) = strdup([Raw(e) EXCEPT !.mac = m], s, mem)
    <3> DEFINE i == First(ts, 2, k)
    <3>1. i # 0 /\ ts[i] = v /\ ~(Len(ts) < 2 \/ ~IsMac(ts[1])) /\ ts[1] = m
      <4>1. i # 0 /\ ts[i] = v /\ ts[1] = m /\ ~(Len(ts) < 2)
        <5>1. i # 0
          BY <1>8
        <5>2. Len(ts) \in Nat /\ ~(Len(ts) < 2)
          BY <1>8
        <5>3. QED
          BY <1>8, <5>1, <5>2, Zenon
      <4>2. QED
        BY <1>2, <4>1, Zenon
    <3>2. parse_p2p_device_found(Raw(e), ts, mem)
            = IF Len(ts) < 2 \/ ~IsMac(ts[1]) THEN Result(Raw(e), EINVAL)
              ELSE IF i = 0 THEN Result([Raw(e) EXCEPT !.mac = ts[1]], EINVAL)
              ELSE strdup([Raw(e) EXCEPT !.mac = ts[1]], Tail(ts[i]), mem)
      BY Zenon DEF parse_p2p_device_found, k
    <3> HIDE DEF i
    <3>3. QED
      BY <1>4, <3>1, <3>2
  <2>2. QED
    BY <1>5, <1>6, <2>1, StrdupSame
<1>9. CASE ws = <<m, n>>
  <2> DEFINE ts == <<m, v>>
  <2>1. tokenize(Spaced(ws)) = ts
    BY <1>2, <1>3, <1>9, Tokens2
  <2>2. Len(ts) = 2 /\ ts[1] = m /\ ts[2] = v
    OBVIOUS
  <2> HIDE DEF ts
  <2>3. First(ts, 2, k) = 2
    <3>1. \A i \in 2 .. Len(ts) - 1 : Key(ts[i]) # k
      BY <1>2, <2>2
    <3>2. Key(ts[Len(ts)]) = k /\ Len(ts) \in Nat /\ 2 \in Nat /\ 2 <= Len(ts)
      BY <1>4, <2>2
    <3>3. First(ts, 2, k) = Len(ts)
      BY <3>1, <3>2, FirstAt, Zenon
    <3>4. QED
      BY <2>2, <3>3
  <2>4. QED
    BY <1>8, <2>1, <2>2, <2>3
<1>10. CASE ws = <<m, x, n>>
  <2> DEFINE ts == <<m, x, v>>
  <2>1. tokenize(Spaced(ws)) = ts
    BY <1>2, <1>3, <1>10, Tokens3
  <2>2. Len(ts) = 3 /\ ts[1] = m /\ ts[2] = x /\ ts[3] = v
    OBVIOUS
  <2> HIDE DEF ts
  <2>3. First(ts, 2, k) = 3
    <3>1. \A i \in 2 .. Len(ts) - 1 : Key(ts[i]) # k
      BY <1>2, <2>2
    <3>2. Key(ts[Len(ts)]) = k /\ Len(ts) \in Nat /\ 2 \in Nat /\ 2 <= Len(ts)
      BY <1>4, <2>2
    <3>3. First(ts, 2, k) = Len(ts)
      BY <3>1, <3>2, FirstAt, Zenon
    <3>4. QED
      BY <2>2, <3>3
  <2>4. QED
    BY <1>8, <2>1, <2>2, <2>3
<1>11. QED
  BY <1>7, <1>9, <1>10

\* parse_p2p_prov_disc_show_pin
LEMMA PinSame ==
  ASSUME NEW e, e.type = "P2P_PROV_DISC_SHOW_PIN", e.mac = <<"mac">>, e.role = "GO", e.string = <<"x">>, NEW mem,
         NEW ws \in Renderings(e)
  PROVE  Same(e, parse_payload(Raw(e), tokenize(Spaced(ws)), mem))
<1> DEFINE m == <<"mac">>
           x == <<"x">>
           ts == <<m, x>>
<1>1. ws = <<m, x>>
  BY DEF Renderings, MacTypes, PlainTypes
<1>2. Word(m, m) /\ IsMac(m) /\ Word(x, x)
  BY PlainWords DEF IsMac
<1>3. parse_payload(Raw(e), ts, mem) = parse_p2p_prov_disc_show_pin(Raw(e), ts, mem)
  BY DEF parse_payload, MacTypes, PlainTypes, Raw
<1>4. e.mac = m /\ e.string = x
  OBVIOUS
<1> HIDE DEF m, x
<1>5. tokenize(Spaced(ws)) = ts
  BY <1>1, <1>2, Tokens2
<1>6. Len(ts) = 2 /\ ts[1] = m /\ ts[2] = x
  OBVIOUS
<1> HIDE DEF ts
<1>7. parse_p2p_prov_disc_show_pin(Raw(e), ts, mem) = strdup([Raw(e) EXCEPT !.mac = m], x, mem)
  BY <1>2, <1>6 DEF parse_p2p_prov_disc_show_pin
<1>8. QED
  BY <1>3, <1>4, <1>5, <1>7, StrdupSame

\* The word for a role is read as the role.
LEMMA RoleWordOf ==
  ASSUME NEW e, e.role \in {"GO", "CLIENT"}
  PROVE  RoleWord(e) \in {"GO", "client"} /\ DOMAIN roles = {"GO", "client"} /\ roles[RoleWord(e)] = e.role
<1>1. DOMAIN roles = {"GO", "client"} /\ roles["GO"] = "GO" /\ roles["client"] = "CLIENT"
  BY DEF roles
<1>2. \E w \in DOMAIN roles : roles[w] = e.role
  BY <1>1
<1>3. RoleWord(e) \in DOMAIN roles /\ roles[RoleWord(e)] = e.role
  BY <1>2 DEF RoleWord
<1>4. QED
  BY <1>1, <1>3

\* parse_p2p_group_started
LEMMA GroupSame ==
  ASSUME NEW e, e.type = "P2P_GROUP_STARTED", e.mac = <<"mac">>, e.role \in {"GO", "CLIENT"}, e.string = <<"x">>,
         NEW mem, NEW ws \in Renderings(e)
  PROVE  Same(e, parse_payload(Raw(e), tokenize(Spaced(ws)), mem))
<1> DEFINE m == <<"mac">>
           x == <<"x">>
           w == RoleWord(e)
           r == <<w>>
           k == "go_dev_addr="
           g == <<"go_dev_addr=", "mac">>
           R(ts) == parse_payload(Raw(e), ts, mem)
<1>1. ws \in {<<x, r>> \o v \o <<g>> : v \in {<<>>, <<x>>}}
  BY DEF Renderings, MacTypes, PlainTypes
<1>2. w \in {"GO", "client"} /\ DOMAIN roles = {"GO", "client"} /\ roles[w] = e.role
  BY RoleWordOf
<1>3. Word(x, x) /\ Key(x) = "x" /\ "x" # k /\ Word(g, g)
  BY PlainWords DEF Key
<1>4. Key(g) = k /\ Tail(g) = m /\ IsMac(m)
  BY DEF Key, IsMac
<1>5. Word(r, r) /\ IsRole(r) /\ r[1] = w
  <2> HIDE DEF w
  <2>1. Word(r, r)
    BY <1>2, PlainWords
  <2>2. Len(r) = 1 /\ r[1] = w
    OBVIOUS
  <2>3. QED
    BY <1>2, <2>1, <2>2 DEF IsRole
<1>6. \A ts : R(ts) = parse_p2p_group_started(Raw(e), ts, mem)
  BY DEF parse_payload, MacTypes, PlainTypes, Raw
<1>7. e.mac = m /\ e.string = x
  OBVIOUS
<1> HIDE DEF m, x, w, r, k, g
<1>8. ws = <<x, r, g>> \/ ws = <<x, r, x, g>>
  <2>1. <<x, r>> \o <<>> \o <<g>> = <<x, r, g>> /\ <<x, r>> \o <<x>> \o <<g>> = <<x, r, x, g>>
    <3>1. r \in Seq(Pieces) /\ x \in Seq(Pieces) /\ g \in Seq(Pieces)
      BY <1>3, <1>5 DEF Word
    <3>2. <<x, r>> \o <<>> \o <<g>> = <<x, r, g>>
      BY <3>1, WordsBetween, Zenon
    <3>3. <<x, r>> \o <<x>> \o <<g>> = <<x, r, x, g>>
      BY <3>1, FourWords, Zenon
    <3>4. QED
      BY <3>2, <3>3
  <2>2. QED
    BY <1>1, <2>1
<1>9. ASSUME NEW ts, Len(ts) \in {3, 4}, ts[1] = x, ts[2] = r, First(ts, 3, k) \in {3, 4}, ts[First(ts, 3, k)] = g
      PROVE  Same(e, R(ts))
  <2> DEFINE d == strdup(Raw(e), ts[1], mem)
             i == First(ts, 3, k)
  <2>1. i # 0
    BY <1>9
  <2>2. Len(ts) \in Nat /\ ~(Len(ts) < 3)
    <3> DEFINE l == Len(ts)
    <3>1. l = 3 \/ l = 4
      BY <1>9, Zenon
    <3> HIDE DEF l
    <3>2. l \in Nat /\ ~(l < 3)
      BY <3>1
    <3>3. QED
      BY <3>2 DEF l
  <2>3. ts[i] = g /\ ts[1] = x /\ ts[2] = r
    BY <1>9, Zenon
  <2>4. parse_p2p_group_started(Raw(e), ts, mem)
          = IF Len(ts) < 3 THEN Result(Raw(e), EINVAL)
            ELSE IF d.r # "OK" THEN d
            ELSE IF ~IsRole(ts[2]) \/ i = 0 THEN Result(d.ev, EINVAL)
            ELSE parse_mac([d.ev EXCEPT !.role = roles[ts[2][1]]], Tail(ts[i]))
    BY Zenon DEF parse_p2p_group_started, k
  <2> HIDE DEF i
  <2>5. CASE ~mem
    <3>1. d = Result(Raw(e), ENOMEM)
      BY <2>5 DEF strdup
    <3>2. d.r = ENOMEM /\ d.r # "OK"
      BY <3>1 DEF Result, ENOMEM
    <3> HIDE DEF d
    <3>3. R(ts) = d
      BY <1>6, <2>2, <2>4, <3>2
    <3>4. QED
      BY <3>2, <3>3 DEF Same
  <2>6. CASE mem
    <3> DEFINE f == [Raw(e) EXCEPT !.string = x]
               h == [f EXCEPT !.role = e.role]
    <3>1. d = Result(f, "OK")
      BY <2>3, <2>6 DEF strdup
    <3>2. d.r = "OK" /\ d.ev = f
      BY <3>1 DEF Result
    <3> HIDE DEF d, f
    <3>3. R(ts) = parse_mac([f EXCEPT !.role = roles[ts[2][1]]], Tail(ts[i]))
      BY <1>5, <1>6, <2>1, <2>2, <2>3, <2>4, <3>2, Zenon
    <3>4. R(ts) = parse_mac(h, m)
      BY <1>2, <1>4, <1>5, <2>3, <3>3, Zenon
    <3>5. R(ts) = Result([h EXCEPT !.mac = m], "OK")
      BY <1>4, <3>4 DEF parse_mac
    <3> DEFINE y == [h EXCEPT !.mac = m]
    <3>6. /\ y.type = e.type /\ y.priority = e.priority /\ y.mac = m /\ y.role = e.role /\ y.string = x
      BY DEF Raw, f
    <3> HIDE DEF y
    <3>7. R(ts) = Result(y, "OK") /\ Result(y, "OK").r = "OK" /\ Result(y, "OK").ev = y
      BY <3>5 DEF Result, y
    <3>8. QED
      BY <1>7, <3>6, <3>7 DEF Same
  <2>7. QED
    BY <2>5, <2>6
<1>10. CASE ws = <<x, r, g>>
  <2> DEFINE ts == <<x, r, g>>
  <2>1. tokenize(Spaced(ws)) = ts
    BY <1>3, <1>5, <1>10, Tokens3
  <2>2. Len(ts) = 3 /\ ts[1] = x /\ ts[2] = r /\ ts[3] = g
    OBVIOUS
  <2> HIDE DEF ts
  <2>3. First(ts, 3, k) = 3
    <3>1. \A i \in 3 .. Len(ts) - 1 : Key(ts[i]) # k
      BY <2>2
    <3>2. Key(ts[Len(ts)]) = k /\ Len(ts) \in Nat /\ 3 \in Nat /\ 3 <= Len(ts)
      BY <1>4, <2>2
    <3>3. First(ts, 3, k) = Len(ts)
      BY <3>1, <3>2, FirstAt, Zenon
    <3>4. QED
      BY <2>2, <3>3
  <2>4. QED
    BY <1>9, <2>1, <2>2, <2>3
<1>11. CASE ws = <<x, r, x, g>>
  <2> DEFINE ts == <<x, r, x, g>>
  <2>1. tokenize(Spaced(ws)) = ts
    BY <1>3, <1>5, <1>11, Tokens4
  <2>2. Len(ts) = 4 /\ ts[1] = x /\ ts[2] = r /\ ts[3] = x /\ ts[4] = g
    OBVIOUS
  <2> HIDE DEF ts
  <2>3. First(ts, 3, k) = 4
    <3>1. \A i \in 3 .. Len(ts) - 1 : Key(ts[i]) # k
      BY <1>3, <2>2
    <3>2. Key(ts[Len(ts)]) = k /\ Len(ts) \in Nat /\ 3 \in Nat /\ 3 <= Len(ts)
      BY <1>4, <2>2
    <3>3. First(ts, 3, k) = Len(ts)
      BY <3>1, <3>2, FirstAt, Zenon
    <3>4. QED
      BY <2>2, <3>3
  <2>4. QED
    BY <1>9, <2>1, <2>2, <2>3
<1>12. QED
  BY <1>8, <1>10, <1>11

\* parse_p2p_go_neg_success
LEMMA NegSame ==
  ASSUME NEW e, e.type = "P2P_GO_NEG_SUCCESS", e.mac = <<"mac">>, e.role \in {"GO", "CLIENT"}, e.string = NULL,
         NEW mem, NEW ws \in Renderings(e)
  PROVE  Same(e, parse_payload(Raw(e), tokenize(Spaced(ws)), mem))
<1> DEFINE m == <<"mac">>
           x == <<"x">>
           w == RoleWord(e)
           r == <<"role=", w>>
           g == <<"peer_dev=", "mac">>
           R(ts) == parse_payload(Raw(e), ts, mem)
<1>1. ws = <<r, x, g>> \/ ws = <<g, r>>
  BY DEF Renderings, MacTypes, PlainTypes
<1>2. w \in {"GO", "client"} /\ DOMAIN roles = {"GO", "client"} /\ roles[w] = e.role
  BY RoleWordOf
<1>3. Word(x, x) /\ Key(x) = "x" /\ Word(g, g)
  BY PlainWords DEF Key
<1>4. Key(g) = "peer_dev=" /\ Tail(g) = m /\ IsMac(m)
  BY DEF Key, IsMac
<1>5. Word(r, r) /\ Key(r) = "role=" /\ IsRole(Tail(r)) /\ r[2] = w
  <2> HIDE DEF w
  <2>1. Word(r, r)
    BY <1>2, PlainWords
  <2>2. Key(r) = "role=" /\ Len(Tail(r)) = 1 /\ Tail(r)[1] = w /\ r[2] = w
    BY DEF Key
  <2>3. QED
    BY <1>2, <2>1, <2>2 DEF IsRole
<1>6. \A ts : R(ts) = parse_p2p_go_neg_success(Raw(e), ts)
  BY DEF parse_payload, MacTypes, PlainTypes, Raw
<1>7. e.mac = m
  OBVIOUS
<1> HIDE DEF m, x, w, r, g
<1>8. ASSUME NEW ts, NEW i \in Nat, NEW j \in Nat, Len(ts) \in Nat, Len(ts) >= 2, ts[i] = r, ts[j] = g,
             {l \in DOMAIN ts : Key(ts[l]) = "role="} = {i}, {l \in DOMAIN ts : Key(ts[l]) = "peer_dev="} = {j}
      PROVE  Same(e, R(ts))
  <2> DEFINE role == {l \in DOMAIN ts : Key(ts[l]) = "role="}
             peer == {l \in DOMAIN ts : Key(ts[l]) = "peer_dev="}
             bad == \/ Len(ts) < 2 \/ role = {} \/ peer = {}
                    \/ \E l \in role : ~IsRole(Tail(ts[l]))
                    \/ \E l \in peer : ~IsMac(Tail(ts[l]))
  <2>1. Max({i}) = i /\ Max({j}) = j
    BY DEF Max
  <2>2. role = {i} /\ peer = {j} /\ ts[i] = r /\ ts[j] = g
    BY <1>8, Zenon
  <2>3. parse_p2p_go_neg_success(Raw(e), ts)
          = IF bad THEN Result(Raw(e), EINVAL)
            ELSE Result([Raw(e) EXCEPT !.role = roles[ts[Max(role)][2]], !.mac = Tail(ts[Max(peer)])], "OK")
    BY Zenon DEF parse_p2p_go_neg_success
  <2> HIDE DEF role, peer
  <2>4. ~(Len(ts) < 2)
    BY <1>8
  <2>5. ~bad
    BY <1>4, <1>5, <2>2, <2>4, Zenon
  <2> HIDE DEF bad
  <2>6. roles[ts[Max(role)][2]] = e.role /\ Tail(ts[Max(peer)]) = m
    BY <1>2, <1>4, <1>5, <2>1, <2>2, Zenon
  <2>7. R(ts) = Result([Raw(e) EXCEPT !.role = e.role, !.mac = m], "OK")
    BY <1>6, <2>3, <2>5, <2>6, Zenon
  <2> DEFINE y == [Raw(e) EXCEPT !.role = e.role, !.mac = m]
  <2>8. /\ y.type = e.type /\ y.priority = e.priority /\ y.mac = m /\ y.role = e.role /\ y.string = NULL
    BY DEF Raw
  <2>9. R(ts) = Result(y, "OK")
    BY <2>7
  <2> HIDE DEF y
  <2>10. Result(y, "OK").r = "OK" /\ Result(y, "OK").ev = y
    BY DEF Result
  <2>11. QED
    BY <1>7, <2>8, <2>9, <2>10 DEF Same
<1>9. CASE ws = <<r, x, g>>
  <2> DEFINE ts == <<r, x, g>>
  <2>1. tokenize(Spaced(ws)) = ts
    BY <1>3, <1>5, <1>9, Tokens3
  <2>2. Len(ts) = 3 /\ ts[1] = r /\ ts[2] = x /\ ts[3] = g /\ DOMAIN ts = {1, 2, 3}
    OBVIOUS
  <2> HIDE DEF ts
  <2>3. /\ {l \in DOMAIN ts : Key(ts[l]) = "role="} = {1}
        /\ {l \in DOMAIN ts : Key(ts[l]) = "peer_dev="} = {3}
    BY <1>3, <1>4, <1>5, <2>2
  <2>4. Same(e, R(ts))
    <3>1. 1 \in Nat /\ 2 \in Nat /\ 3 \in Nat /\ Len(ts) \in Nat /\ Len(ts) >= 2
      BY <2>2
    <3>2. QED
      BY <1>8, <2>2, <2>3, <3>1, Zenon
  <2>5. QED
    BY <2>1, <2>4
<1>10. CASE ws = <<g, r>>
  <2> DEFINE ts == <<g, r>>
  <2>1. tokenize(Spaced(ws)) = ts
    BY <1>3, <1>5, <1>10, Tokens2
  <2>2. Len(ts) = 2 /\ ts[1] = g /\ ts[2] = r /\ DOMAIN ts = {1, 2}
    OBVIOUS
  <2> HIDE DEF ts
  <2>3. /\ {l \in DOMAIN ts : Key(ts[l]) = "role="} = {2}
        /\ {l \in DOMAIN ts : Key(ts[l]) = "peer_dev="} = {1}
    BY <1>4, <1>5, <2>2
  <2>4. Same(e, R(ts))
    <3>1. 1 \in Nat /\ 2 \in Nat /\ 3 \in Nat /\ Len(ts) \in Nat /\ Len(ts) >= 2
      BY <2>2
    <3>2. QED
      BY <1>8, <2>2, <2>3, <3>1, Zenon
  <2>5. QED
    BY <2>1, <2>4
<1>11. QED
  BY <1>1, <1>9, <1>10

\* Whatever the type of the event.
LEMMA PayloadSame ==
  ASSUME NEW e \in Events, NEW ws \in Renderings(e), NEW mem
  PROVE  /\ Same(e, parse_payload(Raw(e), tokenize(Spaced(ws)), mem))
         /\ e.type \in event_list /\ e.priority \in Priorities
         /\ DOMAIN e = {"type", "priority", "mac", "role", "string"}
<1>1. CASE \E t \in MacTypes : e \in EventOf(t, {"GO"}, {NULL})
  <2>1. /\ e.type \in MacTypes /\ e.mac = <<"mac">> /\ e.role = "GO" /\ e.string = NULL
        /\ e.priority \in Priorities /\ DOMAIN e = {"type", "priority", "mac", "role", "string"}
    BY <1>1 DEF EventOf
  <2>2. QED
    BY <2>1, MacSame DEF event_list
<1>2. CASE e \in EventOf("P2P_DEVICE_FOUND", {"GO"}, Names)
  <2>1. /\ e.type = "P2P_DEVICE_FOUND" /\ e.mac = <<"mac">> /\ e.role = "GO" /\ e.string \in Names
        /\ e.priority \in Priorities /\ DOMAIN e = {"type", "priority", "mac", "role", "string"}
    BY <1>2 DEF EventOf
  <2>2. QED
    BY <2>1, FoundSame DEF event_list, StringTypes
<1>3. CASE e \in EventOf("P2P_GO_NEG_SUCCESS", {"GO", "CLIENT"}, {NULL})
  <2>1. /\ e.type = "P2P_GO_NEG_SUCCESS" /\ e.mac = <<"mac">> /\ e.role \in {"GO", "CLIENT"} /\ e.string = NULL
        /\ e.priority \in Priorities /\ DOMAIN e = {"type", "priority", "mac", "role", "string"}
    BY <1>3 DEF EventOf
  <2>2. QED
    BY <2>1, NegSame DEF event_list
<1>4. CASE e \in EventOf("P2P_GROUP_STARTED", {"GO", "CLIENT"}, {<<"x">>})
  <2>1. /\ e.type = "P2P_GROUP_STARTED" /\ e.mac = <<"mac">> /\ e.role \in {"GO", "CLIENT"} /\ e.string = <<"x">>
        /\ e.priority \in Priorities /\ DOMAIN e = {"type", "priority", "mac", "role", "string"}
    BY <1>4 DEF EventOf
  <2>2. QED
    BY <2>1, GroupSame DEF event_list, StringTypes
<1>5. CASE e \in EventOf("P2P_PROV_DISC_SHOW_PIN", {"GO"}, {<<"x">>})
  <2>1. /\ e.type = "P2P_PROV_DISC_SHOW_PIN" /\ e.mac = <<"mac">> /\ e.role = "GO" /\ e.string = <<"x">>
        /\ e.priority \in Priorities /\ DOMAIN e = {"type", "priority", "mac", "role", "string"}
    BY <1>5 DEF EventOf
  <2>2. QED
    BY <2>1, PinSame DEF event_list, StringTypes
<1>6. CASE e \in [type : PlainTypes, priority : Priorities, mac : {<<>>}, role : {"GO"}, string : {NULL}]
  <2>1. /\ e.type \in PlainTypes /\ e.mac = <<>> /\ e.role = "GO" /\ e.string = NULL
        /\ e.priority \in Priorities /\ DOMAIN e = {"type", "priority", "mac", "role", "string"}
    BY <1>6
  <2>2. QED
    BY <2>1, PlainSame DEF event_list
<1>7. QED
  BY <1>1, <1>2, <1>3, <1>4, <1>5, <1>6 DEF Events

\* owfd_wpa_event_parse, whichever allocation fails.
LEMMA EventMeant ==
  ASSUME ParseEvent
  PROVE  ReadAsMeant'
<1>0. PICK e \in Events :
        \E ws \in Renderings(e) :
          owfd_wpa_event_parse(e.priority, e.type, tokenize(Spaced(ws))) /\ told' = e
  BY DEF ParseEvent
<1>1. PICK ws \in Renderings(e) :
        owfd_wpa_event_parse(e.priority, e.type, tokenize(Spaced(ws))) /\ told' = e
  BY <1>0
<1> DEFINE ts == tokenize(Spaced(ws))
<1>2. PICK fail \in Allocations :
        LET p == Parsed(e.priority, e.type, ts, fail)
        IN  ev' = (IF p.r = "OK" THEN p.ev ELSE owfd_wpa_event_init) /\ ret' = p.r
  BY <1>1 DEF owfd_wpa_event_parse
<1> DEFINE p == Parsed(e.priority, e.type, ts, fail)
           mem == fail # "string"
           q == parse_payload(Raw(e), ts, mem)
<1>3. /\ Same(e, q) /\ e.type \in event_list /\ e.priority \in Priorities
      /\ DOMAIN e = {"type", "priority", "mac", "role", "string"}
  BY PayloadSame
<1>4. e.priority \in 0 .. 4 /\ e.priority # Unclosed /\ priority(e.priority) = e.priority
  <2>1. e.priority \in 0 .. 4
    BY <1>3, TextAssumption
  <2>2. QED
    BY <2>1 DEF priority, Unclosed
<1>5. p.r = ENOMEM \/ p = q
  <2> DEFINE b == [owfd_wpa_event_init EXCEPT !.priority = e.priority]
             d == [b EXCEPT !.type = e.type]
             w == [d EXCEPT !.raw = "text"]
  <2>1. w = Raw(e)
    <3>1. b = [type |-> "UNKNOWN", priority |-> e.priority, raw |-> NULL, mac |-> <<>>, role |-> "GO", string |-> NULL]
      BY DEF owfd_wpa_event_init
    <3>2. d = [type |-> e.type, priority |-> e.priority, raw |-> NULL, mac |-> <<>>, role |-> "GO", string |-> NULL]
      <4> HIDE DEF b
      <4> QED
        BY <3>1
    <3>3. QED
      <4> HIDE DEF d
      <4> QED
        BY <3>2 DEF Raw
  <2>2. p = IF fail = "raw" THEN Result(d, ENOMEM)
            ELSE IF fail = "tokens" THEN Result(w, ENOMEM)
            ELSE parse_payload(w, ts, mem)
    BY <1>3, <1>4, Zenon DEF Parsed
  <2> HIDE DEF p, d, w
  <2>3. Result(d, ENOMEM).r = ENOMEM /\ Result(w, ENOMEM).r = ENOMEM
    BY DEF Result
  <2>4. QED
    BY <2>1, <2>2, <2>3, Zenon
<1>6. ret' = p.r /\ ev' = IF p.r = "OK" THEN p.ev ELSE owfd_wpa_event_init
  BY <1>2, Zenon
<1> HIDE DEF p, q
<1>7. ASSUME ret' # ENOMEM PROVE ret' = "OK" /\ \A f \in DOMAIN e : ev'[f] = e[f]
  <2>1. p = q /\ q.r # ENOMEM
    BY <1>5, <1>6, <1>7
  <2>2. /\ q.r = "OK" /\ q.ev.type = e.type /\ q.ev.priority = e.priority
        /\ q.ev.mac = e.mac /\ q.ev.role = e.role /\ q.ev.string = e.string
    BY <1>3, <2>1 DEF Same
  <2>3. ev' = q.ev /\ ret' = "OK"
    BY <1>6, <2>1, <2>2
  <2>4. QED
    BY <1>3, <2>2, <2>3
<1>8. QED
  BY <1>1, <1>7 DEF ReadAsMeant

\* owfd_wpa_event_parse reads every event that wpa_supplicant renders as it was meant, with
\* a device's name of any length and any pieces, unless an allocation fails.
THEOREM ReadAsMeantHolds == ESpec => []ReadAsMeant
<1>1. EInit => ReadAsMeant
  BY DEF EInit, ReadAsMeant
<1>2. ReadAsMeant /\ [ENext]_evars => ReadAsMeant'
  <2> SUFFICES ASSUME ReadAsMeant, [ENext]_evars PROVE ReadAsMeant'
    OBVIOUS
  <2>1. CASE ParseEvent
    BY <2>1, EventMeant
  <2>2. CASE AddWord \/ ParseText \/ Reset
    BY <2>2 DEF AddWord, ParseText, Reset, ReadAsMeant
  <2>3. CASE UNCHANGED evars
    BY <2>3 DEF evars, ReadAsMeant
  <2>4. QED
    BY <2>1, <2>2, <2>3 DEF ENext
<1>3. QED
  BY <1>1, <1>2, PTL DEF ESpec

-----------------------------------------------------------------------------
\* What is asked of wpa_supplicant, and what of it is under way.
Command == {"ATTACH", "PING", "USER"}

Asked == [cmd : Command, fd : Socket, stale : BOOLEAN]

\* The types that TypeOK leaves out.  A request is under way while the thread
\* waits, and the event socket carries none but the ATTACH of an open.
Typed ==
  /\ TypeOK
  /\ queue \in [Socket -> Seq(Message)]
  /\ inbox \in Seq(Asked)
  /\ fd \in Socket
  /\ alive \in {"up", "hung", "dead"}
  /\ Waiting => cmd \in Command
  /\ Waiting /\ fd = "ev" => state = "opening"
  /\ state = "opening" => Waiting /\ cmd = "ATTACH"
  /\ pc \in {"read_ev", "callback"} \/ (Waiting /\ base = "callback" /\ cmd # "PING")
       => evs # <<>>

Flags == {armed, expired, in_epoll, attached, failed} \subseteq BOOLEAN

EventSeq == Seq([from : {"req", "ev", "tfd"}, err : BOOLEAN])

\* Time: a sleep ends with the timeout, it has begun after start was taken, and
\* what may still be slept fits what the caller allowed.
TimeInv ==
  Waiting => /\ slept <= timeout
             /\ slept <= elapsed
             /\ total + (timeout - slept) <= asked

\* Of a socket on which no request was given up, nothing is under way but the
\* current request, at the supplicant, or its reply.
Quiet(s) ==
  /\ \A i \in DOMAIN queue[s] : queue[s][i].kind # "reply"
  /\ \A i \in DOMAIN inbox : inbox[i].fd # s

Own(s) ==
  /\ \A i \in DOMAIN queue[s] : queue[s][i].kind = "reply" =>
       /\ queue[s][i].cmd = cmd /\ ~queue[s][i].stale
       /\ \A j \in DOMAIN queue[s] : queue[s][j].kind = "reply" => j = i
       /\ \A j \in DOMAIN inbox : inbox[j].fd # s
  /\ \A i \in DOMAIN inbox : inbox[i].fd = s =>
       /\ inbox[i].cmd = cmd /\ ~inbox[i].stale
       /\ \A j \in DOMAIN inbox : inbox[j].fd = s => j = i

ReplyInv ==
  \A s \in Socket \ gaveup : IF pc = "recv" /\ fd = s THEN Own(s) ELSE Quiet(s)

IInv == Typed /\ TimeInv /\ ReplyInv

-----------------------------------------------------------------------------
USE WpaAssumption DEF Socket, Waiting, Command

\* Messages: the ones that are made and the ones that are marked.
LEMMA MessageTypes ==
  /\ Nothing \in Message /\ Event \in Message
  /\ \A c \in Command, ok, st \in BOOLEAN :
       [Reply(c, ok) EXCEPT !.stale = st] \in Message
  /\ \A m \in Message : Stale(m) \in Message /\ Stale(m).kind = m.kind
<1>1. Nothing \in Message /\ Event \in Message
  BY DEF Message
<1>2. ASSUME NEW c \in Command, NEW ok \in BOOLEAN, NEW st \in BOOLEAN
      PROVE  [Reply(c, ok) EXCEPT !.stale = st] \in Message
  <2>1. [Reply(c, ok) EXCEPT !.stale = st] = [kind |-> "reply", cmd |-> c, ok |-> ok, stale |-> st]
    BY DEF Reply
  <2>2. QED
    BY <2>1 DEF Message
<1>3. ASSUME NEW m \in Message
      PROVE  Stale(m) \in Message /\ Stale(m).kind = m.kind
  <2>1. CASE m \in {Nothing, Event}
    BY <1>1, <2>1 DEF Stale, Nothing, Event
  <2>2. CASE m \in [kind : {"reply"}, cmd : Command, ok : BOOLEAN, stale : BOOLEAN]
    BY <2>2 DEF Stale, Message
  <2>3. QED
    BY <2>1, <2>2 DEF Message
<1>4. QED
  BY <1>1, <1>2, <1>3

\* A function on 1 .. n is a sequence.
LEMMA FunSeq == ASSUME NEW S, NEW n \in Nat, NEW f \in [1 .. n -> S] PROVE f \in Seq(S) /\ Len(f) = n
BY SeqDef

\* wpa_request marks what waits on the socket and leaves the rest alone.
LEMMA RequestEffect ==
  ASSUME Typed, NEW c \in Command, NEW s \in Socket, NEW t \in 0 .. MAX, wpa_request(c, s, t)
  PROVE  /\ queue' \in [Socket -> Seq(Message)] /\ inbox' \in Seq(Asked)
         /\ \A r \in Socket : /\ DOMAIN queue'[r] = DOMAIN queue[r]
                              /\ \A i \in DOMAIN queue[r] : queue'[r][i].kind = queue[r][i].kind
         /\ DOMAIN inbox' = DOMAIN inbox
         /\ \A i \in DOMAIN inbox : inbox'[i].fd = inbox[i].fd
<1> DEFINE mark == [i \in DOMAIN queue[s] |-> Stale(queue[s][i])]
<1>1. queue \in [Socket -> Seq(Message)] /\ inbox \in Seq(Asked)
  BY DEF Typed
<1>2. /\ queue' = [queue EXCEPT ![s] = mark]
      /\ inbox' = [i \in DOMAIN inbox |-> [inbox[i] EXCEPT !.stale = @ \/ inbox[i].fd = s]]
  BY DEF wpa_request
<1>3. \A i \in DOMAIN queue[s] : mark[i] \in Message /\ mark[i].kind = queue[s][i].kind
  <2> SUFFICES ASSUME NEW i \in DOMAIN queue[s]
               PROVE  mark[i] \in Message /\ mark[i].kind = queue[s][i].kind
    OBVIOUS
  <2>1. queue[s][i] \in Message
    BY <1>1
  <2>2. QED
    BY <2>1, MessageTypes
<1>4. mark \in Seq(Message) /\ DOMAIN mark = DOMAIN queue[s]
  <2>1. Len(queue[s]) \in Nat /\ DOMAIN queue[s] = 1 .. Len(queue[s])
    BY <1>1, LenProperties
  <2> HIDE DEF mark
  <2>3. mark \in [1 .. Len(queue[s]) -> Message]
    <3>1. mark = [i \in 1 .. Len(queue[s]) |-> mark[i]]
      BY <2>1 DEF mark
    <3>2. QED
      BY <2>1, <1>3, <3>1
  <2>2. QED
    BY <2>1, <2>3, FunSeq
<1>5. \A i \in DOMAIN inbox : inbox'[i] \in Asked /\ inbox'[i].fd = inbox[i].fd
  <2> SUFFICES ASSUME NEW i \in DOMAIN inbox
               PROVE  inbox'[i] \in Asked /\ inbox'[i].fd = inbox[i].fd
    OBVIOUS
  <2>1. inbox[i] \in Asked
    BY <1>1
  <2>2. QED
    BY <1>2, <2>1 DEF Asked
<1>6. inbox' \in Seq(Asked) /\ DOMAIN inbox' = DOMAIN inbox
  <2>1. Len(inbox) \in Nat /\ DOMAIN inbox = 1 .. Len(inbox)
    BY <1>1, LenProperties
  <2>2. inbox' \in [1 .. Len(inbox) -> Asked]
    <3>1. inbox' = [i \in 1 .. Len(inbox) |-> inbox'[i]]
      BY <2>1, <1>2
    <3>2. QED
      BY <2>1, <1>5, <3>1
  <2>3. QED
    BY <1>2, <2>1, <2>2, FunSeq
<1> HIDE DEF mark
<1>7. QED
  BY <1>1, <1>2, <1>3, <1>4, <1>5, <1>6

\* A request that ends leaves the wait; either the connection is closed and
\* empty, or q is what is left and a request without a reply is given up.
LEMMA FinishEffect ==
  ASSUME Typed, Waiting, NEW m \in Message, NEW q \in [Socket -> Seq(Message)], Finish(m, q)
  PROVE  /\ pc' \in {"idle", "callback", "dispatch"}
         /\ got' = m /\ cmd' = "none" /\ fd' = fd
         /\ \/ state' = "closed" /\ queue' = [s \in Socket |-> <<>>] /\ inbox' = <<>> /\ gaveup' = {}
            \/ /\ queue' = q /\ inbox' = inbox
               /\ gaveup' = IF m = Nothing THEN gaveup \cup {fd} ELSE gaveup
         /\ Typed'
<1>1. /\ pc' \in {"idle", "callback", "dispatch"} /\ state' \in {"closed", "open", state}
      /\ (state = "opening" => state' \in {"closed", "open"})
      /\ (pc' = "callback" => evs' # <<>>)
      /\ armed' \in BOOLEAN /\ expired' \in BOOLEAN /\ in_epoll' \in BOOLEAN
      /\ attached' \in BOOLEAN /\ failed' \in BOOLEAN /\ left' \in 1 .. PERIOD
      /\ evs' \in Seq([from : {"req", "ev", "tfd"}, err : BOOLEAN])
  <2> USE DEF Typed, TypeOK
  <2>0. /\ armed \in BOOLEAN /\ expired \in BOOLEAN /\ in_epoll \in BOOLEAN
        /\ attached \in BOOLEAN /\ failed \in BOOLEAN
    OBVIOUS
  <2>1. CASE open_returns(m)
    <3>1. CASE m.kind = "reply" /\ m.ok
      BY <2>0, <2>1, <3>1 DEF open_returns, timer
    <3>2. CASE ~(m.kind = "reply" /\ m.ok)
      <4>1. attached' = FALSE /\ armed' = FALSE /\ expired' = FALSE /\ left' = PERIOD
        BY <2>1, <3>2 DEF open_returns, disarm_timer
      <4>2. /\ pc' = base /\ state' = "closed" /\ in_epoll' = in_epoll /\ evs' = evs
            /\ failed' = failed
        BY <2>1, <3>2 DEF open_returns, disarm_timer
      <4>3. QED
        <5>1. armed' \in BOOLEAN /\ expired' \in BOOLEAN /\ attached' \in BOOLEAN
          BY <4>1
        <5>2. left' \in 1 .. PERIOD
          BY <4>1
        <5>3. in_epoll' \in BOOLEAN /\ failed' \in BOOLEAN
          BY <2>0, <4>2
        <5>4. pc' \in {"idle", "callback", "dispatch"} /\ state' = "closed" /\ (pc' = "callback" => evs' # <<>>)
          BY <2>1, <4>2 DEF open_returns
        <5>5. evs' \in Seq([from : {"req", "ev", "tfd"}, err : BOOLEAN])
          BY <4>2
        <5> QED
          BY <5>1, <5>2, <5>3, <5>4, <5>5
    <3>3. QED
      BY <3>1, <3>2
  <2>2. CASE read_tfd_returns(m)
    <3>1. CASE m.kind = "reply" /\ m.cmd = "PING"
      BY <2>0, <2>2, <3>1 DEF read_tfd_returns
    <3>2. CASE ~(m.kind = "reply" /\ m.cmd = "PING")
      <4>1. /\ in_epoll' = FALSE /\ failed' = TRUE /\ pc' = "idle" /\ evs' = <<>>
            /\ UNCHANGED <<state, armed, left, expired, attached>> /\ cmd = "PING"
        BY <2>2, <3>2 DEF read_tfd_returns, DispatchFails
      <4>2. QED
        <5>1. armed' \in BOOLEAN /\ expired' \in BOOLEAN /\ attached' \in BOOLEAN
          BY <2>0, <4>1
        <5>2. left' \in 1 .. PERIOD
          BY <4>1
        <5>3. in_epoll' \in BOOLEAN /\ failed' \in BOOLEAN
          BY <4>1
        <5>4. pc' \in {"idle", "callback", "dispatch"} /\ pc' # "callback" /\ state' = state /\ state # "opening"
          BY <4>1
        <5>5. evs' \in Seq([from : {"req", "ev", "tfd"}, err : BOOLEAN])
          BY <4>1
        <5> QED
          BY <5>1, <5>2, <5>3, <5>4, <5>5
    <3>3. QED
      BY <3>1, <3>2
  <2>3. CASE request_returns(m)
    BY <2>3 DEF request_returns, timer
  <2>4. QED
    BY <2>1, <2>2, <2>3 DEF Finish, Return
<1>2. /\ got' = m /\ cmd' = "none"
      /\ timeout' = 0 /\ elapsed' = 0 /\ slept' = 0 /\ asked' = 0 /\ total' = 0
      /\ base' = base /\ fd' = fd /\ alive' = alive
  BY DEF Finish, Return
<1>3. \/ state' = "closed" /\ queue' = [s \in Socket |-> <<>>] /\ inbox' = <<>> /\ gaveup' = {}
      \/ /\ queue' = q /\ inbox' = inbox
         /\ gaveup' = IF m = Nothing THEN gaveup \cup {fd} ELSE gaveup
  BY DEF Finish
<1>4. queue' \in [Socket -> Seq(Message)] /\ inbox' \in Seq(Asked) /\ gaveup' \subseteq Socket
  <2>1. [s \in Socket |-> <<>>] \in [Socket -> Seq(Message)] /\ <<>> \in Seq(Asked)
    OBVIOUS
  <2>2. QED
    BY <1>3, <2>1 DEF Typed, TypeOK
<1>5. Typed'
  BY <1>1, <1>2, <1>4 DEF Typed, TypeOK
<1>6. QED
  BY <1>1, <1>2, <1>3, <1>5

\* Going round the loop takes time off the timeout and nothing else.
LEMMA AgainEffect ==
  ASSUME Typed, Waiting, NEW q \in [Socket -> Seq(Message)], Again(q)
  PROVE  \/ Finish(Nothing, q)
         \/ /\ timeout - elapsed > 0 /\ timeout' = timeout - elapsed /\ slept' = 0
            /\ queue' = q
            /\ UNCHANGED <<state, timer, pc, base, evs, cmd, fd, elapsed, asked, total,
                           supplicant, gaveup, failed, got>>
            /\ Typed'
<1>1. CASE timeout - elapsed <= 0
  BY <1>1 DEF Again
<1>2. CASE ~(timeout - elapsed <= 0)
  <2>1. /\ timeout \in 0 .. MAX /\ elapsed \in Nat
        /\ timeout' = timeout - elapsed /\ slept' = 0 /\ queue' = q
        /\ UNCHANGED <<state, timer, pc, base, evs, cmd, fd, elapsed, asked, total,
                       supplicant, gaveup, failed, got>>
    BY <1>2 DEF Again, Remaining, Typed, TypeOK
  <2>2. Typed'
    BY <1>2, <2>1 DEF Typed, TypeOK, timer, supplicant
  <2>3. QED
    BY <1>2, <2>1, <2>2
<1>3. QED
  BY <1>1, <1>2

\* What the first message of a queue is, and what is left without it.
LEMMA QueueTail ==
  ASSUME Typed, NEW s \in Socket, queue[s] # <<>>
  PROVE  /\ Head(queue[s]) \in Message /\ Head(queue[s]) = queue[s][1]
         /\ [queue EXCEPT ![s] = Tail(@)] \in [Socket -> Seq(Message)]
         /\ 1 \in DOMAIN queue[s]
         /\ \A i \in DOMAIN Tail(queue[s]) :
              i + 1 \in DOMAIN queue[s] /\ Tail(queue[s])[i] = queue[s][i + 1]
         /\ \A i \in DOMAIN queue[s] : i = 1 \/ i - 1 \in DOMAIN Tail(queue[s])
BY DEF Typed

\* A message that is put at the end of a queue.
LEMMA QueueAppend ==
  ASSUME NEW q \in [Socket -> Seq(Message)], NEW s \in Socket, NEW m
  PROVE  LET p == [q EXCEPT ![s] = Append(@, m)]
         IN  /\ \A r \in Socket \ {s} : p[r] = q[r]
             /\ Len(q[s]) \in Nat /\ DOMAIN q[s] = 1 .. Len(q[s])
             /\ DOMAIN p[s] = 1 .. Len(q[s]) + 1
             /\ \A i \in DOMAIN q[s] : p[s][i] = q[s][i]
             /\ p[s][Len(q[s]) + 1] = m
OBVIOUS

\* The handler of an event goes on to the next event, or the dispatch fails.
LEMMA HandledEffect ==
  ASSUME Typed, evs # <<>>, Handled
  PROVE  pc' \in {"idle", "dispatch"} /\ evs' \in EventSeq /\ failed' \in BOOLEAN
<1>1. CASE Head(evs).err
  BY <1>1 DEF Handled, DispatchFails, EventSeq
<1>2. CASE ~Head(evs).err
  <2>1. pc' = "dispatch" /\ evs' = Tail(evs) /\ failed' = failed
    BY <1>2 DEF Handled
  <2>2. failed \in BOOLEAN /\ evs \in EventSeq
    BY DEF EventSeq, Typed, TypeOK
  <2>3. Tail(evs) \in EventSeq
    BY <2>2 DEF EventSeq
  <2>4. QED
    BY <2>1, <2>2, <2>3
<1>3. QED
  BY <1>1, <1>2

\* Every action keeps the types, of which the bound on the queue is one.
LEMMA TypesStep == Typed /\ [Next]_vars => Typed'
<1> SUFFICES ASSUME Typed, [Next]_vars PROVE Typed'
  OBVIOUS
<1>1. ASSUME owfd_wpa_ctrl_open PROVE Typed'
  <2>1. wpa_request("ATTACH", "ev", MAX) /\ MAX \in 0 .. MAX
    BY <1>1 DEF owfd_wpa_ctrl_open
  <2>2. queue' \in [Socket -> Seq(Message)] /\ inbox' \in Seq(Asked)
    BY <2>1, RequestEffect
  <2>3. Flags'
    BY <1>1, <2>1 DEF owfd_wpa_ctrl_open, wpa_request, arm_timer, Flags, Typed, TypeOK
  <2>4. QED
    BY <1>1, <2>1, <2>2, <2>3 DEF owfd_wpa_ctrl_open, wpa_request, arm_timer, Flags, Typed, TypeOK
<1>2. ASSUME owfd_wpa_ctrl_close PROVE Typed'
  <2>1. [s \in Socket |-> <<>>] \in [Socket -> Seq(Message)] /\ <<>> \in Seq(Asked)
    OBVIOUS
  <2>2. Flags'
    BY <1>2 DEF owfd_wpa_ctrl_close, close_sockets, disarm_timer, Flags, Typed, TypeOK
  <2>3. QED
    BY <1>2, <2>1, <2>2 DEF owfd_wpa_ctrl_close, close_sockets, disarm_timer, request, Flags, Typed, TypeOK
<1>3. ASSUME NEW t \in 0 .. MAX, owfd_wpa_ctrl_request(t) PROVE Typed'
  <2>1. wpa_request("USER", "req", t)
    BY <1>3 DEF owfd_wpa_ctrl_request
  <2>2. queue' \in [Socket -> Seq(Message)] /\ inbox' \in Seq(Asked)
    BY <2>1, RequestEffect
  <2>3. QED
    BY <1>3, <2>1, <2>2 DEF owfd_wpa_ctrl_request, wpa_request, timer, Typed, TypeOK
<1>4. ASSUME timed_send PROVE Typed'
  <2>1. inbox' \in Seq(Asked)
    BY <1>4 DEF timed_send, Asked, Typed
  <2>2. timeout' \in 0 .. MAX
    BY <1>4 DEF timed_send, Remaining, Typed, TypeOK
  <2>3. QED
    BY <1>4, <2>1, <2>2 DEF timed_send, timer, Typed, TypeOK
<1>5. ASSUME timed_send_again PROVE Typed'
  BY <1>5, AgainEffect, FinishEffect, MessageTypes DEF timed_send_again, Typed
<1>6. ASSUME timed_recv PROVE Typed'
  <2>1. queue[fd] # <<>> /\ fd \in Socket
    BY <1>6 DEF timed_recv, Typed
  <2>2. CASE Head(queue[fd]).kind = "reply"
    BY <1>6, <2>1, <2>2, QueueTail, FinishEffect DEF timed_recv
  <2>3. CASE Head(queue[fd]).kind # "reply"
    BY <1>6, <2>1, <2>3, QueueTail, AgainEffect, FinishEffect, MessageTypes DEF timed_recv
  <2>4. QED
    BY <2>2, <2>3
<1>7. ASSUME ppoll_timeout \/ ppoll_error PROVE Typed'
  BY <1>7, FinishEffect, MessageTypes DEF ppoll_timeout, ppoll_error, Typed
<1>8. ASSUME owfd_wpa_ctrl_dispatch PROVE Typed'
  <2> DEFINE e(s) == [from |-> s, err |-> s \in Socket /\ alive = "dead"]
  <2>1. PICK s, t \in {"req", "ev", "tfd"} : evs' = IF s = t THEN <<e(s)>> ELSE <<e(s), e(t)>>
    BY <1>8 DEF owfd_wpa_ctrl_dispatch
  <2>2. e(s) \in [from : {"req", "ev", "tfd"}, err : BOOLEAN] /\ e(t) \in [from : {"req", "ev", "tfd"}, err : BOOLEAN]
    OBVIOUS
  <2> HIDE DEF e
  <2>3. evs' \in EventSeq
    <3>1. <<e(s)>> \in EventSeq /\ <<e(s), e(t)>> \in EventSeq
      BY <2>2 DEF EventSeq
    <3>2. QED
      BY <2>1, <3>1
  <2>4. QED
    BY <1>8, <2>3 DEF owfd_wpa_ctrl_dispatch, timer, request, supplicant, Typed, TypeOK, EventSeq
<1>9. ASSUME dispatch_done PROVE Typed'
  BY <1>9 DEF dispatch_done, timer, request, supplicant, Typed, TypeOK
<1>10. ASSUME dispatch_req PROVE Typed'
  <2>1. pc' \in {"idle", "dispatch"} /\ evs' \in EventSeq /\ failed' \in BOOLEAN
    BY <1>10, HandledEffect DEF dispatch_req, Handling
  <2>2. QED
    BY <1>10, <2>1 DEF dispatch_req, timer, request, supplicant, Typed, TypeOK, EventSeq
<1>11. ASSUME dispatch_tfd PROVE Typed'
  <2>1. evs' \in Seq([from : {"req", "ev", "tfd"}, err : BOOLEAN])
    BY <1>11 DEF dispatch_tfd, Handling, Typed, TypeOK
  <2>2. CASE expired
    <3>1. wpa_request("PING", "req", MAX) /\ MAX \in 0 .. MAX
      BY <1>11, <2>2 DEF dispatch_tfd
    <3>2. queue' \in [Socket -> Seq(Message)] /\ inbox' \in Seq(Asked)
      BY <3>1, RequestEffect
    <3>3. Flags'
      BY <1>11, <2>2, <3>1 DEF dispatch_tfd, wpa_request, Flags, Typed, TypeOK
    <3>4. QED
      BY <1>11, <2>1, <2>2, <3>1, <3>2, <3>3 DEF dispatch_tfd, wpa_request, Flags, Typed, TypeOK
  <2>3. CASE ~expired
    BY <1>11, <2>1, <2>3 DEF dispatch_tfd, request, supplicant, Typed, TypeOK
  <2>4. QED
    BY <2>2, <2>3
<1>12. ASSUME dispatch_ev PROVE Typed'
  BY <1>12 DEF dispatch_ev, Handling, timer, request, supplicant, Typed, TypeOK
<1>13. ASSUME read_ev PROVE Typed'
  <2>1. CASE queue["ev"] = <<>>
    <3>1. pc' \in {"idle", "dispatch"} /\ evs' \in EventSeq /\ failed' \in BOOLEAN
      BY <1>13, <2>1, HandledEffect DEF read_ev, Typed
    <3>2. QED
      BY <1>13, <2>1, <3>1 DEF read_ev, timer, request, supplicant, Typed, TypeOK, EventSeq
  <2>2. CASE queue["ev"] # <<>>
    BY <1>13, <2>2, QueueTail DEF read_ev, timer, request, supplicant, Typed, TypeOK
  <2>3. QED
    BY <2>1, <2>2
<1>14. ASSUME callback_returns PROVE Typed'
  <2>1. /\ pc' \in {"idle", "read_ev"} /\ evs' \in EventSeq /\ failed' \in BOOLEAN
        /\ pc' = "read_ev" => evs' # <<>>
    <3>1. CASE state = "open"
      BY <1>14, <3>1 DEF callback_returns, Typed, TypeOK, EventSeq
    <3>2. CASE state # "open"
      BY <1>14, <3>2 DEF callback_returns, DispatchFails, EventSeq
    <3>3. QED
      BY <3>1, <3>2
  <2>2. QED
    BY <1>14, <2>1 DEF callback_returns, timer, request, supplicant, Typed, TypeOK, EventSeq
<1>15. ASSUME NEW ok \in BOOLEAN, Answer(ok) PROVE Typed'
  <2> DEFINE r == Head(inbox)
  <2>1. r \in Asked /\ inbox' \in Seq(Asked)
    BY <1>15 DEF Answer, Typed
  <2>2. [Reply(r.cmd, ok) EXCEPT !.stale = r.stale] \in Message
    BY <2>1, MessageTypes DEF Asked
  <2>3. queue' \in [Socket -> Seq(Message)]
    BY <1>15, <2>1, <2>2 DEF Answer, Typed, Asked
  <2>4. Flags'
    BY <1>15 DEF Answer, timer, Flags, Typed, TypeOK
  <2>5. QED
    BY <1>15, <2>1, <2>3, <2>4 DEF Answer, timer, request, Flags, Typed, TypeOK
<1>16. ASSUME NEW s \in Socket, SendEvent(s) PROVE Typed'
  BY <1>16, MessageTypes DEF SendEvent, timer, request, supplicant, Typed, TypeOK
<1>17. ASSUME Stop PROVE Typed'
  BY <1>17 DEF Stop, timer, request, Typed, TypeOK
<1>18. ASSUME Tick PROVE Typed'
  BY <1>18 DEF Tick, supplicant, Typed, TypeOK
<1>19. CASE UNCHANGED vars
  BY <1>19 DEF vars, timer, request, supplicant, Typed, TypeOK
<1>20. QED
  BY <1>1, <1>2, <1>3, <1>4, <1>5, <1>6, <1>7, <1>8, <1>9, <1>10, <1>11, <1>12, <1>13,
     <1>14, <1>15, <1>16, <1>17, <1>18, <1>19
  DEF Next, UserCall, Wait, Dispatch

-----------------------------------------------------------------------------
\* Every round of the loops starts with what is left of the timeout.
LEMMA TimeStep == Typed /\ TimeInv /\ [Next]_vars => TimeInv'
<1> SUFFICES ASSUME Typed, TimeInv, [Next]_vars PROVE TimeInv'
  OBVIOUS
<1> USE DEF TimeInv
<1>1. ASSUME NEW c, NEW s, NEW t \in 0 .. MAX, wpa_request(c, s, t) PROVE TimeInv'
  BY <1>1 DEF wpa_request
<1>2. ASSUME Waiting, NEW m \in Message, NEW q \in [Socket -> Seq(Message)], Finish(m, q)
      PROVE  TimeInv'
  BY <1>2, FinishEffect
<1>3. ASSUME Waiting, NEW q \in [Socket -> Seq(Message)], Again(q) PROVE TimeInv'
  <2>1. CASE Finish(Nothing, q)
    BY <1>2, <1>3, <2>1, MessageTypes
  <2>2. CASE /\ timeout - elapsed > 0 /\ timeout' = timeout - elapsed /\ slept' = 0
             /\ UNCHANGED <<pc, elapsed, asked, total>>
    <3>1. /\ timeout \in Nat /\ asked \in Nat /\ elapsed \in Nat /\ slept \in Nat /\ total \in Nat
          /\ timeout > elapsed
      BY <1>3, <2>2 DEF Typed, TypeOK
    <3>2. QED
      BY <1>3, <2>2, <3>1
  <2>3. QED
    BY <1>3, <2>1, <2>2, AgainEffect
<1>4. CASE UserCall
  BY <1>1, <1>4 DEF UserCall, owfd_wpa_ctrl_open, owfd_wpa_ctrl_close, owfd_wpa_ctrl_request
<1>5. CASE timed_send
  BY <1>5 DEF timed_send, Remaining, Typed, TypeOK
<1>6. CASE timed_send_again
  BY <1>3, <1>6 DEF timed_send_again, Typed
<1>7. CASE timed_recv
  <2>1. queue[fd] # <<>> /\ fd \in Socket
    BY <1>7 DEF timed_recv, Typed
  <2>2. QED
    BY <1>2, <1>3, <1>7, <2>1, QueueTail DEF timed_recv
<1>8. CASE ppoll_timeout \/ ppoll_error
  BY <1>2, <1>8, MessageTypes DEF ppoll_timeout, ppoll_error, Typed
<1>9. CASE dispatch_tfd
  BY <1>1, <1>9 DEF dispatch_tfd
<1>10. CASE dispatch_req \/ read_ev
  BY <1>10 DEF dispatch_req, read_ev, Handled, DispatchFails
<1>11. CASE owfd_wpa_ctrl_dispatch \/ dispatch_done \/ dispatch_ev \/ callback_returns
  BY <1>11 DEF owfd_wpa_ctrl_dispatch, dispatch_done, dispatch_ev, callback_returns, DispatchFails
<1>12. CASE \/ \E ok \in BOOLEAN : Answer(ok)
            \/ \E s \in Socket : SendEvent(s)
            \/ Stop
  BY <1>12 DEF Answer, SendEvent, Stop, request
<1>13. CASE Tick
  BY <1>13 DEF Tick, Typed, TypeOK
<1>14. CASE UNCHANGED vars
  BY <1>14 DEF vars, request
<1>15. QED
  BY <1>4, <1>5, <1>6, <1>7, <1>8, <1>9, <1>10, <1>11, <1>12, <1>13, <1>14
  DEF Next, Wait, Dispatch

-----------------------------------------------------------------------------
\* A request that ends with its reply leaves its socket quiet, and one that ends
\* without gives the socket up.
LEMMA FinishReply ==
  ASSUME Typed, ReplyInv, Waiting, NEW m \in Message, NEW q \in [Socket -> Seq(Message)],
         Finish(m, q),
         \A s \in Socket : \A i \in DOMAIN q[s] :
           \E j \in DOMAIN queue[s] : q[s][i].kind = queue[s][j].kind,
         \/ m = Nothing
         \/ fd \notin gaveup =>
              /\ \A i \in DOMAIN q[fd] : q[fd][i].kind # "reply"
              /\ \A i \in DOMAIN inbox : inbox[i].fd # fd
  PROVE  ReplyInv'
<1> SUFFICES ASSUME NEW s \in Socket \ gaveup' PROVE Quiet(s)'
  BY FinishEffect DEF ReplyInv
<1>1. CASE queue' = [r \in Socket |-> <<>>] /\ inbox' = <<>>
  BY <1>1 DEF Quiet
<1>2. CASE queue' = q /\ inbox' = inbox /\ gaveup' = IF m = Nothing THEN gaveup \cup {fd} ELSE gaveup
  <2>1. CASE s = fd
    BY <1>2, <2>1 DEF Quiet
  <2>2. CASE s # fd
    <3>1. Quiet(s)
      BY <1>2, <2>2 DEF ReplyInv
    <3>2. QED
      BY <1>2, <3>1 DEF Quiet
  <2>3. QED
    BY <2>1, <2>2
<1>3. QED
  BY <1>1, <1>2, FinishEffect

\* Every action keeps what the exchange says about the reply it waits for.
LEMMA ReplyStep == Typed /\ ReplyInv /\ [Next]_vars => ReplyInv'
<1> SUFFICES ASSUME Typed, ReplyInv, [Next]_vars PROVE ReplyInv'
  OBVIOUS
<1> USE DEF ReplyInv
<1>1. ASSUME ~Waiting, NEW c \in Command, NEW s \in Socket, NEW t \in 0 .. MAX, wpa_request(c, s, t),
             gaveup' = gaveup
      PROVE  ReplyInv'
  <2>1. pc' = "send"
    BY <1>1 DEF wpa_request
  <2>2. /\ \A r \in Socket : /\ DOMAIN queue'[r] = DOMAIN queue[r]
                             /\ \A i \in DOMAIN queue[r] : queue'[r][i].kind = queue[r][i].kind
        /\ DOMAIN inbox' = DOMAIN inbox
        /\ \A i \in DOMAIN inbox : inbox'[i].fd = inbox[i].fd
    BY <1>1, RequestEffect
  <2>3. QED
    BY <1>1, <2>1, <2>2 DEF Quiet
<1>4. CASE owfd_wpa_ctrl_open
  BY <1>1, <1>4 DEF owfd_wpa_ctrl_open
<1>5. CASE owfd_wpa_ctrl_close
  BY <1>5 DEF owfd_wpa_ctrl_close, close_sockets, Quiet
<1>6. CASE \E t \in 0 .. MAX : owfd_wpa_ctrl_request(t)
  BY <1>1, <1>6 DEF owfd_wpa_ctrl_request
<1>7. CASE timed_send
  <2>1. /\ pc = "send" /\ pc' = "recv" /\ fd' = fd /\ cmd' = cmd /\ queue' = queue
        /\ gaveup' = gaveup /\ fd \in Socket
        /\ inbox' = Append(inbox, [cmd |-> cmd, fd |-> fd, stale |-> FALSE])
    BY <1>7 DEF timed_send, Typed
  <2>2. /\ Len(inbox') = Len(inbox) + 1 /\ Len(inbox) \in Nat
        /\ DOMAIN inbox' = 1 .. Len(inbox') /\ DOMAIN inbox = 1 .. Len(inbox)
        /\ \A i \in DOMAIN inbox : inbox'[i] = inbox[i]
        /\ inbox'[Len(inbox')] = [cmd |-> cmd, fd |-> fd, stale |-> FALSE]
    BY <2>1 DEF Typed
  <2>3. ASSUME NEW s \in Socket \ gaveup PROVE IF fd = s THEN Own(s)' ELSE Quiet(s)'
    <3>1. Quiet(s)
      BY <2>1, <2>3
    <3>2. QED
      BY <2>1, <2>2, <3>1 DEF Quiet, Own
  <2>4. QED
    BY <2>1, <2>3
<1>8. ASSUME Waiting, NEW q \in [Socket -> Seq(Message)], Again(q),
             \A s \in Socket : \A i \in DOMAIN q[s] :
               \E j \in DOMAIN queue[s] : q[s][i] = queue[s][j],
             \A s \in Socket : \A i, j \in DOMAIN q[s] : i # j =>
               \E k, l \in DOMAIN queue[s] : q[s][i] = queue[s][k] /\ q[s][j] = queue[s][l] /\ k # l
      PROVE  ReplyInv'
  <2>1. CASE Finish(Nothing, q)
    BY <1>8, <2>1, FinishReply, MessageTypes
  <2>2. CASE queue' = q /\ UNCHANGED <<pc, fd, cmd, inbox, gaveup>>
    BY <1>8, <2>2 DEF Quiet, Own
  <2>3. QED
    BY <1>8, <2>1, <2>2, AgainEffect DEF supplicant
<1>9. CASE timed_send_again
  BY <1>8, <1>9 DEF timed_send_again, Typed
<1>10. CASE timed_recv
  <2> DEFINE q == [queue EXCEPT ![fd] = Tail(@)]
             m == Head(queue[fd])
  <2>1. /\ queue[fd] # <<>> /\ fd \in Socket /\ pc = "recv" /\ q \in [Socket -> Seq(Message)]
        /\ m \in Message /\ m = queue[fd][1] /\ 1 \in DOMAIN queue[fd]
    BY <1>10, QueueTail DEF timed_recv, Typed
  <2>2. \A i \in DOMAIN q[fd] : i \in Nat /\ i + 1 \in DOMAIN queue[fd] /\ q[fd][i] = queue[fd][i + 1]
    BY <2>1, QueueTail
  <2>3. \A s \in Socket \ {fd} : q[s] = queue[s]
    BY DEF Typed
  <2>4. CASE m.kind = "reply"
    <3>1. Finish(m, q)
      BY <1>10, <2>4 DEF timed_recv
    <3>2. \A s \in Socket : \A i \in DOMAIN q[s] :
            \E j \in DOMAIN queue[s] : q[s][i].kind = queue[s][j].kind
      BY <2>2, <2>3
    <3>3. fd \notin gaveup =>
              /\ \A i \in DOMAIN q[fd] : q[fd][i].kind # "reply"
              /\ \A i \in DOMAIN inbox : inbox[i].fd # fd
      BY <2>1, <2>2, <2>4 DEF Own
    <3> HIDE DEF q, m
    <3>4. QED
      BY <2>1, <3>1, <3>2, <3>3, FinishReply
  <2>5. CASE m.kind # "reply"
    <3>1. Again(q)
      BY <1>10, <2>5 DEF timed_recv
    <3>2. \A s \in Socket : \A i \in DOMAIN q[s] :
            \E j \in DOMAIN queue[s] : q[s][i] = queue[s][j]
      BY <2>2, <2>3
    <3>3. \A s \in Socket : \A i, j \in DOMAIN q[s] : i # j =>
            \E k, l \in DOMAIN queue[s] : q[s][i] = queue[s][k] /\ q[s][j] = queue[s][l] /\ k # l
      BY <2>2, <2>3
    <3> HIDE DEF q, m
    <3>4. QED
      BY <1>8, <2>1, <3>1, <3>2, <3>3
  <2>6. QED
    BY <2>4, <2>5
<1>11. CASE ppoll_timeout \/ ppoll_error
  <2>1. Waiting /\ Finish(Nothing, queue) /\ queue \in [Socket -> Seq(Message)]
    BY <1>11 DEF ppoll_timeout, ppoll_error, Typed
  <2>2. QED
    BY <2>1, FinishReply, MessageTypes
<1>12. CASE dispatch_tfd
  <2>1. CASE expired
    BY <1>1, <1>12, <2>1 DEF dispatch_tfd
  <2>2. CASE ~expired
    BY <1>12, <2>2 DEF dispatch_tfd, request, supplicant, Quiet
  <2>3. QED
    BY <2>1, <2>2
<1>13. CASE dispatch_req
  BY <1>13 DEF dispatch_req, Handled, DispatchFails, supplicant, Quiet, Typed
<1>14. CASE read_ev
  <2>1. pc' # "recv" /\ inbox' = inbox /\ gaveup' = gaveup /\ pc = "read_ev"
    BY <1>14 DEF read_ev, Handled, DispatchFails, supplicant
  <2>2. CASE queue["ev"] = <<>>
    BY <1>14, <2>1, <2>2 DEF read_ev, Quiet
  <2>3. CASE queue["ev"] # <<>>
    <3>1. /\ queue'["req"] = queue["req"]
          /\ \A i \in DOMAIN queue'["ev"] : i + 1 \in DOMAIN queue["ev"] /\ queue'["ev"][i] = queue["ev"][i + 1]
      BY <1>14, <2>3, QueueTail DEF read_ev, Typed
    <3>2. QED
      BY <2>1, <3>1 DEF Quiet
  <2>4. QED
    BY <2>2, <2>3
<1>15. CASE owfd_wpa_ctrl_dispatch \/ dispatch_done \/ dispatch_ev \/ callback_returns
  BY <1>15 DEF owfd_wpa_ctrl_dispatch, dispatch_done, dispatch_ev, callback_returns,
               DispatchFails, supplicant, Quiet
<1>16. ASSUME NEW ok \in BOOLEAN, Answer(ok) PROVE ReplyInv'
  <2> DEFINE r == Head(inbox)
             m == [Reply(r.cmd, ok) EXCEPT !.stale = r.stale]
  <2>1. /\ r \in Asked /\ r = inbox[1] /\ 1 \in DOMAIN inbox
        /\ inbox' = Tail(inbox)
        /\ queue' = [queue EXCEPT ![r.fd] = Append(@, m)]
        /\ pc' = pc /\ fd' = fd /\ cmd' = cmd /\ gaveup' = gaveup
    BY <1>16 DEF Answer, Typed, request
  <2>2. \A i \in DOMAIN inbox' : i \in Nat \ {0} /\ i + 1 \in DOMAIN inbox /\ inbox'[i] = inbox[i + 1]
    BY <1>16, <2>1 DEF Answer, Typed
  <2>3. m.kind = "reply" /\ m.cmd = r.cmd /\ m.stale = r.stale
    BY DEF Reply
  <2>4. r.fd \in Socket
    BY <2>1 DEF Asked
  <2> HIDE DEF r, m
  <2>5. /\ \A s \in Socket \ {r.fd} : queue'[s] = queue[s]
        /\ Len(queue[r.fd]) \in Nat
        /\ DOMAIN queue[r.fd] = 1 .. Len(queue[r.fd])
        /\ DOMAIN queue'[r.fd] = 1 .. Len(queue[r.fd]) + 1
        /\ \A i \in DOMAIN queue[r.fd] : queue'[r.fd][i] = queue[r.fd][i]
        /\ queue'[r.fd][Len(queue[r.fd]) + 1] = m
    BY <2>1, <2>4, QueueAppend DEF Typed
  <2>6. ASSUME NEW s \in Socket \ gaveup
        PROVE  IF pc = "recv" /\ fd = s THEN Own(s)' ELSE Quiet(s)'
    <3>1. CASE s = r.fd
      <4>1. pc = "recv" /\ fd = s /\ Own(s)
        BY <2>1, <3>1 DEF Quiet
      <4>2. /\ \A i \in DOMAIN queue[s] : queue[s][i].kind # "reply"
            /\ \A i \in DOMAIN inbox : inbox[i].fd = s => i = 1
            /\ r.cmd = cmd /\ ~r.stale
        BY <2>1, <3>1, <4>1 DEF Own
      <4>3. \A i \in DOMAIN inbox' : inbox'[i].fd # s
        BY <2>2, <4>2
      <4>4. QED
        BY <2>1, <2>3, <2>5, <3>1, <4>1, <4>2, <4>3 DEF Own
    <3>2. CASE s # r.fd
      BY <2>1, <2>2, <2>5, <3>2 DEF Own, Quiet
    <3>3. QED
      BY <3>1, <3>2
  <2>7. QED
    BY <2>1, <2>6
<1>17. ASSUME NEW r \in Socket, SendEvent(r) PROVE ReplyInv'
  <2>1. /\ queue' = [queue EXCEPT ![r] = Append(@, Event)]
        /\ pc' = pc /\ fd' = fd /\ cmd' = cmd /\ gaveup' = gaveup /\ inbox' = inbox
    BY <1>17 DEF SendEvent, request, supplicant
  <2>2. /\ \A s \in Socket \ {r} : queue'[s] = queue[s]
        /\ Len(queue[r]) \in Nat
        /\ DOMAIN queue[r] = 1 .. Len(queue[r])
        /\ DOMAIN queue'[r] = 1 .. Len(queue[r]) + 1
        /\ \A i \in DOMAIN queue[r] : queue'[r][i] = queue[r][i]
        /\ queue'[r][Len(queue[r]) + 1].kind # "reply"
    BY <2>1, QueueAppend, MessageTypes DEF Typed, Event
  <2>3. ASSUME NEW s \in Socket \ gaveup
        PROVE  IF pc = "recv" /\ fd = s THEN Own(s)' ELSE Quiet(s)'
    BY <2>1, <2>2 DEF Own, Quiet
  <2>4. QED
    BY <2>1, <2>3
<1>18. CASE Stop
  BY <1>18 DEF Stop, request, Quiet, Own
<1>19. CASE Tick
  BY <1>19 DEF Tick, supplicant, Quiet, Own
<1>20. CASE UNCHANGED vars
  BY <1>20 DEF vars, request, supplicant, Quiet, Own
<1>21. QED
  BY <1>4, <1>5, <1>6, <1>7, <1>9, <1>10, <1>11, <1>12, <1>13, <1>14, <1>15, <1>16, <1>17,
     <1>18, <1>19, <1>20
  DEF Next, UserCall, Wait, Dispatch

-----------------------------------------------------------------------------
\* It holds at first: nothing is under way.
LEMMA InitOK == Init => IInv
<1> SUFFICES ASSUME Init PROVE IInv
  OBVIOUS
<1>1. /\ queue \in [Socket -> Seq(Message)] /\ inbox \in Seq(Asked) /\ evs \in EventSeq
      /\ got \in Message
  BY MessageTypes DEF Init, EventSeq
<1>2. Flags
  BY DEF Init, Flags
<1>3. Typed
  BY <1>1, <1>2 DEF Init, Typed, TypeOK, Flags, EventSeq
<1>4. TimeInv /\ ReplyInv
  BY DEF Init, TimeInv, ReplyInv, Quiet
<1>5. QED
  BY <1>3, <1>4 DEF IInv

\* So it holds throughout.
LEMMA Invariance == Spec => []IInv
<1>1. IInv /\ [Next]_vars => IInv'
  BY TypesStep, TimeStep, ReplyStep DEF IInv
<1>2. QED
  BY <1>1, InitOK, PTL DEF Spec

\* However often timed_send and timed_recv go round, a request ends within the time
\* that its caller allowed.
THEOREM BoundedWaitHolds == Spec => []BoundedWait
<1>1. IInv => BoundedWait
  BY DEF IInv, Typed, TypeOK, TimeInv, BoundedWait
<1>2. QED
  BY <1>1, Invariance, PTL

\* wpa_request returns its own reply as long as no request of the connection was
\* given up on the socket.
THEOREM OwnReplyHolds == Spec => OwnReply
<1> DEFINE A == pc = "recv" /\ pc' # "recv" /\ got'.kind # "none" /\ fd \notin gaveup =>
                  got'.kind = "reply" /\ got'.cmd = cmd /\ ~got'.stale
<1>1. IInv /\ [Next]_vars => [A]_vars
  <2> SUFFICES ASSUME IInv, Next, pc = "recv", pc' # "recv", got'.kind # "none", fd \notin gaveup
               PROVE  got'.kind = "reply" /\ got'.cmd = cmd /\ ~got'.stale
    OBVIOUS
  <2>1. Typed /\ ReplyInv /\ fd \in Socket
    BY DEF IInv, Typed
  <2>2. timed_recv \/ ppoll_timeout \/ ppoll_error
    BY DEF Next, UserCall, owfd_wpa_ctrl_open, owfd_wpa_ctrl_close, owfd_wpa_ctrl_request,
           Wait, timed_send, timed_send_again, Dispatch, owfd_wpa_ctrl_dispatch, dispatch_done,
           dispatch_req, dispatch_tfd, dispatch_ev, read_ev, callback_returns, Answer, SendEvent,
           Stop, Tick
  <2>3. ASSUME NEW q \in [Socket -> Seq(Message)], Finish(Nothing, q) PROVE FALSE
    BY <2>1, <2>3, FinishEffect, MessageTypes DEF Nothing
  <2>4. timed_recv
    BY <2>1, <2>2, <2>3 DEF ppoll_timeout, ppoll_error, Typed
  <2> DEFINE q == [queue EXCEPT ![fd] = Tail(@)]
             m == Head(queue[fd])
  <2>5. /\ queue[fd] # <<>> /\ m \in Message /\ m = queue[fd][1] /\ 1 \in DOMAIN queue[fd]
        /\ q \in [Socket -> Seq(Message)]
    BY <2>1, <2>4, QueueTail DEF timed_recv
  <2>6. m.kind = "reply" /\ Finish(m, q)
    <3>1. IF m.kind = "reply" THEN Finish(m, q) ELSE Again(q)
      BY <2>4 DEF timed_recv
    <3> HIDE DEF m, q
    <3>2. ASSUME Again(q) PROVE FALSE
      BY <2>1, <2>3, <2>5, <3>2, AgainEffect
    <3>3. QED
      BY <3>1, <3>2
  <2>7. got' = m
    <3> HIDE DEF m, q
    <3>1. QED
      BY <2>1, <2>5, <2>6, FinishEffect
  <2>8. QED
    BY <2>1, <2>5, <2>6, <2>7 DEF ReplyInv, Own
<1>2. QED
  BY <1>1, Invariance, PTL DEF Spec, OwnReply

\* The positions of the events in a queue.
EventAt(q) == {i \in DOMAIN q : q[i].kind = "event"}

\* A finite queue has finitely many events, so that they can be counted.
LEMMA EventAtFinite ==
  ASSUME NEW q \in Seq(Message)
  PROVE  IsFiniteSet(EventAt(q)) /\ Cardinality(EventAt(q)) \in Nat
<1>1. IsFiniteSet(1 .. Len(q)) /\ EventAt(q) \subseteq 1 .. Len(q)
  BY FS_Interval DEF EventAt
<1>2. QED
  BY <1>1, FS_Subset, FS_CardinalityType

\* Nothing but read_ev takes an event off the event socket of an open connection,
\* and what it takes it gives to the callback.
THEOREM EventsKeptHolds == Spec => EventsKept
<1> DEFINE E(q) == Cardinality({i \in DOMAIN q : q[i].kind = "event"})
           A == state = "open" /\ state' = "open" => E(queue'["ev"]) >= E(queue["ev"]) \/ pc' = "callback"
<1>1. IInv /\ IInv' /\ [Next]_vars => [A]_vars
  <2> SUFFICES ASSUME IInv, IInv', Next, state = "open", state' = "open", pc' # "callback"
               PROVE  Cardinality(EventAt(queue'["ev"])) >= Cardinality(EventAt(queue["ev"]))
    BY DEF EventAt
  <2>1. /\ Typed /\ queue["ev"] \in Seq(Message) /\ queue'["ev"] \in Seq(Message)
    BY DEF IInv, Typed
  <2>2. ASSUME EventAt(queue["ev"]) \subseteq EventAt(queue'["ev"])
        PROVE  Cardinality(EventAt(queue'["ev"])) >= Cardinality(EventAt(queue["ev"]))
    BY <2>1, <2>2, EventAtFinite, FS_Subset
  <2>3. ASSUME queue'["ev"] = queue["ev"]
        PROVE  Cardinality(EventAt(queue'["ev"])) >= Cardinality(EventAt(queue["ev"]))
    BY <2>2, <2>3
  <2>4. ASSUME NEW c \in Command, NEW s \in Socket, NEW t \in 0 .. MAX, wpa_request(c, s, t)
        PROVE  Cardinality(EventAt(queue'["ev"])) >= Cardinality(EventAt(queue["ev"]))
    BY <2>1, <2>2, <2>4, RequestEffect DEF EventAt
  <2>5. CASE UserCall
    BY <2>4, <2>5 DEF UserCall, owfd_wpa_ctrl_open, owfd_wpa_ctrl_close, owfd_wpa_ctrl_request,
                      close_sockets
  <2>6. CASE Wait
    <3>1. fd = "req" \/ timed_send
      BY <2>1, <2>6 DEF Wait, timed_send_again, timed_recv, ppoll_timeout, ppoll_error, Typed
    <3>2. CASE timed_send
      BY <2>3, <3>2 DEF timed_send
    <3>3. ASSUME Waiting, NEW m \in Message, NEW q \in [Socket -> Seq(Message)], Finish(m, q)
          PROVE  queue' = q
      BY <2>1, <3>3, FinishEffect
    <3>4. ASSUME Waiting, NEW q \in [Socket -> Seq(Message)], Again(q)
          PROVE  queue' = q
      BY <2>1, <3>3, <3>4, AgainEffect, MessageTypes
    <3>5. CASE timed_send_again \/ ppoll_timeout \/ ppoll_error
      BY <2>1, <2>3, <3>3, <3>4, <3>5, MessageTypes
      DEF timed_send_again, ppoll_timeout, ppoll_error, Typed
    <3>6. CASE timed_recv /\ fd = "req"
      <4>1. queue["req"] # <<>> /\ [queue EXCEPT !["req"] = Tail(@)] \in [Socket -> Seq(Message)]
        BY <2>1, <3>6, QueueTail DEF timed_recv
      <4>2. queue' = [queue EXCEPT !["req"] = Tail(@)]
        BY <2>1, <3>3, <3>4, <3>6, <4>1, QueueTail DEF timed_recv
      <4>3. QED
        BY <2>1, <2>3, <4>2 DEF Typed
    <3>7. QED
      BY <2>6, <3>1, <3>2, <3>5, <3>6 DEF Wait
  <2>7. CASE dispatch_tfd
    <3>1. CASE expired
      BY <2>4, <2>7, <3>1 DEF dispatch_tfd
    <3>2. CASE ~expired
      BY <2>3, <2>7, <3>2 DEF dispatch_tfd
    <3>3. QED
      BY <3>1, <3>2
  <2>8. CASE dispatch_req
    BY <2>1, <2>3, <2>8 DEF dispatch_req, Typed
  <2>9. CASE read_ev
    <3>1. CASE queue["ev"] = <<>>
      BY <2>3, <2>9, <3>1 DEF read_ev
    <3>2. CASE queue["ev"] # <<>>
      <4> DEFINE q == queue["ev"]
                 f == [i \in EventAt(q) |-> i - 1]
      <4>1. /\ queue'["ev"] = Tail(q) /\ q[1].kind # "event" /\ Len(q) \in Nat
            /\ DOMAIN q = 1 .. Len(q)
            /\ \A i \in DOMAIN q : i = 1 \/ (i - 1 \in DOMAIN Tail(q) /\ Tail(q)[i - 1] = q[i])
        <5>1. queue'["ev"] = Tail(q) /\ Head(q).kind # "event"
          BY <2>1, <2>9, <3>2 DEF read_ev, Typed
        <5>2. QED
          BY <2>1, <3>2, <5>1, QueueTail
      <4>2. f \in Injection(EventAt(q), EventAt(Tail(q)))
        <5> HIDE DEF q
        <5>1. \A i \in EventAt(q) : i \in Int /\ i - 1 \in EventAt(Tail(q))
          BY <4>1 DEF EventAt
        <5>2. f \in [EventAt(q) -> EventAt(Tail(q))] /\ \A i, j \in EventAt(q) : f[i] = f[j] => i = j
          BY <5>1
        <5>3. QED
          BY <5>2 DEF Injection, IsInjective
      <4>3. QED
        BY <2>1, <4>1, <4>2, EventAtFinite, FS_Injection
    <3>3. QED
      BY <3>1, <3>2
  <2>10. CASE owfd_wpa_ctrl_dispatch \/ dispatch_done \/ dispatch_ev \/ callback_returns \/ Stop \/ Tick
    BY <2>3, <2>10 DEF owfd_wpa_ctrl_dispatch, dispatch_done, dispatch_ev, callback_returns, Stop, Tick
  <2>11. ASSUME NEW s \in Socket, NEW m, queue' = [queue EXCEPT ![s] = Append(@, m)]
         PROVE  Cardinality(EventAt(queue'["ev"])) >= Cardinality(EventAt(queue["ev"]))
    <3>1. EventAt(queue["ev"]) \subseteq EventAt(queue'["ev"])
      BY <2>1, <2>11, QueueAppend DEF EventAt, Typed
    <3>2. QED
      BY <2>2, <3>1
  <2>12. CASE \E s \in Socket : SendEvent(s)
    BY <2>11, <2>12 DEF SendEvent
  <2>13. CASE \E ok \in BOOLEAN : Answer(ok)
    <3>1. Head(inbox).fd \in Socket
      <4>1. inbox # <<>> /\ inbox \in Seq(Asked)
        BY <2>1, <2>13 DEF Answer, Typed
      <4>2. Head(inbox) \in Asked
        BY <4>1
      <4>3. QED
        BY <4>2 DEF Asked
    <3>2. QED
      BY <2>11, <2>13, <3>1 DEF Answer
  <2>14. QED
    BY <2>5, <2>6, <2>7, <2>8, <2>9, <2>10, <2>12, <2>13 DEF Next, Dispatch
<1>2. QED
  BY <1>1, Invariance, PTL DEF Spec, EventsKept

=============================================================================

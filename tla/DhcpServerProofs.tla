--------------------------- MODULE DhcpServerProofs --------------------------
(***************************************************************************)
(* Proofs about DhcpServer and DhcpGrants, for every range, every number   *)
(* of clients, lease objects and lease times: the list and the hash agree, *)
(* an address that is promised is in the table, the last lease is the      *)
(* oldest, and a grant stays its client's until it ends.  And about        *)
(* DhcpOptions, for every size of a packet's fields and all options: what  *)
(* is put into a packet is found in it.                                    *)
(***************************************************************************)
EXTENDS DhcpGrants, DhcpOptions, WellFoundedInduction, SequenceTheorems, TLAPS

\* Min is the least element of a set of positions or addresses.
LEMMA MinNat ==
  ASSUME NEW S, S \subseteq Nat, S # {}
  PROVE  Min(S) \in S /\ \A y \in S : Min(S) <= y
<1>1. PICK x \in S : \A y \in S : ~(<<y, x>> \in OpToRel(<, Nat))
  BY NatLessThanWellFounded, WFMin
<1>2. ASSUME NEW y \in S PROVE x <= y
  <2>1. x \in Nat /\ y \in Nat /\ <<y, x>> \in Nat \X Nat
    OBVIOUS
  <2>2. ~(y < x)
    BY <1>1, <2>1 DEF OpToRel
  <2>3. QED
    BY <2>1, <2>2
<1>3. QED
  BY <1>2 DEF Min

\* Division with a remainder, for a divisor that is a constant.
LEMMA DivMod ==
  ASSUME NEW a \in Nat, NEW m \in Nat, m > 0, NEW q, NEW r, q = a \div m, r = a % m
  PROVE  q \in Int /\ r \in 0 .. m - 1 /\ a = q * m + r
<1>1. q \in Int /\ r \in Int /\ r \in 0 .. m - 1
  OBVIOUS
<1>2. r = a - q * m
  BY <1>1
<1>3. QED
  BY <1>1, <1>2

\* The two bytes of an address are what % and \div give back.
LEMMA Digits ==
  ASSUME NEW q \in 0 .. B - 1, NEW r \in 0 .. B - 1
  PROVE  /\ q * B + r \in Addr
         /\ (q * B + r) % B = r
         /\ (q * B + r) \div B = q
<1> DEFINE x == q * B + r
<1>1. B \in Nat /\ B > 0 /\ q \in Nat /\ r \in Nat /\ x \in Nat
  BY ServerAssumption
<1>2. x \in Addr
  <2>1. (q + 1) * B <= B * B
    BY <1>1
  <2>2. (q + 1) * B = q * B + B
    BY <1>1
  <2>3. QED
    BY <1>1, <2>1, <2>2 DEF Addr
<1> DEFINE u == x \div B
           v == x % B
<1>4. u \in Int /\ v \in 0 .. B - 1 /\ q * B + r = u * B + v
  <2>1. x \in Nat /\ u = x \div B /\ v = x % B
    BY <1>1
  <2> HIDE DEF x, u, v
  <2>2. x = u * B + v /\ u \in Int /\ v \in 0 .. B - 1
    BY <1>1, <2>1, DivMod
  <2>3. QED
    BY <2>2 DEF x
<1> HIDE DEF u, v
<1>5. u = q
  <2>1. CASE u < q
    <3>1. u * B + B <= q * B
      <4>1. (u + 1) * B <= q * B
        BY <1>1, <1>4, <2>1
      <4>2. QED
        BY <1>1, <1>4, <4>1
    <3>2. QED
      BY <1>1, <1>4, <3>1
  <2>2. CASE u > q
    <3>1. q * B + B <= u * B
      <4>1. (q + 1) * B <= u * B
        BY <1>1, <1>4, <2>2
      <4>2. QED
        BY <1>1, <1>4, <4>1
    <3>2. QED
      BY <1>1, <1>4, <3>1
  <2>3. QED
    BY <1>1, <1>4, <2>1, <2>2
<1>6. v = r
  BY <1>1, <1>4, <1>5
<1>7. QED
  BY <1>2, <1>5, <1>6 DEF u, v

\* htonl is undone by ntohl.
LEMMA Swapped ==
  ASSUME NEW a \in Addr
  PROVE  htonl(a) \in Addr /\ ntohl(htonl(a)) = a
<1> DEFINE q == a \div B
           r == a % B
<1>1. B \in Nat /\ B > 0 /\ a \in Nat /\ a < B * B
  BY ServerAssumption DEF Addr
<1>2. q \in Int /\ r \in 0 .. B - 1 /\ a = q * B + r
  <2>1. q = a \div B /\ r = a % B
    OBVIOUS
  <2> HIDE DEF q, r
  <2>2. QED
    BY <1>1, <2>1, DivMod
<1> HIDE DEF q, r
<1>3. q \in 0 .. B - 1
  <2>1. CASE q < 0
    <3>1. q * B <= -1 * B
      BY <1>1, <1>2, <2>1
    <3>2. QED
      BY <1>1, <1>2, <3>1
  <2>2. CASE q >= B
    <3>1. q * B >= B * B
      BY <1>1, <1>2, <2>2
    <3>2. QED
      BY <1>1, <1>2, <3>1
  <2>3. QED
    BY <1>1, <1>2, <2>1, <2>2
<1>4. htonl(a) = r * B + q
  BY DEF htonl, q, r
<1>5. htonl(a) \in Addr /\ htonl(a) % B = q /\ htonl(a) \div B = r
  BY <1>2, <1>3, <1>4, Digits
<1>6. QED
  BY <1>2, <1>5 DEF ntohl, htonl
\* "No address" is the same in both byte orders.
LEMMA ZeroSwapped == htonl(0) = 0
<1>1. 0 \in 0 .. B - 1 /\ 0 * B + 0 = 0
  BY ServerAssumption
<1>2. 0 % B = 0 /\ 0 \div B = 0
  BY <1>1, Digits
<1>3. QED
  BY <1>1, <1>2 DEF htonl

-----------------------------------------------------------------------------
\* The elements of a list, and a list sorted as compare_expire means it.
Elems(s) == {s[i] : i \in DOMAIN s}

Sorted(heap, s) ==
  \A i, j \in DOMAIN s : i < j => heap[s[i]].expire >= heap[s[j]].expire

\* g_list_remove keeps the order and the rest of a list without duplicates.
LEMMA RemoveEffect ==
  ASSUME NEW S, NEW s \in Seq(S), IsInjective(s), NEW e
  PROVE  /\ RemoveFirst(s, e) \in Seq(S)
         /\ IsInjective(RemoveFirst(s, e))
         /\ Elems(RemoveFirst(s, e)) = Elems(s) \ {e}
         /\ \A heap : Sorted(heap, s) => Sorted(heap, RemoveFirst(s, e))
<1>1. CASE \A i \in 1 .. Len(s) : s[i] # e
  <2>1. RemoveFirst(s, e) = s
    BY <1>1 DEF RemoveFirst
  <2>2. e \notin Elems(s)
    BY <1>1 DEF Elems
  <2>3. QED
    BY <2>1, <2>2
<1>2. CASE \E i \in 1 .. Len(s) : s[i] = e
  <2> DEFINE I == {i \in 1 .. Len(s) : s[i] = e}
             k == Min(I)
             n == Len(s)
             r == RemoveAt(s, k)
  <2>1. k \in 1 .. n /\ s[k] = e /\ RemoveFirst(s, e) = r
    <3>1. I \subseteq Nat /\ I # {}
      BY <1>2
    <3>2. k \in I
      BY <3>1, MinNat
    <3>3. RemoveFirst(s, e) = r
      BY <1>2 DEF RemoveFirst, SelectInSeq
    <3>4. QED
      BY <3>2, <3>3
  <2> HIDE DEF k
  <2>2. n \in Nat /\ DOMAIN s = 1 .. n
    OBVIOUS
  <2>0. \A i \in 1 .. n : s[i] \in S
    OBVIOUS
  <2>3. /\ r \in Seq(S) /\ Len(r) = n - 1
        /\ \A i \in 1 .. n - 1 : r[i] = IF i < k THEN s[i] ELSE s[i + 1]
    <3> DEFINE a == SubSeq(s, 1, k - 1)
               b == SubSeq(s, k + 1, n)
    <3>1. a \in Seq(S) /\ Len(a) = k - 1 /\ \A i \in 1 .. k - 1 : a[i] = s[i]
      BY <2>1, <2>2
    <3>2. b \in Seq(S) /\ Len(b) = n - k /\ \A i \in 1 .. n - k : b[i] = s[i + k]
      <4>1. b \in Seq(S) /\ Len(b) = n - k
        <5> HIDE DEF n
        <5>1. /\ k + 1 \in Int /\ n \in Int /\ \A i \in k + 1 .. n : s[i] \in S
              /\ (IF k + 1 <= n THEN n - (k + 1) + 1 ELSE 0) = n - k
          BY <2>0, <2>1, <2>2
        <5>2. b \in Seq(S) /\ Len(b) = IF k + 1 <= n THEN n - (k + 1) + 1 ELSE 0
          BY <5>1, SubSeqProperties DEF b
        <5>3. QED
          BY <5>1, <5>2
      <4>2. ASSUME NEW i \in 1 .. n - k PROVE b[i] = s[i + k]
        <5>1. b[i] = s[(k + 1) + i - 1] /\ (k + 1) + i - 1 = i + k
          BY <2>1, <2>2
        <5>2. QED
          BY <5>1
      <4>3. QED
        BY <4>1, <4>2
    <3>3. r = a \o b
      BY DEF RemoveAt
    <3> HIDE DEF a, b, r
    <3>4. r \in Seq(S) /\ Len(r) = Len(a) + Len(b)
      BY <3>1, <3>2, <3>3
    <3>5. ASSUME NEW i \in 1 .. n - 1 PROVE r[i] = IF i < k THEN s[i] ELSE s[i + 1]
      <4>1. CASE i < k
        BY <2>1, <2>2, <3>1, <3>2, <3>3, <4>1
      <4>2. CASE i >= k
        <5>1. r[i] = b[i - (k - 1)] /\ i - (k - 1) \in 1 .. n - k
          <6>1. i - (k - 1) \in 1 .. n - k /\ i \in Len(a) + 1 .. Len(a) + Len(b)
            BY <2>1, <2>2, <3>1, <3>2, <4>2
          <6>2. r[i] = b[i - Len(a)]
            BY <3>1, <3>2, <3>3, <6>1
          <6>3. QED
            BY <3>1, <6>1, <6>2
        <5>2. b[i - (k - 1)] = s[(i - (k - 1)) + k]
          BY <3>2, <5>1
        <5>3. (i - (k - 1)) + k = i + 1
          BY <2>1, <2>2
        <5>4. QED
          BY <2>1, <2>2, <4>2, <5>1, <5>2, <5>3
      <4>3. QED
        BY <2>1, <2>2, <4>1, <4>2
    <3>6. QED
      BY <2>1, <2>2, <3>1, <3>2, <3>4, <3>5
  <2> HIDE DEF n, r
  <2>4. DOMAIN r = 1 .. n - 1
    BY <2>2, <2>3
  <2>5. IsInjective(r)
    <3> SUFFICES ASSUME NEW i \in 1 .. n - 1, NEW j \in 1 .. n - 1, r[i] = r[j]
                 PROVE  i = j
      BY <2>4 DEF IsInjective
    <3> DEFINE u == IF i < k THEN i ELSE i + 1
               v == IF j < k THEN j ELSE j + 1
    <3>1. u \in 1 .. n /\ v \in 1 .. n
      BY <2>1, <2>2
    <3>2. r[i] = s[u] /\ r[j] = s[v]
      BY <2>3
    <3>3. u = v
      BY <2>2, <3>1, <3>2 DEF IsInjective
    <3>4. QED
      BY <2>1, <2>2, <3>3
  <2>6. Elems(r) = Elems(s) \ {e}
    <3>1. ASSUME NEW x \in Elems(r) PROVE x \in Elems(s) \ {e}
      <4>1. PICK i \in 1 .. n - 1 : x = r[i]
        BY <2>4 DEF Elems
      <4>2. QED
        <5>1. PICK j \in 1 .. n : x = s[j] /\ j # k
          BY <2>1, <2>2, <2>3, <4>1
        <5>2. QED
          BY <2>1, <2>2, <5>1 DEF Elems, IsInjective
    <3>2. ASSUME NEW x \in Elems(s), x # e PROVE x \in Elems(r)
      <4>1. PICK i \in 1 .. n : x = s[i]
        BY <2>2 DEF Elems
      <4>2. CASE i < k
        <5>1. i \in 1 .. n - 1 /\ r[i] = x
          BY <2>1, <2>2, <2>3, <4>1, <4>2
        <5>2. QED
          BY <2>4, <5>1 DEF Elems
      <4>3. CASE i > k
        <5>1. i - 1 \in 1 .. n - 1 /\ ~(i - 1 < k) /\ (i - 1) + 1 = i
          BY <2>1, <2>2, <4>1, <4>3
        <5>2. r[i - 1] = x
          BY <2>3, <4>1, <5>1
        <5>3. QED
          BY <2>4, <5>1, <5>2 DEF Elems
      <4>4. QED
        BY <2>1, <2>2, <3>2, <4>1, <4>2, <4>3
    <3>3. QED
      BY <3>1, <3>2
  <2>7. ASSUME NEW heap, Sorted(heap, s) PROVE Sorted(heap, r)
    <3> SUFFICES ASSUME NEW i \in 1 .. n - 1, NEW j \in 1 .. n - 1, i < j
                 PROVE  heap[r[i]].expire >= heap[r[j]].expire
      BY <2>4 DEF Sorted
    <3>1. PICK u \in 1 .. n, v \in 1 .. n : u < v /\ r[i] = s[u] /\ r[j] = s[v]
      <4> DEFINE u == IF i < k THEN i ELSE i + 1
                 v == IF j < k THEN j ELSE j + 1
      <4>1. u \in 1 .. n /\ v \in 1 .. n /\ u < v
        BY <2>1, <2>2
      <4>2. r[i] = s[u] /\ r[j] = s[v]
        BY <2>3
      <4>3. QED
        BY <4>1, <4>2
    <3>2. QED
      BY <2>2, <2>7, <3>1 DEF Sorted
  <2>8. QED
    BY <2>1, <2>3, <2>5, <2>6, <2>7
<1>3. QED
  BY <1>1, <1>2

\* What g_list_insert_sorted does to the list, wherever the element goes.
LEMMA InsertAtEffect ==
  ASSUME NEW S, NEW s \in Seq(S), NEW e \in S, NEW k \in 1 .. Len(s) + 1
  PROVE  /\ InsertAt(s, k, e) \in Seq(S)
         /\ Len(InsertAt(s, k, e)) = Len(s) + 1
         /\ \A i \in 1 .. Len(s) + 1 :
              InsertAt(s, k, e)[i] = IF i < k THEN s[i] ELSE IF i = k THEN e ELSE s[i - 1]
<1> DEFINE n == Len(s)
           a == SubSeq(s, 1, k - 1)
           b == SubSeq(s, k, n)
           c == a \o <<e>>
           r == InsertAt(s, k, e)
<1>1. n \in Nat /\ k \in 1 .. n + 1
  OBVIOUS
<1>2. a \in Seq(S) /\ Len(a) = k - 1 /\ \A i \in 1 .. k - 1 : a[i] = s[i]
  BY <1>1
<1>3. b \in Seq(S) /\ Len(b) = n - (k - 1) /\ \A i \in 1 .. n - (k - 1) : b[i] = s[i + (k - 1)]
  BY <1>1
<1>4. r = c \o b
  BY DEF InsertAt
<1> HIDE DEF a, b, r
<1>5. c \in Seq(S) /\ Len(c) = k /\ c[k] = e /\ \A i \in 1 .. k - 1 : c[i] = s[i]
  BY <1>1, <1>2
<1> HIDE DEF c
<1>6. r \in Seq(S) /\ Len(r) = n + 1
  <2>1. r \in Seq(S) /\ Len(r) = Len(c) + Len(b)
    BY <1>3, <1>4, <1>5, ConcatProperties
  <2>2. QED
    BY <1>1, <1>3, <1>5, <2>1
<1>7. ASSUME NEW i \in 1 .. n + 1 PROVE r[i] = IF i < k THEN s[i] ELSE IF i = k THEN e ELSE s[i - 1]
  <2>1. CASE i <= k
    <3>1. r[i] = c[i]
      BY <1>1, <1>3, <1>4, <1>5, <2>1
    <3>2. CASE i < k
      <4>1. i \in 1 .. k - 1
        BY <1>1, <3>2
      <4>2. QED
        BY <1>5, <3>1, <3>2, <4>1
    <3>3. CASE i = k
      BY <1>1, <1>5, <3>1, <3>3
    <3>4. QED
      BY <1>1, <2>1, <3>2, <3>3
  <2>2. CASE i > k
    <3>1. r[i] = b[i - k] /\ i - k \in 1 .. n - (k - 1)
      BY <1>1, <1>3, <1>4, <1>5, <2>2
    <3>2. b[i - k] = s[(i - k) + (k - 1)]
      BY <1>3, <3>1
    <3>3. (i - k) + (k - 1) = i - 1 /\ ~(i < k) /\ i # k
      BY <1>1, <2>2
    <3>4. QED
      BY <3>1, <3>2, <3>3
  <2>3. QED
    BY <1>1, <2>1, <2>2
<1>8. QED
  BY <1>6, <1>7 DEF n, r

\* The place in the list that insert_sorted finds.
InsertPos(heap, s, id) ==
  LET after == {i \in DOMAIN s : compare_expire(heap[id], heap[s[i]]) <= 0}
  IN  IF after = {} THEN Len(s) + 1 ELSE Min(after)

\* Before that place everything expires later than the object, at it nothing does.
LEMMA InsertPosEffect ==
  ASSUME NEW heap, NEW s \in Seq(LeaseId), NEW id
  PROVE  /\ InsertPos(heap, s, id) \in 1 .. Len(s) + 1
         /\ \A i \in DOMAIN s : i < InsertPos(heap, s, id) =>
              ~(compare_expire(heap[id], heap[s[i]]) <= 0)
         /\ InsertPos(heap, s, id) \in DOMAIN s =>
              compare_expire(heap[id], heap[s[InsertPos(heap, s, id)]]) <= 0
<1> DEFINE C(i) == compare_expire(heap[id], heap[s[i]]) <= 0
           after == {i \in DOMAIN s : C(i)}
           p == InsertPos(heap, s, id)
<1>1. p = IF after = {} THEN Len(s) + 1 ELSE Min(after)
  BY DEF InsertPos
<1>2. DOMAIN s = 1 .. Len(s) /\ Len(s) \in Nat /\ after \subseteq Nat
  OBVIOUS
<1> HIDE DEF C, p
<1>3. CASE after = {}
  BY <1>1, <1>2, <1>3 DEF C, p
<1>4. CASE after # {}
  <2>1. p \in after /\ \A y \in after : p <= y
    BY <1>1, <1>2, <1>4, MinNat
  <2>2. \A i \in DOMAIN s : i < p => ~C(i)
    BY <1>2, <2>1
  <2>3. QED
    BY <1>2, <2>1, <2>2 DEF C, p
<1>5. QED
  BY <1>3, <1>4

\* The list with the object at that place.
LEMMA InsertSortedIs ==
  ASSUME NEW heap, NEW s \in Seq(LeaseId), NEW id \in LeaseId,
         NEW k, k = InsertPos(heap, s, id), NEW r, r = insert_sorted(heap, s, id)
  PROVE  /\ k \in 1 .. Len(s) + 1
         /\ r \in Seq(LeaseId) /\ Len(r) = Len(s) + 1
         /\ \A i \in 1 .. Len(s) + 1 :
              r[i] = IF i < k THEN s[i] ELSE IF i = k THEN id ELSE s[i - 1]
<1>1. r = InsertAt(s, k, id)
  BY DEF insert_sorted, InsertPos
<1>2. k \in 1 .. Len(s) + 1
  BY InsertPosEffect
<1>3. /\ InsertAt(s, k, id) \in Seq(LeaseId)
      /\ Len(InsertAt(s, k, id)) = Len(s) + 1
      /\ \A i \in 1 .. Len(s) + 1 :
           InsertAt(s, k, id)[i] = IF i < k THEN s[i] ELSE IF i = k THEN id ELSE s[i - 1]
  BY <1>2, InsertAtEffect
<1>4. QED
  BY <1>1, <1>2, <1>3

\* An object that is not in the list is put into it once.
LEMMA InsertEffect ==
  ASSUME NEW heap, NEW s \in Seq(LeaseId), IsInjective(s), NEW id \in LeaseId \ Elems(s)
  PROVE  /\ insert_sorted(heap, s, id) \in Seq(LeaseId)
         /\ IsInjective(insert_sorted(heap, s, id))
         /\ Elems(insert_sorted(heap, s, id)) = Elems(s) \cup {id}
<1> DEFINE k == InsertPos(heap, s, id)
           n == Len(s)
           r == insert_sorted(heap, s, id)
<1>1. n \in Nat /\ DOMAIN s = 1 .. n /\ k \in 1 .. n + 1
  BY InsertPosEffect
<1>2. /\ r \in Seq(LeaseId) /\ Len(r) = n + 1
      /\ \A i \in 1 .. n + 1 : r[i] = IF i < k THEN s[i] ELSE IF i = k THEN id ELSE s[i - 1]
  <2>1. k = InsertPos(heap, s, id) /\ r = insert_sorted(heap, s, id)
    OBVIOUS
  <2> HIDE DEF k, r
  <2>2. QED
    BY <2>1, InsertSortedIs
<1>3. DOMAIN r = 1 .. n + 1
  BY <1>1, <1>2
<1> HIDE DEF k, n, r
<1>4. \A i \in 1 .. n : s[i] # id
  BY <1>1 DEF Elems
<1>5. ASSUME NEW i \in 1 .. n + 1, NEW j \in 1 .. n + 1, r[i] = r[j] PROVE i = j
  <2>1. CASE i = k
    <3>1. CASE j < k
      BY <1>1, <1>2, <1>4, <1>5, <2>1, <3>1
    <3>2. CASE j > k
      <4>1. j - 1 \in 1 .. n /\ r[j] = s[j - 1] /\ r[i] = id
        BY <1>1, <1>2, <2>1, <3>2
      <4>2. QED
        BY <1>4, <1>5, <4>1
    <3>3. QED
      BY <1>1, <2>1, <3>1, <3>2
  <2>2. CASE j = k
    <3>1. CASE i < k
      BY <1>1, <1>2, <1>4, <1>5, <2>2, <3>1
    <3>2. CASE i > k
      <4>1. i - 1 \in 1 .. n /\ r[i] = s[i - 1] /\ r[j] = id
        BY <1>1, <1>2, <2>2, <3>2
      <4>2. QED
        BY <1>4, <1>5, <4>1
    <3>3. QED
      BY <1>1, <2>2, <3>1, <3>2
  <2>3. CASE i # k /\ j # k
    <3> DEFINE u == IF i < k THEN i ELSE i - 1
               v == IF j < k THEN j ELSE j - 1
    <3>1. u \in 1 .. n /\ v \in 1 .. n /\ r[i] = s[u] /\ r[j] = s[v]
      BY <1>1, <1>2, <2>3
    <3>2. u = v
      BY <1>1, <1>5, <3>1 DEF IsInjective
    <3>3. QED
      BY <1>1, <2>3, <3>2
  <2>4. QED
    BY <2>1, <2>2, <2>3
<1>6. Elems(r) = Elems(s) \cup {id}
  <2>1. ASSUME NEW x \in Elems(r) PROVE x \in Elems(s) \cup {id}
    <3>1. PICK i \in 1 .. n + 1 : x = r[i]
      BY <1>3 DEF Elems
    <3>2. CASE i < k
      BY <1>1, <1>2, <3>1, <3>2 DEF Elems
    <3>3. CASE i = k
      BY <1>2, <3>1, <3>3
    <3>4. CASE i > k
      <4>1. i - 1 \in 1 .. n /\ x = s[i - 1]
        BY <1>1, <1>2, <3>1, <3>4
      <4>2. QED
        BY <1>1, <4>1 DEF Elems
    <3>5. QED
      BY <1>1, <3>2, <3>3, <3>4
  <2>2. ASSUME NEW x \in Elems(s) PROVE x \in Elems(r)
    <3>1. PICK i \in 1 .. n : x = s[i]
      BY <1>1 DEF Elems
    <3>2. CASE i < k
      <4>1. i \in 1 .. n + 1 /\ r[i] = x
        BY <1>1, <1>2, <3>1, <3>2
      <4>2. QED
        BY <1>3, <4>1 DEF Elems
    <3>3. CASE i >= k
      <4>1. i + 1 \in 1 .. n + 1 /\ (i + 1) - 1 = i /\ ~(i + 1 < k) /\ i + 1 # k
        BY <1>1, <3>3
      <4>2. r[i + 1] = x
        BY <1>2, <3>1, <4>1
      <4>3. QED
        BY <1>3, <4>1, <4>2 DEF Elems
    <3>4. QED
      BY <1>1, <3>2, <3>3
  <2>3. id \in Elems(r)
    <3>1. k \in DOMAIN r /\ r[k] = id
      BY <1>1, <1>2, <1>3
    <3>2. QED
      BY <3>1 DEF Elems
  <2>4. QED
    BY <2>1, <2>2, <2>3
<1>7. QED
  BY <1>2, <1>3, <1>5, <1>6 DEF IsInjective, r

\* Without overflow a gint difference is the difference.
LEMMA GintIs ==
  ASSUME NEW x \in -INT_MAX .. INT_MAX
  PROVE  gint(x) = x
<1> DEFINE m == 2 * (INT_MAX + 1)
           a == x + INT_MAX + 1
           q == a \div m
           r == a % m
<1>1. m \in Nat /\ m > 0 /\ a \in Nat /\ a < m /\ INT_MAX \in Nat
  BY ServerAssumption
<1>2. gint(x) = r - INT_MAX - 1
  BY DEF gint
<1>3. q = a \div m /\ r = a % m
  OBVIOUS
<1> HIDE DEF q, r
<1>4. q \in Int /\ r \in 0 .. m - 1 /\ a = q * m + r
  <2> HIDE DEF m, a
  <2>1. QED
    BY <1>1, <1>3, DivMod
<1>5. q = 0
  <2> HIDE DEF m, a
  <2>1. CASE q < 0
    <3>1. q * m <= -1 * m
      BY <1>1, <1>4, <2>1
    <3>2. QED
      BY <1>1, <1>4, <3>1
  <2>2. CASE q > 0
    <3>1. q * m >= 1 * m
      BY <1>1, <1>4, <2>2
    <3>2. QED
      BY <1>1, <1>4, <3>1
  <2>3. QED
    BY <1>4, <2>1, <2>2
<1>6. a = r
  <2> HIDE DEF m, a
  <2>1. QED
    BY <1>1, <1>4, <1>5
<1>7. QED
  BY <1>1, <1>2, <1>6

\* As long as the times fit gint, insert_sorted keeps a sorted list sorted.
LEMMA InsertSorts ==
  ASSUME NEW heap, NEW s \in Seq(LeaseId), NEW id \in LeaseId,
         \A x \in Elems(s) \cup {id} : heap[x].expire \in 0 .. INT_MAX,
         Sorted(heap, s)
  PROVE  Sorted(heap, insert_sorted(heap, s, id))
<1> DEFINE k == InsertPos(heap, s, id)
           n == Len(s)
           r == insert_sorted(heap, s, id)
           t == heap[id].expire
           E(i) == heap[s[i]].expire
<1>1. n \in Nat /\ DOMAIN s = 1 .. n /\ k \in 1 .. n + 1
  BY InsertPosEffect
<1>2. /\ r \in Seq(LeaseId) /\ Len(r) = n + 1
      /\ \A i \in 1 .. n + 1 : r[i] = IF i < k THEN s[i] ELSE IF i = k THEN id ELSE s[i - 1]
  <2>1. k = InsertPos(heap, s, id) /\ r = insert_sorted(heap, s, id)
    OBVIOUS
  <2> HIDE DEF k, r
  <2>2. QED
    BY <2>1, InsertSortedIs
<1>3. DOMAIN r = 1 .. n + 1
  BY <1>1, <1>2
<1>4. t \in 0 .. INT_MAX /\ \A i \in 1 .. n : E(i) \in 0 .. INT_MAX
  BY <1>1 DEF Elems
<1>5. ASSUME NEW i \in 1 .. n PROVE compare_expire(heap[id], heap[s[i]]) = E(i) - t
  <2>1. E(i) - t \in -INT_MAX .. INT_MAX
    BY <1>4, ServerAssumption
  <2>2. QED
    BY <2>1, GintIs DEF compare_expire
<1>6. \A i \in 1 .. n : i < k => ~(E(i) - t <= 0)
  BY <1>1, <1>5, InsertPosEffect
<1>7. k \in 1 .. n => E(k) - t <= 0
  BY <1>1, <1>5, InsertPosEffect
<1>8. \A i, j \in 1 .. n : i < j => E(i) >= E(j)
  BY <1>1 DEF Sorted
<1>9. SUFFICES ASSUME NEW i \in 1 .. n + 1, NEW j \in 1 .. n + 1, i < j
               PROVE  heap[r[i]].expire >= heap[r[j]].expire
  BY <1>3 DEF Sorted
<1> HIDE DEF k, n, r, t
<1>10. CASE i < k /\ j < k
  <2>1. i \in 1 .. n /\ j \in 1 .. n /\ r[i] = s[i] /\ r[j] = s[j]
    BY <1>1, <1>2, <1>10
  <2>2. QED
    BY <1>8, <1>9, <2>1
<1>11. CASE i < k /\ j = k
  <2>1. i \in 1 .. n /\ r[i] = s[i] /\ r[j] = id
    BY <1>1, <1>2, <1>11
  <2>2. ~(E(i) - t <= 0) /\ E(i) \in 0 .. INT_MAX
    BY <1>4, <1>6, <1>11, <2>1
  <2> HIDE DEF E
  <2>3. E(i) >= t
    BY <1>4, <2>2, ServerAssumption
  <2>4. QED
    BY <2>1, <2>3 DEF t, E
<1>12. CASE i < k /\ j > k
  <2>1. i \in 1 .. n /\ j - 1 \in 1 .. n /\ i < j - 1 /\ r[i] = s[i] /\ r[j] = s[j - 1]
    BY <1>1, <1>2, <1>12
  <2>2. QED
    BY <1>8, <2>1
<1>13. CASE i = k /\ j > k
  <2>1. k \in 1 .. n /\ j - 1 \in 1 .. n /\ r[i] = id /\ r[j] = s[j - 1] /\ (k < j - 1 \/ k = j - 1)
    BY <1>1, <1>2, <1>13
  <2>2. E(k) - t <= 0 /\ E(k) \in 0 .. INT_MAX /\ E(j - 1) \in 0 .. INT_MAX
    BY <1>4, <1>7, <2>1
  <2>3. k = j - 1 \/ E(k) >= E(j - 1)
    BY <1>8, <2>1
  <2>4. E(k) = E(j - 1) \/ E(k) >= E(j - 1)
    BY <2>3
  <2> HIDE DEF E
  <2>5. t >= E(j - 1)
    BY <1>4, <2>2, <2>4, ServerAssumption
  <2>6. QED
    BY <2>1, <2>5 DEF t, E
<1>14. CASE i > k
  <2>1. i - 1 \in 1 .. n /\ j - 1 \in 1 .. n /\ i - 1 < j - 1 /\ r[i] = s[i - 1] /\ r[j] = s[j - 1]
    BY <1>1, <1>2, <1>9, <1>14
  <2>2. QED
    BY <1>8, <2>1
<1>15. QED
  BY <1>1, <1>9, <1>10, <1>11, <1>12, <1>13, <1>14

-----------------------------------------------------------------------------
\* TableConsistent without the types of the other variables.
Table ==
  /\ lease \in [LeaseId -> Lease \cup {None}]
  /\ lease_list \in Seq(LeaseId)
  /\ nip_lease_hash \in [Addr -> LeaseId \cup {None}]
  /\ Live = Elems(lease_list)
  /\ IsInjective(lease_list)
  /\ \A a \in Addr : nip_lease_hash[a] # None =>
                       nip_lease_hash[a] \in Live /\ lease[nip_lease_hash[a]].nip = a
  /\ \A id \in Live : nip_lease_hash[lease[id].nip] = id
  /\ \A i, j \in Live : lease[i].mac = lease[j].mac => i = j

Others ==
  /\ started \in BOOLEAN /\ listening \in BOOLEAN
  /\ now \in Nat

\* The invariant splits into the table and the other variables.
LEMMA TableConsistentIs == TableConsistent <=> Table /\ Others
BY DEF TableConsistent, TypeOK, Table, Others, Elems

\* The range is made of addresses, and no lease is None.
LEMMA RangeFacts ==
  /\ start_ip .. end_ip \subseteq Addr \ {0}
  /\ None \notin Lease
  /\ \A l \in Lease : /\ l.nip \in Addr \ {0} /\ l.nip \in start_ip .. end_ip
                      /\ l.expire \in Nat /\ l.mac \in Mac \ BadMac
<1>1. B * B \in Nat /\ start_ip \in Nat /\ start_ip > 0 /\ end_ip \in Nat /\ end_ip < B * B
  BY ServerAssumption DEF Addr
<1>2. start_ip .. end_ip \subseteq Addr \ {0}
  BY <1>1 DEF Addr
<1>3. Lease \subseteq [mac : Mac, nip : Addr, expire : Nat]
  BY <1>2 DEF Lease
<1>4. QED
  BY <1>2, <1>3, ServerAssumption DEF Lease

\* find_lease_by_mac finds the client's lease if there is one.
LEMMA FoundByMac ==
  ASSUME Table, NEW mac
  PROVE  /\ find_lease_by_mac(mac) \in Live \cup {None}
         /\ find_lease_by_mac(mac) # None => lease[find_lease_by_mac(mac)].mac = mac
         /\ find_lease_by_mac(mac) = None => \A id \in Live : lease[id].mac # mac
<1> DEFINE hits == {i \in DOMAIN lease_list : lease[lease_list[i]].mac = mac}
<1>1. find_lease_by_mac(mac) = IF hits = {} THEN None ELSE lease_list[Min(hits)]
  BY DEF find_lease_by_mac
<1>2. hits \subseteq Nat /\ \A i \in hits : lease_list[i] \in Live
  BY DEF Table, Elems
<1>3. CASE hits = {}
  <2>1. find_lease_by_mac(mac) = None
    BY <1>1, <1>3
  <2>2. \A id \in Live : lease[id].mac # mac
    BY <1>3 DEF Table, Elems
  <2>3. QED
    BY <2>1, <2>2
<1>4. CASE hits # {}
  <2>1. Min(hits) \in hits
    BY <1>2, <1>4, MinNat
  <2>2. find_lease_by_mac(mac) = lease_list[Min(hits)]
    BY <1>1, <1>4
  <2>3. find_lease_by_mac(mac) \in Live /\ lease[find_lease_by_mac(mac)].mac = mac
    BY <1>2, <2>1, <2>2
  <2>4. QED
    BY <2>3, ServerAssumption DEF Live
<1>5. QED
  BY <1>3, <1>4

\* The object of a live lease is not None and holds a lease.
LEMMA LiveFacts ==
  ASSUME Table, NEW id \in Live
  PROVE  id \in LeaseId /\ id # None /\ lease[id] \in Lease /\ lease[id] # None
BY ServerAssumption DEF Table, Live

\* The table after add_lease: the client and the address have the new lease and
\* no other, and nobody else's lease has changed.
Stored(mac, nip, expire) ==
  \E id \in LeaseId :
    /\ lease'[id] = [mac |-> mac, nip |-> nip, expire |-> expire]
    /\ nip_lease_hash'[nip] = id
    /\ id \in Live => lease[id].mac = mac \/ lease[id].nip = nip
    /\ \A i \in LeaseId \ {id} :
         lease'[i] = IF i \in Live /\ (lease[i].mac = mac \/ lease[i].nip = nip)
                       THEN None ELSE lease[i]

\* What the handlers do to the list: one lease, of expiry t, is put in its place
\* among leases that were in the list before, or one is taken out.
Inserted(t) ==
  \E id \in LeaseId, rest \in Seq(LeaseId) :
    /\ lease_list' = insert_sorted(lease', rest, id)
    /\ lease'[id].expire = t
    /\ Live' = Elems(rest) \cup {id}
    /\ \A i \in Elems(rest) : i \in Live /\ lease'[i] = lease[i]
    /\ \A h : Sorted(h, lease_list) => Sorted(h, rest)

Shortened ==
  /\ Live' \subseteq Live
  /\ \A i \in Live' : lease'[i] = lease[i]
  /\ \A h : Sorted(h, lease_list) => Sorted(h, lease_list')

\* get_lease and add_lease together.
LEMMA AddEffect ==
  ASSUME Table, NEW mac \in Mac \ BadMac, NEW yiaddr, ntohl(yiaddr) \in start_ip .. end_ip,
         NEW expire \in Nat, now \in Nat, get_lease(yiaddr, mac) # None,
         add_lease(expire, mac, yiaddr)
  PROVE  /\ Table'
         /\ Stored(mac, ntohl(yiaddr), IF expire = 0 THEN now + lease_seconds ELSE expire)
         /\ Inserted(IF expire = 0 THEN now + lease_seconds ELSE expire)
<1> DEFINE nip   == ntohl(yiaddr)
           byMac == find_lease_by_mac(mac)
           byNip == find_lease_by_nip(nip)
           gone  == {byMac, byNip} \ {None}
           id    == get_lease(yiaddr, mac)
           e     == IF expire = 0 THEN now + lease_seconds ELSE expire
           new   == [mac |-> mac, nip |-> nip, expire |-> e]
           keys  == {nip} \cup (IF byMac = None THEN {} ELSE {lease[byMac].nip})
           heap  == [i \in LeaseId |-> IF i = id THEN new ELSE IF i \in gone THEN None ELSE lease[i]]
           one   == RemoveFirst(lease_list, byNip)
           rest  == RemoveFirst(one, byMac)
<1>1. /\ byMac \in Live \cup {None}
      /\ byMac # None => lease[byMac].mac = mac
      /\ byMac = None => \A i \in Live : lease[i].mac # mac
  BY FoundByMac
<1>2. nip \in Addr \ {0} /\ nip \in start_ip .. end_ip
  BY RangeFacts
<1>3. /\ byNip \in Live \cup {None}
      /\ byNip # None => lease[byNip].nip = nip
      /\ byNip = None => \A i \in Live : lease[i].nip # nip
  BY <1>2, ServerAssumption, LiveFacts DEF Table, find_lease_by_nip
<1>4. /\ id \in LeaseId
      /\ id \in Live => id \in gone
      /\ gone # {} => id \in gone
  <2> DEFINE free == {i \in LeaseId : lease[i] = None}
  <2>1. id = IF byNip # None THEN byNip ELSE IF byMac # None THEN byMac
             ELSE IF free # {} THEN CHOOSE i \in free : TRUE ELSE None
    BY DEF get_lease
  <2>2. CASE byNip # None
    BY <1>3, <2>1, <2>2, LiveFacts
  <2>3. CASE byNip = None /\ byMac # None
    BY <1>1, <2>1, <2>3, LiveFacts
  <2>4. CASE byNip = None /\ byMac = None
    <3>1. id \in free
      BY <2>1, <2>4
    <3>2. QED
      BY <2>4, <3>1 DEF Live
  <2>5. QED
    BY <2>2, <2>3, <2>4
<1>5. /\ lease' = heap
      /\ lease_list' = insert_sorted(heap, rest, id)
      /\ nip_lease_hash' = [a \in Addr |-> IF a = nip THEN id ELSE IF a \in keys THEN None
                                           ELSE nip_lease_hash[a]]
  BY DEF add_lease
<1>6. new \in Lease /\ new # None
  <2>1. e \in Nat
    BY ServerAssumption
  <2>2. new \in Lease
    BY <1>2, <2>1 DEF Lease
  <2>3. QED
    BY <2>2, RangeFacts
<1>7. gone \subseteq Live /\ gone \subseteq LeaseId
  BY <1>1, <1>3 DEF Live
<1> HIDE DEF byMac, byNip, nip, id, new, e
<1>8. /\ lease'[id] = new
      /\ \A i \in LeaseId \ {id} : lease'[i] = IF i \in gone THEN None ELSE lease[i]
      /\ lease' \in [LeaseId -> Lease \cup {None}]
  BY <1>4, <1>5, <1>6 DEF Table
<1>9. Live' = (Live \ gone) \cup {id}
  BY <1>4, <1>6, <1>7, <1>8 DEF Live
<1>10. \A i \in Live \ gone : lease[i].mac # mac /\ lease[i].nip # nip
  BY <1>1, <1>2, <1>3, LiveFacts DEF Table
<1>11. /\ rest \in Seq(LeaseId) /\ IsInjective(rest) /\ Elems(rest) = Live \ gone
       /\ \A h : Sorted(h, lease_list) => Sorted(h, rest)
  <2>1. /\ one \in Seq(LeaseId) /\ IsInjective(one) /\ Elems(one) = Live \ {byNip}
        /\ \A h : Sorted(h, lease_list) => Sorted(h, one)
    BY RemoveEffect DEF Table
  <2>2. /\ rest \in Seq(LeaseId) /\ IsInjective(rest) /\ Elems(rest) = Elems(one) \ {byMac}
        /\ \A h : Sorted(h, one) => Sorted(h, rest)
    <3> HIDE DEF one
    <3>1. QED
      BY <2>1, RemoveEffect
  <2>3. None \notin Live
    BY ServerAssumption DEF Live
  <2>4. QED
    BY <2>1, <2>2, <2>3
<1>12. lease_list' \in Seq(LeaseId) /\ IsInjective(lease_list') /\ Elems(lease_list') = Live'
  <2>1. id \in LeaseId \ Elems(rest)
    BY <1>4, <1>11
  <2> HIDE DEF rest, heap
  <2>2. QED
    BY <1>5, <1>9, <1>11, <2>1, InsertEffect
<1>13. nip_lease_hash' \in [Addr -> LeaseId \cup {None}] /\ nip_lease_hash'[nip] = id
  BY <1>2, <1>4, <1>5 DEF Table
<1>14. ASSUME NEW a \in Addr, nip_lease_hash'[a] # None
       PROVE  nip_lease_hash'[a] \in Live' /\ lease'[nip_lease_hash'[a]].nip = a
  <2>1. CASE a = nip
    BY <1>8, <1>9, <1>13, <2>1 DEF new
  <2>2. CASE a # nip
    <3> DEFINE i == nip_lease_hash[a]
    <3>1. nip_lease_hash'[a] = i /\ a \notin keys
      BY <1>5, <1>14, <2>2
    <3>2. i \in Live /\ lease[i].nip = a
      BY <1>14, <3>1 DEF Table
    <3>3. i \notin gone
      BY <1>3, <2>2, <3>1, <3>2
    <3>4. i \in LeaseId \ {id} /\ lease'[i] = lease[i]
      BY <1>4, <1>8, <3>2, <3>3, LiveFacts
    <3>5. QED
      BY <1>9, <3>1, <3>2, <3>3, <3>4
  <2>3. QED
    BY <2>1, <2>2
<1>15. ASSUME NEW i \in Live' PROVE nip_lease_hash'[lease'[i].nip] = i
  <2>1. CASE i = id
    BY <1>8, <1>13, <2>1 DEF new
  <2>2. CASE i # id
    <3>1. i \in Live \ gone /\ lease'[i] = lease[i] /\ i \in LeaseId
      BY <1>8, <1>9, <1>15, <2>2, LiveFacts
    <3>2. /\ nip_lease_hash[lease[i].nip] = i /\ lease[i].nip \in Addr /\ lease[i].nip # nip
      BY <1>10, <3>1, LiveFacts, RangeFacts DEF Table
    <3>3. lease[i].nip \notin keys
      <4>1. CASE byMac = None
        BY <3>2, <4>1
      <4>2. CASE byMac # None
        <5>1. byMac \in Live /\ nip_lease_hash[lease[byMac].nip] = byMac /\ byMac # i
          BY <1>1, <3>1, <4>2 DEF Table
        <5>2. QED
          BY <3>2, <5>1
      <4>3. QED
        BY <4>1, <4>2
    <3>4. QED
      BY <1>5, <3>1, <3>2, <3>3
  <2>3. QED
    BY <2>1, <2>2
<1>16. ASSUME NEW i \in Live', NEW j \in Live', lease'[i].mac = lease'[j].mac PROVE i = j
  <2>1. \A k \in Live' \ {id} : k \in Live \ gone /\ lease'[k] = lease[k]
    BY <1>8, <1>9, LiveFacts
  <2>2. lease'[id].mac = mac
    BY <1>8 DEF new
  <2>3. QED
    BY <1>10, <1>16, <2>1, <2>2 DEF Table
<1>17. Table'
  BY <1>8, <1>12, <1>13, <1>14, <1>15, <1>16 DEF Table
<1>18. Stored(mac, nip, e)
  <2>1. ASSUME NEW i \in LeaseId \ {id}
        PROVE  lease'[i] = IF i \in Live /\ (lease[i].mac = mac \/ lease[i].nip = nip)
                             THEN None ELSE lease[i]
    <3>1. CASE i \in gone
      BY <1>1, <1>3, <1>7, <1>8, <3>1
    <3>2. CASE i \notin gone
      BY <1>8, <1>10, <3>2
    <3>3. QED
      BY <3>1, <3>2
  <2>2. QED
    BY <1>1, <1>3, <1>4, <1>8, <1>13, <2>1 DEF Stored, new
<1>19. Inserted(e)
  <2> HIDE DEF rest, heap
  <2>1. lease_list' = insert_sorted(lease', rest, id)
    BY <1>5
  <2>2. lease'[id].expire = e /\ Live' = Elems(rest) \cup {id}
    BY <1>8, <1>9, <1>11 DEF new
  <2>3. \A i \in Elems(rest) : i \in Live /\ lease'[i] = lease[i]
    BY <1>4, <1>8, <1>11, LiveFacts
  <2>4. QED
    BY <1>4, <1>11, <2>1, <2>2, <2>3 DEF Inserted
<1>20. QED
  BY <1>17, <1>18, <1>19 DEF nip, e

\* remove_lease takes one lease out of the table.
LEMMA RemoveLeaseEffect ==
  ASSUME Table, NEW id \in Live, remove_lease(id)
  PROVE  /\ Table' /\ Shortened
         /\ \A i \in LeaseId : lease'[i] = IF i = id THEN None ELSE lease[i]
<1>0. id \in LeaseId /\ id # None /\ lease[id] \in Lease /\ lease[id].nip \in Addr
  BY LiveFacts, RangeFacts
<1>1. /\ lease_list' = RemoveFirst(lease_list, id)
      /\ nip_lease_hash' = [nip_lease_hash EXCEPT ![lease[id].nip] = None]
      /\ lease' = [lease EXCEPT ![id] = None]
  BY DEF remove_lease
<1>2. /\ lease' \in [LeaseId -> Lease \cup {None}] /\ lease'[id] = None
      /\ \A i \in LeaseId \ {id} : lease'[i] = lease[i]
  BY <1>0, <1>1 DEF Table
<1>3. Live' = Live \ {id}
  BY <1>0, <1>2 DEF Live
<1>4. /\ lease_list' \in Seq(LeaseId) /\ IsInjective(lease_list')
      /\ Elems(lease_list') = Elems(lease_list) \ {id}
      /\ \A h : Sorted(h, lease_list) => Sorted(h, lease_list')
  BY <1>1, RemoveEffect DEF Table
<1>5. /\ nip_lease_hash' \in [Addr -> LeaseId \cup {None}]
      /\ \A a \in Addr : nip_lease_hash'[a] = IF a = lease[id].nip THEN None ELSE nip_lease_hash[a]
  BY <1>0, <1>1 DEF Table
<1>6. ASSUME NEW a \in Addr, nip_lease_hash'[a] # None
      PROVE  nip_lease_hash'[a] \in Live' /\ lease'[nip_lease_hash'[a]].nip = a
  <2> DEFINE i == nip_lease_hash[a]
  <2>1. nip_lease_hash'[a] = i /\ a # lease[id].nip
    BY <1>5, <1>6
  <2>2. i \in Live /\ lease[i].nip = a
    BY <1>6, <2>1 DEF Table
  <2>3. QED
    BY <1>2, <1>3, <2>1, <2>2, LiveFacts
<1>7. ASSUME NEW i \in Live' PROVE nip_lease_hash'[lease'[i].nip] = i
  <2>1. i \in Live /\ i # id /\ lease'[i] = lease[i]
    BY <1>2, <1>3, LiveFacts
  <2>2. /\ nip_lease_hash[lease[i].nip] = i /\ nip_lease_hash[lease[id].nip] = id
        /\ lease[i].nip \in Addr
    BY <2>1, LiveFacts, RangeFacts DEF Table
  <2>3. QED
    BY <1>5, <2>1, <2>2
<1>8. \A i, j \in Live' : lease'[i].mac = lease'[j].mac => i = j
  BY <1>2, <1>3, LiveFacts DEF Table
<1>9. Table'
  BY <1>2, <1>3, <1>4, <1>5, <1>6, <1>7, <1>8 DEF Table
<1>10. Shortened
  BY <1>2, <1>3, <1>4, LiveFacts DEF Shortened
<1>11. QED
  BY <1>2, <1>9, <1>10

\* lease_set_expire changes the time of one lease and moves it in the list.
LEMMA SetExpireEffect ==
  ASSUME Table, NEW id \in Live, NEW t \in Nat, lease_set_expire(id, t)
  PROVE  /\ Table' /\ Inserted(t)
         /\ \A i \in LeaseId \ {id} : lease'[i] = lease[i]
<1> DEFINE heap == [lease EXCEPT ![id].expire = t]
           rest == RemoveFirst(lease_list, id)
<1>0. id \in LeaseId /\ id # None /\ lease[id] \in Lease /\ lease[id] # None
  BY LiveFacts
<1>1. /\ lease' = heap
      /\ lease_list' = insert_sorted(heap, rest, id)
      /\ nip_lease_hash' = nip_lease_hash
  BY DEF lease_set_expire
<1>2. /\ lease' \in [LeaseId -> Lease \cup {None}]
      /\ lease'[id] \in Lease /\ lease'[id].mac = lease[id].mac /\ lease'[id].nip = lease[id].nip
      /\ lease'[id].expire = t
      /\ \A i \in LeaseId \ {id} : lease'[i] = lease[i]
  BY <1>0, <1>1 DEF Table, Lease
<1>3. Live' = Live
  BY <1>0, <1>2, RangeFacts DEF Live
<1>4. /\ rest \in Seq(LeaseId) /\ IsInjective(rest) /\ Elems(rest) = Live \ {id}
      /\ \A h : Sorted(h, lease_list) => Sorted(h, rest)
  BY RemoveEffect DEF Table
<1> HIDE DEF heap, rest
<1>5. lease_list' \in Seq(LeaseId) /\ IsInjective(lease_list') /\ Elems(lease_list') = Live'
  <2>1. id \in LeaseId \ Elems(rest)
    BY <1>0, <1>4
  <2>2. /\ insert_sorted(heap, rest, id) \in Seq(LeaseId)
        /\ IsInjective(insert_sorted(heap, rest, id))
        /\ Elems(insert_sorted(heap, rest, id)) = Elems(rest) \cup {id}
    BY <1>4, <2>1, InsertEffect
  <2>3. QED
    BY <1>1, <1>3, <1>4, <2>2
<1>6. \A i \in Live : lease'[i].nip = lease[i].nip /\ lease'[i].mac = lease[i].mac
  BY <1>2, LiveFacts
<1>7. Table'
  BY <1>1, <1>2, <1>3, <1>5, <1>6 DEF Table
<1>8. Inserted(t)
  <2>1. \A i \in Elems(rest) : lease'[i] = lease[i]
    BY <1>2, <1>4, LiveFacts
  <2>2. QED
    BY <1>0, <1>1, <1>2, <1>3, <1>4, <2>1 DEF Inserted
<1>9. QED
  BY <1>2, <1>7, <1>8

-----------------------------------------------------------------------------
\* What the handling of a packet p amounts to: the table stays as it is and no
\* address is promised; a lease is stored for the address that is promised, which
\* nobody else holds unexpired; or the client's own lease is ended.
Nothing(p) ==
  /\ UNCHANGED table
  /\ reply'.type \in {"OFFER", "ACK"} => reply'.yiaddr = 0

Promised(p, nip, t) ==
  /\ Stored(p.mac, nip, t) /\ Inserted(t)
  /\ reply'.mac = p.mac /\ reply'.yiaddr = htonl(nip)
  /\ \/ reply'.type = "ACK" /\ t = now + lease_seconds
     \/ reply'.type = "OFFER" /\ p.type = "DISCOVER" /\ t \in {OFFER_TIME, now + lease_seconds}
  /\ \A i \in Live : lease[i].nip = nip => lease[i].mac = p.mac \/ is_expired_lease(i)

Given(p) == \E nip \in start_ip .. end_ip, t \in Nat : Promised(p, nip, t)

Ended(p) ==
  /\ p.type \in {"DECLINE", "RELEASE"} /\ reply'.type = "none"
  /\ Shortened \/ Inserted(now)
  /\ \A i \in Live : lease[i].mac # p.mac => lease'[i] = lease[i]

Effect(p) == Nothing(p) \/ Given(p) \/ Ended(p)

\* Two leases of one address are one.
LEMMA OneLease ==
  ASSUME Table, NEW i \in Live, NEW a \in Addr, lease[i].nip = a
  PROVE  nip_lease_hash[a] = i
BY DEF Table

\* The address send_offer picks is the client's own, or one that is free or whose
\* lease has expired.
LEMMA OfferedEffect ==
  ASSUME Table, Others, NEW p \in Packet
  PROVE  \E nip \in Addr :
           /\ OfferedAddr(p) = htonl(nip)
           /\ \A i \in Live : lease[i].nip = nip => lease[i].mac = p.mac \/ is_expired_lease(i)
<1> DEFINE id == find_lease_by_mac(p.mac)
           ff == find_free_or_expired_nip
           G(nip) == \A i \in Live : lease[i].nip = nip => lease[i].mac = p.mac \/ is_expired_lease(i)
<1>1. CASE id # None
  <2>1. id \in Live /\ lease[id].mac = p.mac
    BY <1>1, FoundByMac
  <2>2. lease[id].nip \in Addr
    BY <2>1, LiveFacts, RangeFacts
  <2>3. G(lease[id].nip)
    BY <2>1, <2>2, OneLease
  <2>4. OfferedAddr(p) = htonl(lease[id].nip)
    BY <1>1 DEF OfferedAddr
  <2>5. QED
    BY <2>2, <2>3, <2>4
<1>2. CASE id = None /\ check_requested_nip(p.requested_nip)
  <2>1. p.requested_nip \in Addr
    BY ServerAssumption DEF Packet
  <2>2. G(p.requested_nip)
    BY <1>2, <2>1, OneLease, LiveFacts DEF check_requested_nip, find_lease_by_nip
  <2>3. OfferedAddr(p) = htonl(p.requested_nip)
    BY <1>2 DEF OfferedAddr
  <2>4. QED
    BY <2>1, <2>2, <2>3
<1>3. CASE id = None /\ ~check_requested_nip(p.requested_nip)
  <2>1. OfferedAddr(p) = htonl(ff)
    BY <1>3 DEF OfferedAddr
  <2> DEFINE free == {ip \in start_ip .. end_ip : Usable(ip) /\ find_lease_by_nip(ip) = None}
             last == Last(lease_list)
  <2>2. ff = IF free # {} THEN Min(free)
             ELSE IF lease_list # <<>> /\ is_expired_lease(last) THEN lease[last].nip ELSE 0
    BY DEF find_free_or_expired_nip
  <2>3. CASE free # {}
    <3>1. free \subseteq Nat /\ free \subseteq Addr
      BY RangeFacts DEF Addr
    <3>2. ff \in free
      BY <2>2, <2>3, <3>1, MinNat
    <3>3. nip_lease_hash[ff] = None
      BY <3>2 DEF find_lease_by_nip
    <3>4. ff \in Addr /\ G(ff)
      BY <3>1, <3>2, <3>3, OneLease, LiveFacts
    <3>5. QED
      BY <2>1, <3>4
  <2>4. CASE free = {} /\ lease_list # <<>> /\ is_expired_lease(last)
    <3>1. last \in Live
      <4>1. Len(lease_list) \in DOMAIN lease_list /\ last = lease_list[Len(lease_list)]
        BY <2>4 DEF Table, Last
      <4>2. QED
        BY <4>1 DEF Table, Elems
    <3>2. lease[last].nip \in Addr /\ ff = lease[last].nip
      BY <2>2, <2>4, <3>1, LiveFacts, RangeFacts
    <3>3. G(ff)
      BY <2>4, <3>1, <3>2, OneLease
    <3>4. QED
      BY <2>1, <3>2, <3>3
  <2>5. CASE free = {} /\ ~(lease_list # <<>> /\ is_expired_lease(last))
    <3>1. ff = 0 /\ 0 \in Addr
      BY <2>2, <2>5, ServerAssumption DEF Addr
    <3>2. G(0)
      BY LiveFacts, RangeFacts
    <3>3. QED
      BY <2>1, <3>1, <3>2
  <2>6. QED
    BY <2>3, <2>4, <2>5
<1>4. QED
  BY <1>1, <1>2, <1>3

\* A DISCOVER is answered by an OFFER of a stored lease or by nothing.
LEMMA DiscoverEffect ==
  ASSUME Table, Others, NEW p \in Packet, Discover(p)
  PROVE  Table' /\ Effect(p)
<1> DEFINE yiaddr == OfferedAddr(p)
           t == IF OFFER_TIME = 0 THEN now + lease_seconds ELSE OFFER_TIME
<1>1. CASE yiaddr # 0 /\ CanLease(p, yiaddr)
  <2>1. /\ add_lease(OFFER_TIME, p.mac, yiaddr)
        /\ reply' = [type |-> "OFFER", mac |-> p.mac, yiaddr |-> yiaddr]
    BY <1>1 DEF Discover, send_offer, Send
  <2>2. PICK nip \in Addr :
          /\ yiaddr = htonl(nip)
          /\ \A i \in Live : lease[i].nip = nip => lease[i].mac = p.mac \/ is_expired_lease(i)
    BY OfferedEffect
  <2> HIDE DEF yiaddr
  <2>3. ntohl(yiaddr) = nip /\ yiaddr \in Addr /\ nip \in Nat
    BY <2>2, Swapped DEF Addr
  <2>4. /\ nip \in start_ip .. end_ip /\ p.mac \in Mac \ BadMac
        /\ get_lease(yiaddr, p.mac) # None
    BY <1>1, <2>3, ServerAssumption DEF CanLease, LeaseAllowed, Packet, Addr
  <2>5. Table' /\ Stored(p.mac, nip, t) /\ Inserted(t)
    <3>1. OFFER_TIME \in Nat /\ now \in Nat
      BY ServerAssumption DEF Others
    <3>2. QED
      BY <2>1, <2>3, <2>4, <3>1, AddEffect
  <2>6. t \in Nat /\ t \in {OFFER_TIME, now + lease_seconds}
    BY ServerAssumption DEF Others
  <2> HIDE DEF t
  <2>7. Promised(p, nip, t)
    BY <2>1, <2>2, <2>5, <2>6 DEF Promised, Discover
  <2>8. QED
    BY <2>4, <2>5, <2>6, <2>7 DEF Effect, Given
<1>2. CASE ~(yiaddr # 0 /\ CanLease(p, yiaddr))
  <2>1. UNCHANGED table /\ reply' = [type |-> "none", mac |-> p.mac, yiaddr |-> 0]
    BY <1>2 DEF Discover, send_offer, NoReply, Send
  <2>2. QED
    BY <2>1 DEF Effect, Nothing, Table, table, Live
<1>3. QED
  BY <1>1, <1>2

\* A REQUEST for the client's own address always finds add_lease able to store it.
LEMMA RequestEffect ==
  ASSUME Table, Others, NEW p \in Packet, Request(p)
  PROVE  Table' /\ Effect(p)
<1> DEFINE id == find_lease_by_mac(p.mac)
           nip == lease[id].nip
           known == id # None /\ RequestedAddr(p) = nip
<1>1. CASE RequestedAddr(p) # 0 /\ known
  <2>1. id \in Live /\ lease[id].mac = p.mac
    BY <1>1, FoundByMac
  <2>2. /\ nip \in Addr \ {0} /\ nip \in start_ip .. end_ip /\ p.mac \in Mac \ BadMac
        /\ nip_lease_hash[nip] = id /\ id # None /\ start_ip <= nip /\ nip <= end_ip
    BY <2>1, LiveFacts, RangeFacts, OneLease, ServerAssumption DEF Addr
  <2>3. send_ACK(p, nip)
    BY <1>1 DEF Request
  <2> HIDE DEF id, nip
  <2>4. ntohl(htonl(nip)) = nip /\ htonl(nip) # 0
    BY <2>2, Swapped, ZeroSwapped DEF ntohl
  <2>5. CanLease(p, htonl(nip))
    BY <2>2, <2>4 DEF CanLease, LeaseAllowed, get_lease, find_lease_by_nip
  <2>6. /\ add_lease(0, p.mac, htonl(nip))
        /\ reply' = [type |-> "ACK", mac |-> p.mac, yiaddr |-> htonl(nip)]
    BY <2>3, <2>5 DEF send_ACK, Send
  <2>7. get_lease(htonl(nip), p.mac) # None
    BY <2>5 DEF CanLease
  <2>8. Table' /\ Stored(p.mac, nip, now + lease_seconds) /\ Inserted(now + lease_seconds)
    <3>1. now \in Nat /\ 0 \in Nat
      BY DEF Others
    <3>2. QED
      BY <2>2, <2>4, <2>6, <2>7, <3>1, AddEffect
  <2>9. \A i \in Live : lease[i].nip = nip => lease[i].mac = p.mac
    BY <2>1, <2>2, OneLease
  <2>10. now + lease_seconds \in Nat
    BY ServerAssumption DEF Others
  <2>11. Promised(p, nip, now + lease_seconds)
    BY <2>6, <2>8, <2>9 DEF Promised
  <2>12. QED
    BY <2>2, <2>8, <2>10, <2>11 DEF Effect, Given
<1>2. CASE ~(RequestedAddr(p) # 0 /\ known)
  <2>1. UNCHANGED table /\ reply' \in [type : {"none", "NAK"}, mac : {p.mac}, yiaddr : {0}]
    BY <1>2 DEF Request, NoReply, Send
  <2>2. QED
    BY <2>1 DEF Effect, Nothing, Table, table, Live
<1>3. QED
  BY <1>1, <1>2

\* DECLINE and RELEASE end the client's own lease at most, INFORM none.
LEMMA EndEffect ==
  ASSUME Table, Others, NEW p \in Packet, Decline(p) \/ Release(p) \/ Inform(p)
  PROVE  Table' /\ Effect(p)
<1> DEFINE id == find_lease_by_mac(p.mac)
<1>1. CASE UNCHANGED table
  <2>1. reply'.type \in {"none", "ACK"} /\ reply'.yiaddr = 0
    BY DEF Decline, Release, Inform, NoReply, Send
  <2>2. QED
    BY <1>1, <2>1 DEF Effect, Nothing, Table, table, Live
<1>2. CASE id # None /\ Decline(p) /\ remove_lease(id)
  <2>1. id \in Live /\ lease[id].mac = p.mac
    BY <1>2, FoundByMac
  <2> HIDE DEF id
  <2>2. Table' /\ Shortened /\ \A i \in LeaseId : lease'[i] = IF i = id THEN None ELSE lease[i]
    BY <1>2, <2>1, RemoveLeaseEffect
  <2>3. p.type = "DECLINE" /\ reply'.type = "none"
    BY <1>2 DEF Decline, NoReply, Send
  <2>4. \A i \in Live : lease[i].mac # p.mac => lease'[i] = lease[i]
    BY <2>1, <2>2, LiveFacts
  <2>5. QED
    BY <2>2, <2>3, <2>4 DEF Effect, Ended
<1>3. CASE id # None /\ Release(p) /\ lease_set_expire(id, now)
  <2>1. id \in Live /\ lease[id].mac = p.mac /\ now \in Nat
    BY <1>3, FoundByMac DEF Others
  <2> HIDE DEF id
  <2>2. Table' /\ Inserted(now) /\ \A i \in LeaseId \ {id} : lease'[i] = lease[i]
    BY <1>3, <2>1, SetExpireEffect
  <2>3. p.type = "RELEASE" /\ reply'.type = "none"
    BY <1>3 DEF Release, NoReply, Send
  <2>4. \A i \in Live : lease[i].mac # p.mac => lease'[i] = lease[i]
    BY <2>1, <2>2, LiveFacts
  <2>5. QED
    BY <2>2, <2>3, <2>4 DEF Effect, Ended
<1>4. QED
  BY <1>1, <1>2, <1>3 DEF Decline, Release, Inform

\* One packet, handled by a consistent server.
LEMMA ListenerEffect ==
  ASSUME Table, Others, NEW p \in Packet, listener_event(p)
  PROVE  Table' /\ Others' /\ Effect(p) /\ now' = now
<1>1. Others' /\ now' = now
  BY DEF listener_event, Others
<1>2. CASE p.server_id \notin {None, server_nip}
  <2>1. UNCHANGED table /\ reply' = [type |-> "none", mac |-> p.mac, yiaddr |-> 0]
    BY <1>2 DEF listener_event, NoReply, Send
  <2>2. QED
    BY <1>1, <2>1 DEF Effect, Nothing, Table, table, Live
<1>3. CASE p.server_id \in {None, server_nip}
  <2>1. Discover(p) \/ Request(p) \/ Decline(p) \/ Release(p) \/ Inform(p)
    BY <1>3 DEF listener_event
  <2>2. QED
    BY <1>1, <2>1, DiscoverEffect, RequestEffect, EndEffect
<1>4. QED
  BY <1>2, <1>3

-----------------------------------------------------------------------------
\* The invariant of the table.
IInv == Table /\ Others

\* The empty table of g_dhcp_server_new.
LEMMA InitOK == Init => IInv
<1> SUFFICES ASSUME Init PROVE IInv
  OBVIOUS
<1>1. Live = {} /\ lease_list = <<>> /\ Elems(lease_list) = {}
  BY DEF Init, EmptyTable, Live, Elems
<1>2. IsInjective(lease_list) /\ lease_list \in Seq(LeaseId)
  BY <1>1 DEF IsInjective
<1>3. /\ lease \in [LeaseId -> Lease \cup {None}]
      /\ nip_lease_hash \in [Addr -> LeaseId \cup {None}]
      /\ \A a \in Addr : nip_lease_hash[a] = None
  BY DEF Init, EmptyTable
<1>4. Others
  BY ServerAssumption DEF Init, Others
<1>5. QED
  BY <1>1, <1>2, <1>3, <1>4 DEF IInv, Table

\* A step that leaves the table alone.
LEMMA TableKept ==
  ASSUME Table, UNCHANGED table
  PROVE  Table' /\ Live' = Live
BY DEF Table, table, Live

\* Every step is a packet that is handled, or leaves the table and the reply alone.
LEMMA NextIs ==
  ASSUME IInv, Next
  PROVE  \/ \E p \in Packet : listener_event(p)
         \/ /\ UNCHANGED <<table, reply>> /\ Others'
            /\ now' \in {now, now + 1} /\ (now' # now => now < MaxTime)
<1>1. CASE ListenerError
  <2>1. listening' = FALSE /\ started' = started /\ now' = now /\ UNCHANGED <<table, reply>>
    BY <1>1 DEF ListenerError
  <2>2. QED
    BY <2>1 DEF IInv, Others
<1>2. CASE g_dhcp_server_start
  <2>1. started' = TRUE /\ listening' \in BOOLEAN /\ now' = now /\ UNCHANGED <<table, reply>>
    BY <1>2 DEF g_dhcp_server_start, IInv, Others
  <2>2. QED
    BY <2>1 DEF IInv, Others
<1>3. CASE g_dhcp_server_stop
  <2>1. started' = FALSE /\ listening' = FALSE /\ now' = now /\ UNCHANGED <<table, reply>>
    BY <1>3 DEF g_dhcp_server_stop
  <2>2. QED
    BY <2>1 DEF IInv, Others
<1>4. CASE Tick
  <2>1. /\ started' = started /\ listening' = listening /\ now' = now + 1 /\ now < MaxTime
        /\ UNCHANGED <<table, reply>>
    BY <1>4 DEF Tick
  <2>2. now + 1 \in Nat
    BY DEF IInv, Others
  <2>3. Others'
    BY <2>1, <2>2 DEF IInv, Others
  <2>4. QED
    BY <2>1, <2>3
<1>5. QED
  BY <1>1, <1>2, <1>3, <1>4 DEF Next

\* Every step keeps the table consistent.
LEMMA StepOK == IInv /\ [Next]_vars => IInv'
<1> SUFFICES ASSUME IInv, [Next]_vars PROVE IInv'
  OBVIOUS
<1>1. ASSUME NEW p \in Packet, listener_event(p) PROVE IInv'
  BY <1>1, ListenerEffect DEF IInv
<1>2. CASE UNCHANGED <<table, reply>> /\ Others'
  BY <1>2, TableKept DEF IInv
<1>3. CASE UNCHANGED vars
  BY <1>3, TableKept DEF IInv, vars, table, Others
<1>4. QED
  BY <1>1, <1>2, <1>3, NextIs

\* The table is always consistent.
LEMMA Invariance == Spec => []IInv
BY InitOK, StepOK, PTL DEF Spec

\* Whatever leases the handlers of server.c move, reuse and free, in whatever
\* order packets come, list and hash describe the same live objects and no
\* client or address has two.
THEOREM TableConsistentHolds == Spec => []TableConsistent
<1>1. IInv => TableConsistent
  BY TableConsistentIs DEF IInv
<1>2. QED
  BY <1>1, Invariance, PTL

\* send_offer and send_ACK promise an address only with its lease in the table:
\* no failure of add_lease comes between, and no promise is of another's address.
THEOREM PromiseKeptHolds == Spec => PromiseKept
<1> DEFINE A == reply' # reply /\ reply'.type \in {"OFFER", "ACK"} /\ reply'.yiaddr # 0 =>
                  \E id \in LeaseId :
                    /\ lease'[id] # None
                    /\ lease'[id].mac = reply'.mac
                    /\ htonl(lease'[id].nip) = reply'.yiaddr
                    /\ nip_lease_hash'[lease'[id].nip] = id
<1>1. IInv /\ [Next]_vars => [A]_vars
  <2> SUFFICES ASSUME IInv, Next, reply' # reply, reply'.type \in {"OFFER", "ACK"},
                      reply'.yiaddr # 0
               PROVE  \E id \in LeaseId :
                        /\ lease'[id] # None
                        /\ lease'[id].mac = reply'.mac
                        /\ htonl(lease'[id].nip) = reply'.yiaddr
                        /\ nip_lease_hash'[lease'[id].nip] = id
    OBVIOUS
  <2>1. PICK p \in Packet : listener_event(p)
    BY NextIs
  <2>2. Table' /\ Effect(p)
    BY <2>1, ListenerEffect DEF IInv
  <2>3. Given(p)
    BY <2>2 DEF Effect, Nothing, Ended
  <2>4. PICK nip \in start_ip .. end_ip, t \in Nat : Promised(p, nip, t)
    BY <2>3 DEF Given
  <2>5. PICK id \in LeaseId : /\ lease'[id] = [mac |-> p.mac, nip |-> nip, expire |-> t]
                              /\ nip_lease_hash'[nip] = id
    BY <2>4 DEF Promised, Stored
  <2>6. id \in Live'
    <3>1. nip \in Addr /\ id # None
      BY RangeFacts, ServerAssumption
    <3>2. QED
      BY <2>2, <2>5, <3>1 DEF Table
  <2>7. lease'[id] # None
    BY <2>6 DEF Live
  <2>8. QED
    BY <2>4, <2>5, <2>7 DEF Promised
<1>2. QED
  BY <1>1, Invariance, PTL DEF Spec, PromiseKept

-----------------------------------------------------------------------------
\* The times of the run fit the gint that compare_expire returns.
TimesFit ==
  /\ Boot <= MaxTime
  /\ MaxTime + lease_seconds <= INT_MAX
  /\ OFFER_TIME <= INT_MAX

\* The list is sorted, and no expiry is beyond gint.
SortInv ==
  /\ now <= MaxTime
  /\ \A id \in Live : lease[id].expire <= INT_MAX
  /\ Sorted(lease, lease_list)

\* A lease that is put in its place leaves the list sorted.
LEMMA InsertedSorts ==
  ASSUME Table, Table', SortInv, NEW t \in Nat, t <= INT_MAX, Inserted(t)
  PROVE  Sorted(lease', lease_list') /\ \A id \in Live' : lease'[id].expire <= INT_MAX
<1>1. PICK id \in LeaseId, rest \in Seq(LeaseId) :
        /\ lease_list' = insert_sorted(lease', rest, id)
        /\ lease'[id].expire = t
        /\ Live' = Elems(rest) \cup {id}
        /\ \A i \in Elems(rest) : i \in Live /\ lease'[i] = lease[i]
        /\ Sorted(lease, lease_list) => Sorted(lease, rest)
  BY DEF Inserted
<1>2. \A i \in Elems(rest) \cup {id} : lease'[i].expire \in 0 .. INT_MAX
  <2>1. t \in 0 .. INT_MAX
    BY ServerAssumption
  <2>2. ASSUME NEW i \in Elems(rest) PROVE lease'[i].expire \in 0 .. INT_MAX
    <3>1. i \in Live /\ lease'[i] = lease[i]
      BY <1>1
    <3>2. lease[i].expire \in Nat /\ lease[i].expire <= INT_MAX
      BY <3>1, LiveFacts, RangeFacts DEF SortInv
    <3>3. QED
      BY <3>1, <3>2, ServerAssumption
  <2>3. QED
    BY <1>1, <2>1, <2>2
<1>3. Sorted(lease', rest)
  <2>1. Sorted(lease, rest)
    BY <1>1 DEF SortInv
  <2>2. \A i \in DOMAIN rest : lease'[rest[i]] = lease[rest[i]]
    BY <1>1 DEF Elems
  <2>3. QED
    BY <2>1, <2>2 DEF Sorted
<1>4. Sorted(lease', insert_sorted(lease', rest, id))
  BY <1>2, <1>3, InsertSorts
<1>5. \A i \in Live' : lease'[i].expire <= INT_MAX
  BY <1>1, <1>2, ServerAssumption
<1>6. QED
  BY <1>1, <1>4, <1>5

\* A lease that is taken out leaves the list sorted.
LEMMA ShortenedSorts ==
  ASSUME Table, Table', SortInv, Shortened
  PROVE  Sorted(lease', lease_list') /\ \A id \in Live' : lease'[id].expire <= INT_MAX
<1>1. Sorted(lease, lease_list')
  BY DEF Shortened, SortInv
<1>2. \A i \in DOMAIN lease_list' : lease'[lease_list'[i]] = lease[lease_list'[i]]
  BY DEF Shortened, Table, Elems
<1>3. Sorted(lease', lease_list')
  BY <1>1, <1>2 DEF Sorted
<1>4. QED
  BY <1>3 DEF Shortened, SortInv

\* Every step keeps the list sorted while the times fit.
LEMMA SortStep ==
  ASSUME TimesFit
  PROVE  IInv /\ IInv' /\ SortInv /\ [Next]_vars => SortInv'
<1> SUFFICES ASSUME IInv, IInv', SortInv, [Next]_vars PROVE SortInv'
  OBVIOUS
<1>0. /\ Table /\ Table' /\ now \in Nat /\ now <= MaxTime
      /\ {lease_seconds, OFFER_TIME, INT_MAX, Boot, MaxTime} \subseteq Nat
  BY ServerAssumption DEF IInv, Others, SortInv
<1>1. ASSUME NEW p \in Packet, listener_event(p) PROVE SortInv'
  <2>1. Effect(p) /\ now' = now
    BY <1>1, ListenerEffect DEF IInv
  <2>2. CASE Nothing(p)
    BY <2>1, <2>2 DEF Nothing, table, SortInv, Live
  <2>3. CASE Given(p)
    <3>1. PICK t \in Nat : Inserted(t) /\ t \in {OFFER_TIME, now + lease_seconds}
      BY <2>3 DEF Given, Promised
    <3>2. t <= INT_MAX
      BY <1>0, <3>1 DEF TimesFit
    <3>3. QED
      BY <1>0, <2>1, <3>1, <3>2, InsertedSorts DEF SortInv
  <2>4. CASE Ended(p) /\ Inserted(now)
    <3>1. now <= INT_MAX
      BY <1>0 DEF TimesFit
    <3>2. QED
      BY <1>0, <2>1, <2>4, <3>1, InsertedSorts DEF SortInv
  <2>5. CASE Ended(p) /\ Shortened
    BY <1>0, <2>1, <2>5, ShortenedSorts DEF SortInv
  <2>6. QED
    BY <2>1, <2>2, <2>3, <2>4, <2>5 DEF Effect, Ended
<1>2. CASE UNCHANGED <<table, reply>> /\ now' \in {now, now + 1} /\ (now' # now => now < MaxTime)
  <2>1. now' <= MaxTime
    BY <1>0, <1>2
  <2>2. QED
    BY <1>2, <2>1 DEF table, SortInv, Live
<1>3. CASE UNCHANGED vars
  BY <1>3 DEF vars, table, SortInv, Live
<1>4. QED
  BY <1>1, <1>2, <1>3, NextIs

\* "The last lease is the oldest one": true of the list that compare_expire and
\* g_list_insert_sorted keep, as long as no difference of two expiries overflows.
THEOREM OldestLastHolds ==
  ASSUME TimesFit
  PROVE  Spec => []OldestLast
<1>1. Init => SortInv
  <2> SUFFICES ASSUME Init PROVE SortInv
    OBVIOUS
  <2>1. Live = {} /\ lease_list = <<>> /\ now = Boot
    BY DEF Init, EmptyTable, Live
  <2>2. Sorted(lease, lease_list)
    BY <2>1 DEF Sorted
  <2>3. QED
    BY <2>1, <2>2 DEF SortInv, TimesFit
<1>2. IInv /\ SortInv => OldestLast
  <2> SUFFICES ASSUME IInv, SortInv, lease_list # <<>>, NEW id \in Live
               PROVE  lease[Last(lease_list)].expire <= lease[id].expire
    BY DEF OldestLast
  <2> DEFINE n == Len(lease_list)
  <2>1. n \in Nat /\ n > 0 /\ DOMAIN lease_list = 1 .. n /\ Last(lease_list) = lease_list[n]
    BY DEF IInv, Table, Last
  <2>2. PICK i \in 1 .. n : id = lease_list[i]
    BY <2>1 DEF IInv, Table, Elems
  <2>3. lease_list[n] \in Live
    BY <2>1 DEF IInv, Table, Elems
  <2>4. lease[id].expire \in Nat /\ lease[lease_list[n]].expire \in Nat
    BY <2>3, LiveFacts, RangeFacts DEF IInv
  <2> HIDE DEF n
  <2>5. CASE i = n
    BY <2>1, <2>2, <2>4, <2>5
  <2>6. CASE i < n
    BY <2>1, <2>2, <2>4, <2>6 DEF SortInv, Sorted
  <2>7. QED
    BY <2>1, <2>5, <2>6
<1>3. QED
  BY <1>1, <1>2, SortStep, Invariance, PTL DEF Spec

-----------------------------------------------------------------------------
\* The history of grants constrains nothing.
LEMMA GrantsAdd == GSpec => Spec
<1>1. GInit => Init
  BY DEF GInit
<1>2. [GNext]_gvars => [Next]_vars
  BY DEF GNext, Handle, Environment, Next, gvars
<1>3. QED
  BY <1>1, <1>2, PTL DEF GSpec, Spec

\* A grant that has not ended is a lease of the table, with the same end.
Granted ==
  /\ held \in [Mac -> [nip : Addr, until : Nat] \cup {None}]
  /\ \A m \in Mac : Holds(m) =>
       \E id \in Live : /\ lease[id].mac = m
                        /\ lease[id].nip = held[m].nip
                        /\ lease[id].expire = held[m].until

\* No packet takes a lease that a client still holds.
LEMMA GrantedStep == IInv /\ IInv' /\ Granted /\ [GNext]_gvars => Granted'
<1> SUFFICES ASSUME IInv, IInv', Granted, [GNext]_gvars PROVE Granted'
  OBVIOUS
<1> DEFINE Rec == [nip : Addr, until : Nat]
           Is(m, id) == /\ lease[id].mac = m /\ lease[id].nip = held[m].nip
                        /\ lease[id].expire = held[m].until
<1>0. Table /\ Table' /\ now \in Nat /\ lease_seconds \in Nat /\ None \notin Rec
  BY ServerAssumption DEF IInv, Others
<1>1. ASSUME NEW p \in Packet, Handle(p) PROVE Granted'
  <2>0. p.mac \in Mac /\ listener_event(p)
    BY <1>1 DEF Packet, Handle
  <2>1. Effect(p) /\ now' = now
    BY <2>0, ListenerEffect DEF IInv
  <2> DEFINE given == reply'.type = "ACK" /\ reply'.yiaddr # 0
             ended == reply'.type = "NAK" \/ p.type \in {"DISCOVER", "DECLINE", "RELEASE"}
             g == [nip |-> ntohl(reply'.yiaddr), until |-> now + lease_seconds]
  <2>2. held' = IF given THEN [held EXCEPT ![p.mac] = g]
                ELSE IF ended THEN [held EXCEPT ![p.mac] = None] ELSE held
    BY <1>1 DEF Handle
  <2>3. given => Given(p)
    BY <2>1 DEF Effect, Nothing, Ended
  <2>4. given => \E nip \in start_ip .. end_ip :
                   Promised(p, nip, now + lease_seconds) /\ ntohl(reply'.yiaddr) = nip /\ nip \in Addr
    <3> SUFFICES ASSUME given PROVE \E nip \in start_ip .. end_ip :
                   Promised(p, nip, now + lease_seconds) /\ ntohl(reply'.yiaddr) = nip /\ nip \in Addr
      OBVIOUS
    <3>1. PICK nip \in start_ip .. end_ip, t \in Nat : Promised(p, nip, t)
      BY <2>3 DEF Given
    <3>2. nip \in Addr /\ reply'.yiaddr = htonl(nip) /\ t = now + lease_seconds
      BY <3>1, RangeFacts DEF Promised
    <3>3. QED
      BY <3>1, <3>2, Swapped
  <2>5. given => g \in Rec
    BY <1>0, <2>4
  <2> HIDE DEF g
  <2>6. held' \in [Mac -> Rec \cup {None}]
    <3> HIDE DEF given, ended, Rec
    <3>1. held \in [Mac -> Rec \cup {None}]
      BY DEF Granted, Rec
    <3>2. QED
      BY <2>2, <2>5, <3>1
  <2>7. ASSUME NEW m \in Mac, m # p.mac, Holds(m)'
        PROVE  \E id \in Live' : Is(m, id)'
    <3>1. held'[m] = held[m]
      BY <2>2, <2>7 DEF Granted
    <3>2. Holds(m) /\ held[m].until >= now
      BY <2>1, <2>7, <3>1 DEF Holds
    <3>3. PICK id \in Live : Is(m, id)
      BY <3>2 DEF Granted
    <3>4. SUFFICES lease'[id] = lease[id]
      <4>1. id \in LeaseId /\ lease[id] # None
        BY <1>0, <3>3, LiveFacts
      <4>2. QED
        BY <3>1, <3>3, <3>4, <4>1 DEF Live
    <3>5. lease[id].mac # p.mac /\ ~is_expired_lease(id) /\ id \in LeaseId
      <4>1. lease[id].expire \in Nat /\ id \in LeaseId
        BY <1>0, <3>3, LiveFacts, RangeFacts
      <4>2. QED
        BY <1>0, <2>7, <3>2, <3>3, <4>1 DEF is_expired_lease
    <3>6. CASE Nothing(p)
      BY <3>6 DEF Nothing, table
    <3>7. CASE Ended(p)
      BY <3>3, <3>5, <3>7 DEF Ended
    <3>8. CASE Given(p)
      <4>1. PICK nip \in start_ip .. end_ip, t \in Nat : Promised(p, nip, t)
        BY <3>8 DEF Given
      <4>2. lease[id].nip # nip
        BY <3>3, <3>5, <4>1 DEF Promised
      <4>3. QED
        BY <3>3, <3>5, <4>1, <4>2 DEF Promised, Stored
    <3>9. QED
      BY <2>1, <3>6, <3>7, <3>8 DEF Effect
  <2>8. ASSUME Holds(p.mac)' PROVE \E id \in Live' : Is(p.mac, id)'
    <3>1. CASE given
      <4>1. PICK nip \in start_ip .. end_ip :
              Promised(p, nip, now + lease_seconds) /\ ntohl(reply'.yiaddr) = nip /\ nip \in Addr
        BY <2>4, <3>1
      <4>2. PICK id \in LeaseId :
              /\ lease'[id] = [mac |-> p.mac, nip |-> nip, expire |-> now + lease_seconds]
              /\ nip_lease_hash'[nip] = id
        BY <4>1 DEF Promised, Stored
      <4>3. id \in Live'
        BY <1>0, <4>1, <4>2, ServerAssumption DEF Table
      <4>4. held'[p.mac] = [nip |-> nip, until |-> now + lease_seconds]
        BY <2>0, <2>2, <3>1, <4>1 DEF Granted, g
      <4>5. QED
        BY <4>2, <4>3, <4>4
    <3>2. CASE ~given /\ ended
      <4>1. held'[p.mac] = None
        BY <2>0, <2>2, <3>2 DEF Granted
      <4>2. QED
        BY <2>8, <4>1 DEF Holds
    <3>3. CASE ~given /\ ~ended
      <4>1. held' = held
        BY <2>2, <3>3
      <4>2. Nothing(p)
        <5>1. ~Ended(p)
          BY <3>3 DEF Ended
        <5>2. ASSUME Given(p) PROVE FALSE
          <6>1. PICK nip \in start_ip .. end_ip, t \in Nat : Promised(p, nip, t)
            BY <5>2 DEF Given
          <6>2. reply'.type = "ACK" /\ reply'.yiaddr = htonl(nip) /\ nip \in Addr \ {0}
            BY <3>3, <6>1, RangeFacts DEF Promised
          <6>3. htonl(nip) # 0
            BY <6>2, Swapped, ZeroSwapped DEF ntohl
          <6>4. QED
            BY <3>3, <6>2, <6>3
        <5>3. QED
          BY <2>1, <5>1, <5>2 DEF Effect
      <4>3. Holds(p.mac)
        BY <2>1, <2>8, <4>1 DEF Holds
      <4>4. QED
        BY <2>0, <4>1, <4>2, <4>3 DEF Granted, Nothing, table, Live
    <3>4. QED
      BY <3>1, <3>2, <3>3
  <2>9. QED
    BY <2>6, <2>7, <2>8 DEF Granted
<1>2. CASE Environment
  <2>1. UNCHANGED <<table, held>> /\ now' \in {now, now + 1}
    BY <1>2 DEF Environment, ListenerError, g_dhcp_server_start, g_dhcp_server_stop, Tick
  <2>2. \A m \in Mac : Holds(m)' => Holds(m)
    <3> SUFFICES ASSUME NEW m \in Mac, Holds(m)' PROVE Holds(m)
      OBVIOUS
    <3>1. held[m] # None /\ held[m].until >= now' /\ held[m] \in Rec
      BY <2>1 DEF Holds, Granted
    <3>2. held[m].until \in Nat
      BY <3>1
    <3>3. QED
      BY <1>0, <2>1, <3>1, <3>2 DEF Holds
  <2>3. QED
    BY <2>1, <2>2 DEF Granted, table, Live
<1>3. CASE UNCHANGED gvars
  BY <1>3 DEF gvars, vars, table, Granted, Holds, Live
<1>4. QED
  BY <1>1, <1>2, <1>3 DEF GNext

\* Every unexpired grant is in the table.
LEMMA GrantedHolds == GSpec => [](IInv /\ Granted)
<1>1. GInit => Granted
  BY DEF GInit, Granted, Holds
<1>2. QED
  BY <1>1, GrantsAdd, Invariance, GrantedStep, PTL DEF GSpec

\* What an ACK of server.c gave a client stays the client's unexpired lease until
\* it ends: no packet of another client, and no search for a free address, takes it.
THEOREM LeaseTimeFixedHolds == GSpec => []LeaseTimeFixed
<1>1. IInv /\ Granted => LeaseTimeFixed
  <2> SUFFICES ASSUME IInv, Granted, NEW m \in Mac, Holds(m)
               PROVE  \E id \in Live : /\ lease[id].mac = m
                                       /\ lease[id].nip = held[m].nip
                                       /\ ~is_expired_lease(id)
    BY DEF LeaseTimeFixed
  <2>1. PICK id \in Live : /\ lease[id].mac = m
                           /\ lease[id].nip = held[m].nip
                           /\ lease[id].expire = held[m].until
    BY DEF Granted
  <2>2. lease[id].expire \in Nat /\ now \in Nat
    BY LiveFacts, RangeFacts DEF IInv, Others
  <2>3. ~(lease[id].expire < now)
    BY <2>1, <2>2 DEF Holds
  <2>4. QED
    BY <2>1, <2>3 DEF is_expired_lease
<1>2. QED
  BY <1>1, GrantedHolds, PTL

\* No two clients hold the same address by unexpired leases.
THEOREM ExclusiveHolds == GSpec => []Exclusive
<1>1. IInv /\ Granted => Exclusive
  <2> SUFFICES ASSUME IInv, Granted, NEW m \in Mac, NEW n \in Mac, Holds(m), Holds(n),
                      held[m].nip = held[n].nip
               PROVE  m = n
    BY DEF Exclusive
  <2>1. PICK i \in Live : lease[i].mac = m /\ lease[i].nip = held[m].nip
    BY DEF Granted
  <2>2. PICK j \in Live : lease[j].mac = n /\ lease[j].nip = held[n].nip
    BY DEF Granted
  <2>3. i = j
    BY <2>1, <2>2 DEF IInv, Table
  <2>4. QED
    BY <2>1, <2>2, <2>3
<1>2. QED
  BY <1>1, GrantedHolds, PTL

-----------------------------------------------------------------------------
(* The options of a packet (DhcpOptions).                                  *)

\* Induction over the naturals, for a set.
LEMMA SetInduction ==
  ASSUME NEW T, T \subseteq Nat, 0 \in T, \A n \in T : n + 1 \in T
  PROVE  Nat = T
<1> SUFFICES ASSUME Nat \ T # {} PROVE FALSE
  OBVIOUS
<1>1. PICK x \in Nat \ T : \A y \in Nat \ T : ~(<<y, x>> \in OpToRel(<, Nat))
  BY NatLessThanWellFounded, WFMin
<1>2. x \in Nat /\ x # 0 /\ x - 1 \in Nat /\ x = (x - 1) + 1
  OBVIOUS
<1>3. x - 1 \in Nat \ T
  BY <1>2
<1>4. ~(x - 1 < x)
  BY <1>1, <1>2, <1>3 DEF OpToRel
<1>5. QED
  BY <1>2, <1>4

\* A block is a sequence.
LEMMA BlockSeq ==
  ASSUME NEW S, NEW n \in Nat, NEW f \in [1 .. n -> S]
  PROVE  f \in Seq(S) /\ Len(f) = n
BY SeqDef

\* What memcpy leaves and what it writes.
LEMMA Copied ==
  ASSUME NEW blk \in Seq(Byte), NEW e \in Nat, NEW s \in Seq(Byte)
  PROVE  /\ memcpy(blk, e, s) \in Seq(Byte)
         /\ Len(memcpy(blk, e, s)) = Len(blk)
         /\ \A i \in 1 .. Len(blk) : i <= e => memcpy(blk, e, s)[i] = blk[i]
         /\ \A i \in 1 .. Len(s) : e + i <= Len(blk) => memcpy(blk, e, s)[e + i] = s[i]
<1> DEFINE N == Len(blk)
           c == memcpy(blk, e, s)
<1>1. N \in Nat /\ DOMAIN blk = 1 .. N /\ \A i \in 1 .. N : blk[i] \in Byte
  OBVIOUS
<1>2. Len(s) \in Nat /\ DOMAIN s = 1 .. Len(s) /\ \A i \in 1 .. Len(s) : s[i] \in Byte
  OBVIOUS
<1>3. c = [i \in 1 .. N |-> IF i - e \in 1 .. Len(s) THEN s[i - e] ELSE blk[i]]
  BY <1>1, <1>2 DEF memcpy
<1> HIDE DEF c, N
<1>4. \A i \in 1 .. N : c[i] \in Byte
  BY <1>1, <1>2, <1>3
<1>5. c \in Seq(Byte) /\ Len(c) = N
  <2>1. c \in [1 .. N -> Byte]
    BY <1>3, <1>4
  <2>2. QED
    BY <1>1, <2>1, BlockSeq
<1>6. \A i \in 1 .. N : i <= e => c[i] = blk[i]
  BY <1>1, <1>3
<1>7. ASSUME NEW i \in 1 .. Len(s), e + i <= N PROVE c[e + i] = s[i]
  <2>1. e + i \in 1 .. N /\ (e + i) - e = i
    BY <1>1, <1>2, <1>7
  <2>2. QED
    BY <1>3, <2>1
<1>8. QED
  BY <1>5, <1>6, <1>7 DEF c, N

\* The bytes of an option.
LEMMA OptionBytes ==
  ASSUME NEW o \in Option
  PROVE  /\ o.code \in Byte \ {PADDING, END, OVERLOAD} /\ o.data \in Seq(Byte) /\ Len(o.data) \in Byte
         /\ Bytes(o) \in Seq(Byte) /\ Len(Bytes(o)) = 2 + Len(o.data)
         /\ Bytes(o)[1] = o.code /\ Bytes(o)[2] = Len(o.data)
         /\ \A i \in 1 .. Len(o.data) : Bytes(o)[2 + i] = o.data[i]
<1> DEFINE h == <<o.code, Len(o.data)>>
           d == o.data
<1>1. /\ o.code \in Byte \ {PADDING, END, OVERLOAD} /\ d \in Seq(Byte) /\ Len(d) \in Byte
  BY DEF Option
<1>2. h \in Seq(Byte) /\ Len(h) = 2 /\ h[1] = o.code /\ h[2] = Len(d)
  BY <1>1
<1>3. Bytes(o) = h \o d
  BY DEF Bytes
<1> HIDE DEF h, d
<1>4. /\ h \o d \in Seq(Byte) /\ Len(h \o d) = 2 + Len(d)
      /\ \A i \in 1 .. 2 + Len(d) : (h \o d)[i] = IF i <= 2 THEN h[i] ELSE d[i - 2]
  <2>1. d \in Seq(Byte)
    BY <1>1 DEF d
  <2>2. /\ h \o d \in Seq(Byte) /\ Len(h \o d) = Len(h) + Len(d)
        /\ \A i \in 1 .. Len(h) + Len(d) : (h \o d)[i] = IF i <= Len(h) THEN h[i] ELSE d[i - Len(h)]
    BY <1>2, <2>1, ConcatProperties, Zenon
  <2>3. QED
    BY <1>2, <2>2, Zenon
<1>5. Len(d) \in Nat
  BY <1>1
<1>6. (h \o d)[1] = h[1] /\ (h \o d)[2] = h[2]
  BY <1>4, <1>5
<1>7. ASSUME NEW i \in 1 .. Len(d) PROVE (h \o d)[2 + i] = d[i]
  <2>1. 2 + i \in 1 .. 2 + Len(d) /\ ~(2 + i <= 2) /\ (2 + i) - 2 = i
    BY <1>5
  <2>2. QED
    BY <1>4, <2>1
<1>8. QED
  BY <1>1, <1>2, <1>3, <1>4, <1>6, <1>7 DEF d

-----------------------------------------------------------------------------
\* How far a reader of a field is: the byte, the options read, and the fields that
\* overload options have named.
Mark == [at : Nat, read : Nat, more : SUBSET {"file", "sname"}]

\* From x to y a reader passes a padding, an overload option, or the next of the
\* options w.
Passes(x, y, blk, w) ==
  \/ /\ blk[x.at] = PADDING
     /\ y.at = x.at + 1 /\ y.read = x.read /\ y.more = x.more
  \/ /\ blk[x.at] = OVERLOAD /\ blk[x.at + 1] = 1
     /\ y.at = x.at + 3 /\ y.read = x.read /\ y.more = x.more \cup Fields(blk[x.at + 2])
  \/ /\ y.read = x.read + 1 /\ y.read <= Len(w) /\ y.more = x.more
     /\ blk[x.at] = w[y.read].code /\ blk[x.at + 1] = Len(w[y.read].data)
     /\ y.at = x.at + 2 + Len(w[y.read].data)
     /\ \A i \in 1 .. Len(w[y.read].data) : blk[x.at + 1 + i] = w[y.read].data[i]

\* The reader's marks t, from the beginning to the end of the block.
Laid(t, n, blk, w) ==
  /\ n \in Nat /\ t[0] = [at |-> 1, read |-> 0, more |-> {}]
  /\ \A k \in 0 .. n : /\ t[k] \in Mark /\ k < t[k].at /\ t[k].at <= t[n].at
                       /\ t[k].more \subseteq t[n].more
  /\ \A k \in 1 .. n : Passes(t[k - 1], t[k], blk, w)
  /\ t[n].at <= Len(blk) /\ blk[t[n].at] = END /\ t[n].read = Len(w)

\* The options of a list have their types.
LEMMA ListedOption ==
  ASSUME NEW w \in Seq(Option), NEW i \in 1 .. Len(w)
  PROVE  /\ w[i].code \in Byte \ {PADDING, END, OVERLOAD} /\ w[i].data \in Seq(Byte)
         /\ Len(w[i].data) \in Nat
<1>1. w[i] \in Option
  OBVIOUS
<1>2. QED
  BY <1>1, OptionBytes DEF Byte

\* Whatever is passed, its first byte is not an end, and next_option finds its last.
LEMMA PassedBytes ==
  ASSUME NEW blk \in Seq(Byte), NEW w \in Seq(Option), NEW x \in Mark, NEW y \in Mark,
         Passes(x, y, blk, w), x.at \in 1 .. Len(blk)
  PROVE  blk[x.at] # END /\ x.at < y.at /\ next_option(blk, x.at) = y.at
<1>1. /\ x.at \in Nat /\ y.at \in Nat /\ x.read \in Nat /\ y.read \in Nat /\ Len(blk) \in Nat
      /\ Len(w) \in Nat /\ ~(x.at > Len(blk))
  BY DEF Mark
<1>2. PADDING = 0 /\ END = 255 /\ OVERLOAD = 52
  BY DEF PADDING, END, OVERLOAD
<1>3. CASE blk[x.at] = PADDING /\ y.at = x.at + 1
  BY <1>1, <1>2, <1>3 DEF next_option
<1>4. CASE blk[x.at] = OVERLOAD /\ blk[x.at + 1] = 1 /\ y.at = x.at + 3
  BY <1>1, <1>2, <1>4 DEF next_option
<1>5. CASE /\ y.read = x.read + 1 /\ y.read <= Len(w)
           /\ blk[x.at] = w[y.read].code /\ blk[x.at + 1] = Len(w[y.read].data)
           /\ y.at = x.at + 2 + Len(w[y.read].data)
  <2>1. y.read \in 1 .. Len(w)
    BY <1>1, <1>5
  <2>2. w[y.read].code \notin {PADDING, END} /\ Len(w[y.read].data) \in Nat
    BY <2>1, ListedOption
  <2>3. next_option(blk, x.at) = x.at + 2 + blk[x.at + 1]
    <3>1. ~(x.at > Len(blk)) /\ blk[x.at] # END /\ blk[x.at] # PADDING
      BY <1>1, <1>5, <2>2
    <3>2. QED
      BY <3>1 DEF next_option
  <2> DEFINE a == x.at
             l == Len(w[y.read].data)
  <2>4. a \in Nat /\ l \in Nat /\ y.at = a + 2 + l /\ next_option(blk, x.at) = a + 2 + l
    BY <1>1, <1>5, <2>2, <2>3
  <2> HIDE DEF a, l
  <2>5. a < a + 2 + l
    BY <2>4
  <2>6. QED
    BY <1>5, <2>2, <2>4, <2>5 DEF a
<1>6. QED
  BY <1>3, <1>4, <1>5 DEF Passes

\* Bytes from e on do not matter to what ends before them, nor do more options.
LEMMA PassesKept ==
  ASSUME NEW blk, NEW c, NEW w \in Seq(Option), NEW v \in Seq(Option), NEW x \in Mark, NEW y \in Mark,
         NEW e \in Nat, Passes(x, y, blk, w), 1 <= x.at, y.at <= e + 1,
         \A i \in 1 .. e : c[i] = blk[i],
         Len(w) <= Len(v), \A i \in 1 .. Len(w) : v[i] = w[i]
  PROVE  Passes(x, y, c, v)
<1>1. /\ x.at \in Nat /\ y.at \in Nat /\ x.read \in Nat /\ y.read \in Nat
      /\ Len(v) \in Nat /\ Len(w) \in Nat
  BY DEF Mark
<1>2. CASE /\ blk[x.at] = PADDING
           /\ y.at = x.at + 1 /\ y.read = x.read /\ y.more = x.more
  <2>1. x.at \in 1 .. e
    BY <1>1, <1>2
  <2>2. c[x.at] = PADDING
    BY <1>2, <2>1
  <2>3. QED
    BY <1>2, <2>2 DEF Passes
<1>3. CASE /\ blk[x.at] = OVERLOAD /\ blk[x.at + 1] = 1
           /\ y.at = x.at + 3 /\ y.read = x.read /\ y.more = x.more \cup Fields(blk[x.at + 2])
  <2>1. x.at \in 1 .. e /\ x.at + 1 \in 1 .. e /\ x.at + 2 \in 1 .. e
    BY <1>1, <1>3
  <2>2. c[x.at] = OVERLOAD /\ c[x.at + 1] = 1 /\ c[x.at + 2] = blk[x.at + 2]
    BY <1>3, <2>1
  <2>3. y.more = x.more \cup Fields(c[x.at + 2])
    BY <1>3, <2>2
  <2>4. QED
    BY <1>3, <2>2, <2>3 DEF Passes
<1>4. CASE /\ y.read = x.read + 1 /\ y.read <= Len(w) /\ y.more = x.more
           /\ blk[x.at] = w[y.read].code /\ blk[x.at + 1] = Len(w[y.read].data)
           /\ y.at = x.at + 2 + Len(w[y.read].data)
           /\ \A i \in 1 .. Len(w[y.read].data) : blk[x.at + 1 + i] = w[y.read].data[i]
  <2> DEFINE d == w[y.read].data
  <2>1. y.read \in 1 .. Len(w) /\ y.read <= Len(v)
    BY <1>1, <1>4
  <2>2. Len(d) \in Nat /\ v[y.read] = w[y.read]
    BY <2>1, ListedOption
  <2>3. x.at \in 1 .. e /\ x.at + 1 \in 1 .. e /\ \A i \in 1 .. Len(d) : x.at + 1 + i \in 1 .. e
    <3> HIDE DEF d
    <3>1. y.at = x.at + 2 + Len(d)
      BY <1>4 DEF d
    <3>2. x.at + 2 + Len(d) <= e + 1 /\ 1 <= x.at /\ x.at \in Nat /\ Len(d) \in Nat
      BY <1>1, <2>2, <3>1
    <3>3. ASSUME NEW i \in 1 .. Len(d) PROVE x.at + 1 + i \in 1 .. e
      BY <3>2
    <3>4. QED
      BY <3>2, <3>3
  <2>4. c[x.at] = w[y.read].code /\ c[x.at + 1] = Len(d) /\ \A i \in 1 .. Len(d) : c[x.at + 1 + i] = d[i]
    BY <1>4, <2>3
  <2>5. QED
    BY <1>4, <2>1, <2>2, <2>4 DEF Passes
<1>5. QED
  BY <1>2, <1>3, <1>4 DEF Passes

\* dhcp_end_option stops at the last mark.
LEMMA EndFound ==
  ASSUME NEW blk \in Seq(Byte), NEW w \in Seq(Option), NEW t, NEW n, Laid(t, n, blk, w)
  PROVE  dhcp_end_option(blk) = t[n].at - 1 /\ t[n].at \in 1 .. Len(blk)
<1> DEFINE N == Len(blk)
           G(g) == g = [k \in 0 .. N |-> IF k = 0 THEN 1 ELSE next_option(blk, g[k - 1])]
           f == [k \in 0 .. N |-> IF k <= n THEN t[k].at ELSE t[n].at]
           c == CHOOSE g : G(g)
<1>1. /\ N \in Nat /\ n \in Nat /\ t[0].at = 1 /\ t[n].at <= N /\ blk[t[n].at] = END
      /\ \A k \in 0 .. n : t[k] \in Mark /\ t[k].at \in Nat /\ k < t[k].at /\ t[k].at <= t[n].at
      /\ \A k \in 1 .. n : Passes(t[k - 1], t[k], blk, w)
  BY DEF Laid, Mark
<1>2. t[n].at \in 1 .. N /\ n < N
  BY <1>1
<1>3. ASSUME NEW k \in 1 .. n PROVE next_option(blk, t[k - 1].at) = t[k].at
  <2>1. k - 1 \in 0 .. n /\ k \in 0 .. n
    BY <1>1
  <2>2. t[k - 1] \in Mark /\ t[k] \in Mark /\ t[k - 1].at \in 1 .. N
    BY <1>1, <1>2, <2>1
  <2> DEFINE x == t[k - 1]
             y == t[k]
  <2>3. x \in Mark /\ y \in Mark /\ Passes(x, y, blk, w) /\ x.at \in 1 .. Len(blk)
    BY <1>1, <2>2
  <2> HIDE DEF x, y
  <2>4. next_option(blk, x.at) = y.at
    BY <2>3, PassedBytes
  <2>5. QED
    BY <2>4 DEF x, y
<1>4. next_option(blk, t[n].at) = t[n].at
  BY <1>1 DEF next_option
<1>5. ASSUME NEW k \in 0 .. N PROVE f[k] = IF k = 0 THEN 1 ELSE next_option(blk, f[k - 1])
  <2>1. CASE k = 0
    BY <1>1, <2>1
  <2>2. CASE k \in 1 .. n
    BY <1>1, <1>3, <2>2
  <2>3. CASE k > n /\ k # 0
    <3>1. k - 1 \in 0 .. N /\ f[k - 1] = t[n].at /\ f[k] = t[n].at
      BY <1>1, <2>3
    <3>2. QED
      BY <1>4, <2>3, <3>1
  <2>4. QED
    BY <1>1, <2>1, <2>2, <2>3
<1>6. G(f)
  <2> DEFINE h == [k \in 0 .. N |-> IF k = 0 THEN 1 ELSE next_option(blk, f[k - 1])]
  <2>1. DOMAIN f = 0 .. N /\ DOMAIN h = 0 .. N /\ \A k \in 0 .. N : h[k] = f[k]
    BY <1>5
  <2>2. f = [k \in 0 .. N |-> f[k]] /\ h = [k \in 0 .. N |-> h[k]]
    OBVIOUS
  <2> HIDE DEF f, h
  <2>3. f = h
    BY <2>1, <2>2
  <2>4. QED
    BY <2>3 DEF h
<1>7. G(c)
  BY <1>6
<1>8. dhcp_end_option(blk) = c[N] - 1
  BY DEF dhcp_end_option
<1> HIDE DEF c, N, f
<1> DEFINE T == {k \in Nat : k <= N => f[k] = c[k]}
<1>9. 0 \in T
  BY <1>1, <1>5, <1>7
<1>10. ASSUME NEW k \in T PROVE k + 1 \in T
  <2>1. CASE k + 1 <= N
    <3>1. k + 1 \in 0 .. N /\ k + 1 # 0 /\ (k + 1) - 1 = k /\ f[k] = c[k]
      BY <1>1, <2>1
    <3>2. f[k + 1] = next_option(blk, f[k]) /\ c[k + 1] = next_option(blk, c[k])
      BY <1>5, <1>7, <3>1
    <3>3. QED
      BY <3>1, <3>2
  <2>2. QED
    BY <2>1
<1>11. N \in T
  <2>1. T \subseteq Nat
    OBVIOUS
  <2> HIDE DEF T
  <2>2. QED
    BY <1>1, <1>9, <1>10, <2>1, SetInduction, Zenon
<1>12. f[N] = t[n].at
  BY <1>1, <1>2 DEF f
<1>13. QED
  BY <1>1, <1>2, <1>8, <1>11, <1>12 DEF N

\* The options w are in the block, and the overload options in it name the fields m.
Carries(blk, w, m) == \E t, n : Laid(t, n, blk, w) /\ t[n].more = m

\* A block that begins with an end.
LEMMA CarriesNothing ==
  ASSUME NEW blk \in Seq(Byte), blk # <<>>, blk[1] = END
  PROVE  Carries(blk, <<>>, {}) /\ dhcp_end_option(blk) = 0
<1> DEFINE t == [k \in 0 .. 0 |-> [at |-> 1, read |-> 0, more |-> {}]]
<1>1. t[0] = [at |-> 1, read |-> 0, more |-> {}]
  OBVIOUS
<1> HIDE DEF t
<1>2. t[0] \in Mark /\ t[0].at = 1 /\ t[0].read = 0 /\ t[0].more = {}
  BY <1>1 DEF Mark
<1>3. 1 <= Len(blk) /\ Len(<<>>) = 0 /\ <<>> \in Seq(Option)
  OBVIOUS
<1>4. Laid(t, 0, blk, <<>>)
  BY <1>1, <1>2, <1>3 DEF Laid
<1>5. dhcp_end_option(blk) = 0
  <2>1. dhcp_end_option(blk) = t[0].at - 1
    BY <1>3, <1>4, EndFound, Zenon
  <2>2. QED
    BY <1>2, <2>1
<1>6. QED
  BY <1>2, <1>4, <1>5 DEF Carries

\* The bytes s are copied to the end of a block, for which the options w become v and
\* the fields of the overload options m.
Grows(t, n, blk, w, s, c, v, m) ==
  /\ Laid(t, n, blk, w) /\ s # <<>> /\ t[n].at - 1 + Len(s) < Len(blk)
  /\ c = memcpy(blk, t[n].at - 1, s \o <<END>>)
  /\ Len(w) <= Len(v) /\ (\A i \in 1 .. Len(w) : v[i] = w[i])
  /\ m \in SUBSET {"file", "sname"} /\ t[n].more \subseteq m
  /\ Passes(t[n], [at |-> t[n].at + Len(s), read |-> Len(v), more |-> m], c, v)

\* Bytes that are copied to the end of a block are one more thing to pass.
LEMMA Appended ==
  ASSUME NEW blk \in Seq(Byte), NEW w \in Seq(Option), NEW s \in Seq(Byte), NEW v \in Seq(Option),
         NEW t, NEW n, NEW c, NEW m, Grows(t, n, blk, w, s, c, v, m)
  PROVE  /\ Carries(c, v, m) /\ c \in Seq(Byte) /\ Len(c) = Len(blk)
         /\ dhcp_end_option(c) = dhcp_end_option(blk) + Len(s)
<1> DEFINE a == t[n].at
           y == [at |-> a + Len(s), read |-> Len(v), more |-> m]
           u == [k \in 0 .. n + 1 |-> IF k <= n THEN t[k] ELSE y]
           z == s \o <<END>>
<1>0. /\ Laid(t, n, blk, w) /\ s # <<>> /\ a - 1 + Len(s) < Len(blk)
      /\ c = memcpy(blk, a - 1, s \o <<END>>)
      /\ Len(w) <= Len(v) /\ (\A i \in 1 .. Len(w) : v[i] = w[i])
      /\ m \in SUBSET {"file", "sname"} /\ t[n].more \subseteq m /\ Passes(t[n], y, c, v)
  BY DEF Grows
<1>1. /\ n \in Nat /\ t[0] = [at |-> 1, read |-> 0, more |-> {}]
      /\ \A k \in 0 .. n : /\ t[k] \in Mark /\ t[k].at \in Nat /\ k < t[k].at /\ t[k].at <= a
                           /\ t[k].more \subseteq t[n].more
      /\ \A k \in 1 .. n : Passes(t[k - 1], t[k], blk, w)
      /\ a <= Len(blk) /\ a \in Nat
  BY <1>0 DEF Laid, Mark
<1>2. n \in 0 .. n /\ n < a /\ a - 1 \in Nat /\ Len(s) \in Nat /\ Len(s) > 0 /\ Len(blk) \in Nat
  <2>1. n \in Nat /\ Len(s) \in Nat /\ Len(blk) \in Nat /\ n \in 0 .. n
    BY <1>1
  <2>2. Len(s) > 0
    BY <1>0
  <2>3. a \in Nat /\ n < a
    BY <1>1, <2>1
  <2> HIDE DEF a
  <2>4. QED
    BY <2>1, <2>2, <2>3
<1>3. END \in Byte
  BY DEF END, Byte
<1>4. z \in Seq(Byte) /\ Len(z) = Len(s) + 1 /\ z[Len(s) + 1] = END
  BY <1>3
<1>5. /\ c \in Seq(Byte) /\ Len(c) = Len(blk)
      /\ \A i \in 1 .. Len(blk) : i <= a - 1 => c[i] = blk[i]
      /\ \A i \in 1 .. Len(z) : a - 1 + i <= Len(blk) => c[a - 1 + i] = z[i]
  <2> HIDE DEF z
  <2>1. c = memcpy(blk, a - 1, z)
    BY <1>0 DEF z
  <2> HIDE DEF a
  <2>2. a - 1 \in Nat /\ z \in Seq(Byte)
    BY <1>2, <1>4
  <2>3. /\ memcpy(blk, a - 1, z) \in Seq(Byte) /\ Len(memcpy(blk, a - 1, z)) = Len(blk)
        /\ \A i \in 1 .. Len(blk) : i <= a - 1 => memcpy(blk, a - 1, z)[i] = blk[i]
        /\ \A i \in 1 .. Len(z) : a - 1 + i <= Len(blk) => memcpy(blk, a - 1, z)[a - 1 + i] = z[i]
    BY <2>2, Copied, Zenon
  <2>4. QED
    BY <2>1, <2>3, Zenon
<1>6. c[a + Len(s)] = END
  <2> HIDE DEF a, z
  <2>1. Len(s) + 1 \in 1 .. Len(z) /\ (a - 1) + (Len(s) + 1) = a + Len(s)
    BY <1>1, <1>2, <1>4
  <2>2. a + Len(s) <= Len(blk)
    BY <1>0, <1>1, <1>2
  <2>3. c[(a - 1) + (Len(s) + 1)] = z[Len(s) + 1]
    BY <1>5, <2>1, <2>2
  <2>4. QED
    BY <1>4, <2>1, <2>3
<1>7. y \in Mark /\ y.at = a + Len(s) /\ y.read = Len(v) /\ y.more = m
  BY <1>0, <1>1, <1>2 DEF Mark
<1>8. ASSUME NEW k \in 1 .. n PROVE Passes(t[k - 1], t[k], c, v)
  <2> HIDE DEF a, z, y, u
  <2>1. k - 1 \in 0 .. n /\ k \in 0 .. n
    BY <1>1
  <2>2. /\ t[k - 1] \in Mark /\ t[k] \in Mark /\ 1 <= t[k - 1].at /\ t[k].at <= (a - 1) + 1
        /\ Passes(t[k - 1], t[k], blk, w)
    <3>1. t[k - 1] \in Mark /\ t[k - 1].at \in Nat /\ k - 1 < t[k - 1].at
      BY <1>1, <2>1, Zenon
    <3>2. t[k] \in Mark /\ t[k].at \in Nat /\ t[k].at <= a /\ a \in Nat
      BY <1>1, <2>1, Zenon
    <3>3. Passes(t[k - 1], t[k], blk, w)
      BY <1>1, Zenon
    <3>4. QED
      BY <3>1, <3>2, <3>3
  <2>3. \A i \in 1 .. a - 1 : c[i] = blk[i]
    <3>1. a \in Nat /\ a <= Len(blk) /\ Len(blk) \in Nat
      BY <1>1, <1>2, Zenon
    <3>2. ASSUME NEW i \in 1 .. a - 1 PROVE i \in 1 .. Len(blk) /\ i <= a - 1
      BY <3>1
    <3>3. QED
      BY <1>5, <3>2, Zenon
  <2>4. QED
    BY <1>0, <1>2, <2>2, <2>3, PassesKept
<1>9. Passes(t[n], y, c, v)
  BY <1>0
<1> HIDE DEF y, z
<1>10. /\ \A k \in 0 .. n : u[k] = t[k]
       /\ u[n + 1] = y
  BY <1>1
<1> HIDE DEF u
<1>11. ASSUME NEW k \in 0 .. n + 1
       PROVE  u[k] \in Mark /\ k < u[k].at /\ u[k].at <= y.at /\ u[k].more \subseteq y.more
  <2> HIDE DEF a
  <2>1. CASE k \in 0 .. n
    <3>1. u[k] = t[k] /\ t[k] \in Mark /\ t[k].at \in Nat /\ k < t[k].at /\ t[k].at <= a
      BY <1>1, <1>10, <2>1, Zenon
    <3>2. t[k].more \subseteq t[n].more /\ t[n].more \subseteq m
      BY <1>0, <1>1, <2>1, Zenon
    <3>3. y.at = a + Len(s) /\ y.more = m /\ a \in Nat /\ Len(s) \in Nat
      BY <1>1, <1>2, <1>7, Zenon
    <3>4. u[k].at <= y.at
      BY <3>1, <3>3
    <3>5. QED
      BY <3>1, <3>2, <3>3, <3>4
  <2>2. CASE k = n + 1
    BY <1>1, <1>2, <1>7, <1>10, <2>2
  <2>3. QED
    BY <1>1, <2>1, <2>2
<1>12. ASSUME NEW k \in 1 .. n + 1 PROVE Passes(u[k - 1], u[k], c, v)
  <2> HIDE DEF a
  <2>1. CASE k \in 1 .. n
    <3>1. u[k - 1] = t[k - 1] /\ u[k] = t[k]
      <4>1. k - 1 \in 0 .. n /\ k \in 0 .. n
        BY <1>1, <2>1
      <4>2. QED
        BY <1>10, <4>1, Zenon
    <3>2. QED
      BY <1>8, <2>1, <3>1
  <2>2. CASE k = n + 1
    <3>1. u[k - 1] = t[n] /\ u[k] = y
      BY <1>1, <1>2, <1>10, <2>2
    <3>2. QED
      BY <1>9, <3>1
  <2>3. QED
    BY <1>1, <2>1, <2>2
<1>13. Laid(u, n + 1, c, v)
  <2>1. n + 1 \in Nat /\ u[0] = [at |-> 1, read |-> 0, more |-> {}]
    BY <1>1, <1>10
  <2>2. y.at <= Len(c) /\ c[y.at] = END /\ y.read = Len(v)
    BY <1>0, <1>1, <1>2, <1>5, <1>6, <1>7
  <2> HIDE DEF a
  <2>3. QED
    BY <1>10, <1>11, <1>12, <2>1, <2>2 DEF Laid
<1>14. dhcp_end_option(blk) = a - 1 /\ dhcp_end_option(c) = u[n + 1].at - 1
  BY <1>0, <1>5, <1>13, EndFound
<1>15. Carries(c, v, m)
  BY <1>7, <1>10, <1>13 DEF Carries
<1>16. QED
  BY <1>1, <1>2, <1>5, <1>7, <1>10, <1>14, <1>15

\* One more option, padding, or overload option.
LEMMA OptionPut ==
  ASSUME NEW blk \in Seq(Byte), NEW w \in Seq(Option), NEW m, Carries(blk, w, m), NEW o \in Option,
         NEW e, e = dhcp_end_option(blk), e + Len(Bytes(o)) < Len(blk),
         NEW c, c = memcpy(blk, e, Bytes(o) \o <<END>>)
  PROVE  /\ Carries(c, Append(w, o), m) /\ c \in Seq(Byte) /\ Len(c) = Len(blk)
         /\ dhcp_end_option(c) = e + 2 + Len(o.data)
<1>1. PICK t, n : Laid(t, n, blk, w) /\ t[n].more = m
  BY DEF Carries
<1> DEFINE s == Bytes(o)
           v == Append(w, o)
           a == t[n].at
           y == [at |-> a + Len(s), read |-> Len(v), more |-> m]
           z == s \o <<END>>
<1>2. e = a - 1 /\ a \in 1 .. Len(blk) /\ a \in Nat /\ e \in Nat
  <2>1. e = a - 1 /\ a \in 1 .. Len(blk)
    BY <1>1, EndFound
  <2> HIDE DEF a
  <2>2. QED
    BY <2>1
<1>3. /\ s \in Seq(Byte) /\ Len(s) = 2 + Len(o.data) /\ s[1] = o.code /\ s[2] = Len(o.data)
      /\ Len(o.data) \in Nat /\ \A i \in 1 .. Len(o.data) : s[2 + i] = o.data[i]
  BY OptionBytes DEF Byte
<1>4. /\ v \in Seq(Option) /\ Len(v) = Len(w) + 1 /\ v[Len(w) + 1] = o
      /\ \A i \in 1 .. Len(w) : v[i] = w[i]
  OBVIOUS
<1>5. n \in Nat /\ t[n] \in Mark /\ t[n].read = Len(w) /\ m \in SUBSET {"file", "sname"} /\ Len(w) \in Nat
  <2>1. n \in Nat /\ n \in 0 .. n
    BY <1>1 DEF Laid
  <2>2. t[n] \in Mark /\ t[n].read = Len(w)
    BY <1>1, <2>1 DEF Laid
  <2>3. QED
    BY <1>1, <2>1, <2>2 DEF Mark
<1> HIDE DEF s, v
<1>6. END \in Byte
  BY DEF END, Byte
<1>7. z \in Seq(Byte) /\ Len(z) = Len(s) + 1 /\ \A i \in 1 .. Len(s) : z[i] = s[i]
  BY <1>3, <1>6
<1>8. \A i \in 1 .. Len(s) : c[e + i] = s[i]
  <2>1. c = memcpy(blk, e, z)
    BY DEF s
  <2> HIDE DEF a, z
  <2>2. e \in Nat /\ Len(blk) \in Nat /\ Len(s) \in Nat /\ e + Len(s) < Len(blk)
    BY <1>2, <1>3 DEF s
  <2>3. \A i \in 1 .. Len(z) : e + i <= Len(blk) => c[e + i] = z[i]
    BY <1>7, <2>1, <2>2, Copied
  <2>4. ASSUME NEW i \in 1 .. Len(s) PROVE c[e + i] = s[i]
    <3>1. i \in 1 .. Len(z) /\ e + i <= Len(blk)
      BY <1>7, <2>2
    <3>2. QED
      BY <1>7, <2>3, <3>1
  <2>5. QED
    BY <2>4
<1> HIDE DEF z
<1>9. Passes(t[n], y, c, v)
  <2>1. /\ y.at = a + 2 + Len(o.data) /\ y.read = t[n].read + 1 /\ y.read <= Len(v)
        /\ y.more = t[n].more /\ v[y.read] = o
    <3> HIDE DEF a
    <3>1. y.at = a + Len(s) /\ y.read = Len(v) /\ y.more = m
      OBVIOUS
    <3> HIDE DEF y
    <3>2. a \in Nat
      BY <1>2
    <3>3. y.at = a + 2 + Len(o.data)
      <4> DEFINE l == Len(o.data)
      <4>1. y.at = a + Len(s) /\ Len(s) = 2 + l /\ l \in Nat
        BY <1>3, <3>1, Zenon
      <4> HIDE DEF l
      <4>2. y.at = a + 2 + l
        BY <3>2, <4>1
      <4>3. QED
        BY <4>2 DEF l
    <3>4. y.read = t[n].read + 1 /\ y.read <= Len(v)
      BY <1>4, <1>5, <3>1
    <3>5. QED
      BY <1>1, <1>4, <3>1, <3>3, <3>4
  <2>2. c[a] = o.code /\ c[a + 1] = Len(o.data)
    <3> HIDE DEF a
    <3>1. 1 \in 1 .. Len(s) /\ 2 \in 1 .. Len(s) /\ e + 1 = a /\ e + 2 = a + 1
      BY <1>2, <1>3
    <3>2. QED
      BY <1>3, <1>8, <3>1
  <2>3. ASSUME NEW i \in 1 .. Len(o.data) PROVE c[a + 1 + i] = o.data[i]
    <3> HIDE DEF a
    <3>1. 2 + i \in 1 .. Len(s) /\ e + (2 + i) = a + 1 + i
      BY <1>2, <1>3
    <3>2. QED
      BY <1>3, <1>8, <3>1
  <2> HIDE DEF y
  <2>4. QED
    BY <2>1, <2>2, <2>3 DEF Passes
<1>10. s # <<>> /\ a - 1 + Len(s) < Len(blk) /\ Len(w) <= Len(v) /\ t[n].more \subseteq m
  BY <1>1, <1>2, <1>3, <1>4, <1>5 DEF s
<1>11. c = memcpy(blk, a - 1, s \o <<END>>)
  BY <1>2 DEF s
<1>12. Grows(t, n, blk, w, s, c, v, m)
  BY <1>1, <1>4, <1>5, <1>9, <1>10, <1>11, Zenon DEF Grows
<1> HIDE DEF a, y
<1>13. /\ Carries(c, v, m) /\ c \in Seq(Byte) /\ Len(c) = Len(blk)
       /\ dhcp_end_option(c) = dhcp_end_option(blk) + Len(s)
  BY <1>3, <1>4, <1>12, Appended
<1>14. e + (2 + Len(o.data)) = e + 2 + Len(o.data)
  <2> DEFINE l == Len(o.data)
  <2>1. l \in Nat /\ e \in Nat
    BY <1>2, <1>3, Zenon
  <2> HIDE DEF l
  <2>2. e + (2 + l) = e + 2 + l
    BY <2>1
  <2>3. QED
    BY <2>2 DEF l
<1>15. QED
  BY <1>3, <1>13, <1>14, Zenon DEF v

\* A padding is copied to the end of a block.
LEMMA PaddingPut ==
  ASSUME NEW blk \in Seq(Byte), NEW w \in Seq(Option), NEW m, Carries(blk, w, m),
         NEW e, e = dhcp_end_option(blk), e + 1 < Len(blk),
         NEW c, c = memcpy(blk, e, <<PADDING>> \o <<END>>)
  PROVE  Carries(c, w, m) /\ c \in Seq(Byte) /\ Len(c) = Len(blk)
<1>1. PICK t, n : Laid(t, n, blk, w) /\ t[n].more = m
  BY DEF Carries
<1> DEFINE s == <<PADDING>>
           a == t[n].at
           y == [at |-> a + Len(s), read |-> Len(w), more |-> m]
<1>2. e = a - 1 /\ a \in 1 .. Len(blk) /\ a \in Nat /\ e \in Nat /\ e + 1 = a
  <2>1. e = a - 1 /\ a \in 1 .. Len(blk)
    BY <1>1, EndFound
  <2> HIDE DEF a
  <2>2. QED
    BY <2>1
<1>3. /\ s \in Seq(Byte) /\ s # <<>> /\ Len(s) = 1 /\ s \o <<END>> \in Seq(Byte)
      /\ Len(s \o <<END>>) = 2 /\ (s \o <<END>>)[1] = PADDING
  BY DEF PADDING, END, Byte
<1>4. n \in Nat /\ t[n] \in Mark /\ t[n].read = Len(w) /\ m \in SUBSET {"file", "sname"} /\ Len(w) \in Nat
  <2>1. n \in Nat /\ n \in 0 .. n
    BY <1>1 DEF Laid
  <2>2. t[n] \in Mark /\ t[n].read = Len(w)
    BY <1>1, <2>1 DEF Laid
  <2>3. QED
    BY <1>1, <2>1, <2>2 DEF Mark
<1> HIDE DEF s
<1>5. c[a] = PADDING
  <2> DEFINE z == s \o <<END>>
  <2> HIDE DEF z, a
  <2>1. c = memcpy(blk, e, z)
    BY DEF z, s
  <2>2. /\ z \in Seq(Byte) /\ 1 \in 1 .. Len(z) /\ z[1] = PADDING
    BY <1>3 DEF z
  <2>3. \A i \in 1 .. Len(z) : e + i <= Len(blk) => c[e + i] = z[i]
    <3>1. e \in Nat
      BY <1>2, Zenon
    <3>2. \A i \in 1 .. Len(z) : e + i <= Len(blk) => memcpy(blk, e, z)[e + i] = z[i]
      BY <2>2, <3>1, Copied, Zenon
    <3>3. QED
      BY <2>1, <3>2, Zenon
  <2>4. 1 \in 1 .. Len(z) /\ e + 1 <= Len(blk) /\ e + 1 = a
    BY <1>2, <2>2
  <2>5. QED
    BY <2>2, <2>3, <2>4, Zenon
<1>6. Passes(t[n], y, c, w)
  <2>1. y.at = a + 1 /\ y.read = t[n].read /\ y.more = t[n].more
    BY <1>1, <1>3, <1>4
  <2> HIDE DEF y
  <2>2. QED
    BY <1>5, <2>1 DEF Passes
<1>7. Grows(t, n, blk, w, s, c, w, m)
  <2>1. a - 1 + Len(s) < Len(blk) /\ Len(w) <= Len(w) /\ t[n].more \subseteq m
    BY <1>1, <1>2, <1>3, <1>4
  <2>2. c = memcpy(blk, a - 1, s \o <<END>>)
    BY <1>2 DEF s
  <2>3. \A i \in 1 .. Len(w) : w[i] = w[i]
    OBVIOUS
  <2>4. QED
    BY <1>1, <1>3, <1>4, <1>6, <2>1, <2>2, <2>3, Zenon DEF Grows
<1> HIDE DEF a, y
<1>8. QED
  BY <1>3, <1>7, Appended

\* What the byte of an overload option can name.
LEMMA FieldsType == ASSUME NEW b PROVE Fields(b) \in SUBSET {"file", "sname"}
BY DEF Fields

\* An overload option with byte b at the end e of a block.
Overloads(blk, w, m, b, e, c) ==
  /\ blk \in Seq(Byte) /\ w \in Seq(Option) /\ Carries(blk, w, m) /\ b \in 1 .. 3
  /\ e = dhcp_end_option(blk) /\ e + 4 <= Len(blk)
  /\ c = memcpy(blk, e, <<OVERLOAD, 1, b>> \o <<END>>)

\* An overload option is copied to the end of a block.
LEMMA OverloadPut ==
  ASSUME NEW blk, NEW w, NEW m, NEW b, NEW e, NEW c, Overloads(blk, w, m, b, e, c)
  PROVE  Carries(c, w, m \cup Fields(b)) /\ c \in Seq(Byte) /\ Len(c) = Len(blk)
<1>0. /\ blk \in Seq(Byte) /\ w \in Seq(Option) /\ Carries(blk, w, m) /\ b \in 1 .. 3
      /\ e = dhcp_end_option(blk) /\ e + 4 <= Len(blk)
      /\ c = memcpy(blk, e, <<OVERLOAD, 1, b>> \o <<END>>)
  BY DEF Overloads
<1>1. PICK t, n : Laid(t, n, blk, w) /\ t[n].more = m
  BY <1>0 DEF Carries
<1> DEFINE s == <<OVERLOAD, 1, b>>
           a == t[n].at
           f == m \cup Fields(b)
           y == [at |-> a + Len(s), read |-> Len(w), more |-> f]
<1>2. /\ e = a - 1 /\ a \in 1 .. Len(blk) /\ a \in Nat /\ e \in Nat
      /\ e + 1 = a /\ e + 2 = a + 1 /\ e + 3 = a + 2
  <2>1. e = a - 1 /\ a \in 1 .. Len(blk)
    BY <1>0, <1>1, EndFound
  <2> HIDE DEF a
  <2>2. QED
    BY <2>1
<1>3. /\ s \in Seq(Byte) /\ s # <<>> /\ Len(s) = 3
      /\ s \o <<END>> \in Seq(Byte) /\ Len(s \o <<END>>) = 4 /\ \A i \in 1 .. 3 : (s \o <<END>>)[i] = s[i]
      /\ s[1] = OVERLOAD /\ s[2] = 1 /\ s[3] = b
  <2>1. OVERLOAD \in Byte /\ 1 \in Byte /\ b \in Byte /\ END \in Byte
    BY <1>0 DEF OVERLOAD, END, Byte
  <2>2. s \in Seq(Byte) /\ s # <<>> /\ Len(s) = 3 /\ s[1] = OVERLOAD /\ s[2] = 1 /\ s[3] = b
    BY <2>1
  <2> HIDE DEF s
  <2>3. /\ s \o <<END>> \in Seq(Byte) /\ Len(s \o <<END>>) = 4
        /\ \A i \in 1 .. 3 : (s \o <<END>>)[i] = s[i]
    <3> DEFINE x == <<END>>
    <3>1. x \in Seq(Byte) /\ Len(x) = 1
      BY <2>1
    <3> HIDE DEF x
    <3>2. /\ s \o x \in Seq(Byte) /\ Len(s \o x) = Len(s) + Len(x)
          /\ \A i \in 1 .. Len(s) + Len(x) : (s \o x)[i] = IF i <= Len(s) THEN s[i] ELSE x[i - Len(s)]
      BY <2>2, <3>1, ConcatProperties, Zenon
    <3>3. QED
      BY <2>2, <3>1, <3>2 DEF x
  <2>4. QED
    BY <2>2, <2>3
<1>4. n \in Nat /\ t[n] \in Mark /\ t[n].read = Len(w) /\ m \in SUBSET {"file", "sname"} /\ Len(w) \in Nat
  <2>1. n \in Nat /\ n \in 0 .. n
    BY <1>1 DEF Laid
  <2>2. t[n] \in Mark /\ t[n].read = Len(w)
    BY <1>1, <2>1 DEF Laid
  <2>3. QED
    BY <1>0, <1>1, <2>1, <2>2 DEF Mark
<1> HIDE DEF s
<1>5. c[a] = OVERLOAD /\ c[a + 1] = 1 /\ c[a + 2] = b
  <2> DEFINE z == s \o <<END>>
  <2>1. c = memcpy(blk, e, z)
    BY <1>0 DEF s
  <2>2. /\ z \in Seq(Byte) /\ Len(z) = 4 /\ z[1] = OVERLOAD /\ z[2] = 1 /\ z[3] = b
    BY <1>3
  <2> HIDE DEF z, a
  <2>3. \A i \in 1 .. Len(z) : e + i <= Len(blk) => c[e + i] = z[i]
    <3>1. e \in Nat
      BY <1>2, Zenon
    <3>2. \A i \in 1 .. Len(z) : e + i <= Len(blk) => memcpy(blk, e, z)[e + i] = z[i]
      BY <1>0, <2>2, <3>1, Copied, Zenon
    <3>3. QED
      BY <2>1, <3>2, Zenon
  <2>4. QED
    BY <1>0, <1>2, <2>2, <2>3
<1>6. Passes(t[n], y, c, w)
  <2>1. y.at = a + 3 /\ y.read = t[n].read /\ y.more = t[n].more \cup Fields(c[a + 2])
    BY <1>1, <1>3, <1>4, <1>5
  <2> HIDE DEF y
  <2>2. QED
    BY <1>5, <2>1 DEF Passes
<1>7. Grows(t, n, blk, w, s, c, w, f)
  <2>1. a - 1 + Len(s) < Len(blk) /\ Len(w) <= Len(w) /\ t[n].more \subseteq f /\ f \in SUBSET {"file", "sname"}
    <3>1. t[n].more \subseteq f /\ f \in SUBSET {"file", "sname"}
      BY <1>1, <1>4, FieldsType
    <3> HIDE DEF a, f
    <3>2. a \in Nat /\ Len(s) = 3 /\ e + 4 <= Len(blk) /\ e = a - 1 /\ Len(w) \in Nat
      BY <1>0, <1>2, <1>3, <1>4, Zenon
    <3>3. a - 1 + Len(s) < Len(blk) /\ Len(w) <= Len(w)
      BY <3>2
    <3>4. QED
      BY <3>1, <3>3
  <2>2. c = memcpy(blk, a - 1, s \o <<END>>)
    BY <1>0, <1>2 DEF s
  <2>3. \A i \in 1 .. Len(w) : w[i] = w[i]
    OBVIOUS
  <2>4. QED
    BY <1>1, <1>3, <1>6, <2>1, <2>2, <2>3, Zenon DEF Grows
<1> HIDE DEF a, y, f
<1>8. Carries(c, w, f) /\ c \in Seq(Byte) /\ Len(c) = Len(blk)
  BY <1>0, <1>3, <1>7, Appended
<1>9. QED
  BY <1>8 DEF f

-----------------------------------------------------------------------------
\* What is at a mark, is what the loop returns.
LEMMA DataFound ==
  ASSUME NEW blk \in Seq(Byte), NEW d \in Seq(Byte), NEW a \in Nat, 1 <= a, a + 1 + Len(d) <= Len(blk),
         \A i \in 1 .. Len(d) : blk[a + 1 + i] = d[i]
  PROVE  SubSeq(blk, a + 2, a + 1 + Len(d)) = d
<1> DEFINE l == Len(d)
           s == SubSeq(blk, a + 2, a + 1 + l)
<1>1. l \in Nat /\ Len(blk) \in Nat /\ a + 1 + l <= Len(blk)
  OBVIOUS
<1> HIDE DEF l
<1>2. /\ a + 2 \in 1 .. Len(blk) + 1 /\ a + 1 + l \in (a + 2) - 1 .. Len(blk)
      /\ (a + 1 + l) - (a + 2) + 1 = l
  BY <1>1
<1>3. s \in Seq(Byte) /\ Len(s) = l
  BY <1>1, <1>2
<1>4. ASSUME NEW i \in 1 .. l PROVE s[i] = d[i]
  <2>1. s[i] = blk[(a + 2) + i - 1] /\ (a + 2) + i - 1 = a + 1 + i
    BY <1>1, <1>2
  <2>2. QED
    BY <2>1 DEF l
<1> HIDE DEF s
<1>5. s = d
  BY <1>3, <1>4, SeqEqual DEF l
<1>6. QED
  BY <1>5 DEF s, l

\* Marks inside of a block.
Inside(x, y, blk, w) ==
  x \in Mark /\ y \in Mark /\ Passes(x, y, blk, w) /\ 1 <= x.at /\ y.at <= Len(blk)

\* The round z = round(.., looks(f, x.at, m \cup x.more)) passes what is at a mark, or
\* returns it.
Searches(z, f, w, x, y, code, m) ==
  \/ /\ y.read = x.read \/ (y.read = x.read + 1 /\ w[y.read].code # code)
     /\ z = looks(f, y.at, m \cup y.more)
  \/ /\ y.read = x.read + 1 /\ y.read <= Len(w) /\ w[y.read].code = code
     /\ z = returns(<<w[y.read].data>>)

\* One round of the loop passes what is at a mark, or returns its data.
LEMMA RoundPasses ==
  ASSUME NEW p, NEW f, p[f] \in Seq(Byte), NEW w \in Seq(Option), NEW x, NEW y,
         Inside(x, y, p[f], w), NEW code \in Byte \ {PADDING, END, OVERLOAD}, NEW m
  PROVE  Searches(round(p, code, looks(f, x.at, m \cup x.more)), f, w, x, y, code, m)
<1> DEFINE a == x.at
           k == m \cup x.more
           s == looks(f, a, k)
           blk == p[f]
<1>0. blk \in Seq(Byte) /\ x \in Mark /\ y \in Mark /\ Passes(x, y, blk, w) /\ 1 <= a /\ y.at <= Len(blk)
  BY DEF Inside
<1> HIDE DEF blk
<1>1. s.field = f /\ s.at = a /\ s.more = k /\ s.on = TRUE
  BY DEF looks
<1>2. /\ a \in Nat /\ y.at \in Nat /\ x.read \in Nat /\ y.read \in Nat /\ Len(blk) \in Nat /\ Len(w) \in Nat
      /\ code # PADDING /\ code # END /\ code # OVERLOAD /\ 1 <= a
  BY <1>0 DEF Mark
<1>3. PADDING = 0 /\ END = 255 /\ OVERLOAD = 52
  BY DEF PADDING, END, OVERLOAD
<1>4. a <= Len(blk) => ~(a > Len(blk))
  BY <1>2
<1> HIDE DEF s, a, k
<1>5. CASE /\ blk[a] = PADDING
           /\ y.at = a + 1 /\ y.read = x.read /\ y.more = x.more
  <2>1. a <= Len(blk)
    BY <1>0, <1>2, <1>5
  <2>2. round(p, code, s) = looks(f, a + 1, k)
    BY <1>1, <1>4, <1>5, <2>1 DEF round, blk
  <2>3. QED
    BY <1>5, <2>2 DEF s, a, k, Searches
<1>6. CASE /\ blk[a] = OVERLOAD /\ blk[a + 1] = 1
           /\ y.at = a + 3 /\ y.read = x.read /\ y.more = x.more \cup Fields(blk[a + 2])
  <2> DEFINE next == a + 2 + blk[a + 1]
  <2>1. a <= Len(blk) /\ next = a + 3 /\ ~(next > Len(blk) + 1)
    BY <1>0, <1>2, <1>6
  <2>2. round(p, code, s) = looks(f, a + 3, k \cup Fields(blk[a + 2]))
    <3>1. blk[a] # PADDING /\ blk[a] # END /\ blk[a] # code
      BY <1>2, <1>3, <1>6
    <3>2. round(p, code, s) = looks(f, next, k \cup Fields(blk[a + 2]))
      BY <1>1, <1>4, <1>6, <2>1, <3>1 DEF round, blk
    <3>3. QED
      BY <2>1, <3>2
  <2>3. k \cup Fields(blk[a + 2]) = m \cup y.more
    BY <1>6 DEF k
  <2>4. QED
    BY <1>6, <2>2, <2>3 DEF s, a, k, Searches
<1>7. CASE /\ y.read = x.read + 1 /\ y.read <= Len(w) /\ y.more = x.more
           /\ blk[a] = w[y.read].code /\ blk[a + 1] = Len(w[y.read].data)
           /\ y.at = a + 2 + Len(w[y.read].data)
           /\ \A i \in 1 .. Len(w[y.read].data) : blk[a + 1 + i] = w[y.read].data[i]
  <2> DEFINE d == w[y.read].data
             c == w[y.read].code
             l == Len(d)
             next == a + 2 + blk[a + 1]
  <2>1. y.read \in 1 .. Len(w)
    BY <1>2, <1>7
  <2>2. d \in Seq(Byte) /\ l \in Nat /\ c \notin {PADDING, END, OVERLOAD}
    BY <2>1, ListedOption
  <2>3. blk[a] = c /\ blk[a + 1] = l /\ y.at = a + 2 + l /\ \A i \in 1 .. Len(d) : blk[a + 1 + i] = d[i]
    BY <1>7
  <2> HIDE DEF c, l
  <2>4. a <= Len(blk) /\ next = a + 2 + l /\ ~(next > Len(blk) + 1) /\ next - 1 = a + 1 + l /\ a + 1 + l <= Len(blk)
    BY <1>0, <1>2, <2>2, <2>3
  <2>5. blk[a] # PADDING /\ blk[a] # END /\ blk[a] # OVERLOAD
    BY <2>2, <2>3
  <2>6. CASE c = code
    <3>1. SubSeq(blk, a + 2, next - 1) = d
      <4>1. SubSeq(blk, a + 2, a + 1 + Len(d)) = d
        <5> HIDE DEF d
        <5>1. QED
          BY <1>0, <1>2, <2>2, <2>3, <2>4, DataFound DEF l
      <4>2. QED
        BY <2>4, <4>1 DEF l
    <3> HIDE DEF d
    <3>2. round(p, code, s) = returns(<<SubSeq(blk, a + 2, next - 1)>>)
      BY <1>1, <1>4, <2>3, <2>4, <2>5, <2>6 DEF round, blk
    <3>3. round(p, code, s) = returns(<<d>>)
      BY <3>1, <3>2
    <3>4. QED
      BY <1>7, <2>6, <3>3 DEF s, a, k, c, d, Searches
  <2>7. CASE c # code
    <3>1. round(p, code, s) = looks(f, next, k)
      BY <1>1, <1>4, <2>3, <2>4, <2>5, <2>7 DEF round, blk
    <3>2. round(p, code, s) = looks(f, a + 2 + l, k)
      BY <2>4, <3>1
    <3>3. QED
      BY <1>7, <2>3, <2>7, <3>2 DEF s, a, k, c, Searches
  <2>8. QED
    BY <2>6, <2>7
<1>8. QED
  BY <1>0, <1>5, <1>6, <1>7 DEF Passes, a

\* The loop from the first round to round n.
Rounds(a, n, p, code) ==
  a[0] = looks("options", 1, {}) /\ \A k \in 1 .. n : a[k] = round(p, code, a[k - 1])

\* The bytes of a packet's fields.
Size(p) == Len(p["options"]) + Len(p["file"]) + Len(p["sname"])

\* dhcp_get_option returns what the loop has come to after its rounds.
LEMMA RoundsTaken ==
  ASSUME NEW p, NEW code, NEW n \in Nat, n = Size(p)
  PROVE  \E a : Rounds(a, n, p, code) /\ dhcp_get_option(p, code) = a[n].found
<1> DEFINE first == looks("options", 1, {})
           G(i, g) == g = [k \in 0 .. i |-> IF k = 0 THEN first ELSE round(p, code, g[k - 1])]
           T == {i \in Nat : \E g : G(i, g)}
           c == CHOOSE g : G(n, g)
<1>1. 0 \in T
  <2> DEFINE g == [k \in 0 .. 0 |-> first]
  <2>1. G(0, g)
    OBVIOUS
  <2>2. QED
    BY <2>1
<1>2. ASSUME NEW i \in T PROVE i + 1 \in T
  <2>1. PICK g : G(i, g)
    OBVIOUS
  <2> DEFINE h == [k \in 0 .. i + 1 |-> IF k = i + 1 THEN round(p, code, g[i]) ELSE g[k]]
             e == [k \in 0 .. i + 1 |-> IF k = 0 THEN first ELSE round(p, code, h[k - 1])]
  <2> HIDE DEF first
  <2>2. ASSUME NEW k \in 0 .. i + 1 PROVE h[k] = e[k]
    <3>1. CASE k = 0
      BY <2>1, <3>1
    <3>2. CASE k \in 1 .. i
      <4>1. k - 1 \in 0 .. i /\ k \in 0 .. i /\ k # 0 /\ k # i + 1 /\ k - 1 # i + 1
        BY <3>2
      <4>2. h[k] = g[k] /\ h[k - 1] = g[k - 1] /\ g[k] = round(p, code, g[k - 1])
        BY <2>1, <4>1
      <4>3. QED
        BY <4>1, <4>2
    <3>3. CASE k = i + 1
      <4>1. k # 0 /\ k - 1 = i /\ i \in 0 .. i + 1 /\ i # i + 1
        BY <3>3
      <4>2. h[k] = round(p, code, g[i]) /\ h[k - 1] = g[i]
        BY <3>3, <4>1
      <4>3. QED
        BY <4>1, <4>2
    <3>4. QED
      BY <3>1, <3>2, <3>3
  <2>3. h = [k \in 0 .. i + 1 |-> h[k]] /\ e = [k \in 0 .. i + 1 |-> e[k]]
    OBVIOUS
  <2> HIDE DEF h
  <2>4. h = e
    <3> HIDE DEF e
    <3>1. QED
      BY <2>2, <2>3
  <2>5. G(i + 1, h)
    BY <2>4
  <2>6. QED
    BY <2>5
<1>3. n \in T
  <2>1. T \subseteq Nat
    OBVIOUS
  <2> HIDE DEF T
  <2>2. QED
    BY <1>1, <1>2, <2>1, SetInduction, Zenon
<1>4. G(n, c)
  BY <1>3
<1>5. dhcp_get_option(p, code) = c[n].found
  BY DEF dhcp_get_option, Size
<1> HIDE DEF c, first
<1>6. Rounds(c, n, p, code)
  <2>1. c[0] = first
    <3>1. 0 \in 0 .. n
      OBVIOUS
    <3>2. QED
      BY <1>4, <3>1
  <2>2. ASSUME NEW k \in 1 .. n PROVE c[k] = round(p, code, c[k - 1])
    BY <1>4
  <2>3. QED
    BY <2>1, <2>2 DEF Rounds, first
<1>7. QED
  BY <1>5, <1>6

\* Once it has returned the loop goes no further.
LEMMA StaysReturned ==
  ASSUME NEW a, NEW n \in Nat, NEW p, NEW code, Rounds(a, n, p, code), NEW r \in 0 .. n, NEW d,
         a[r] = returns(d)
  PROVE  a[n].found = d
<1> DEFINE T == {i \in Nat : r + i <= n => a[r + i] = returns(d)}
<1>1. round(p, code, returns(d)) = returns(d) /\ returns(d).found = d
  BY DEF round, returns
<1>2. 0 \in T
  OBVIOUS
<1>3. ASSUME NEW i \in T PROVE i + 1 \in T
  <2>1. CASE r + (i + 1) <= n
    <3>1. r + (i + 1) \in 1 .. n /\ (r + (i + 1)) - 1 = r + i /\ r + i <= n
      BY <2>1
    <3>2. a[r + (i + 1)] = round(p, code, a[r + i])
      BY <3>1 DEF Rounds
    <3>3. QED
      BY <1>1, <3>1, <3>2
  <2>2. QED
    BY <2>1
<1>4. n - r \in T
  <2>1. T \subseteq Nat /\ n - r \in Nat
    OBVIOUS
  <2> HIDE DEF T
  <2>2. QED
    BY <1>2, <1>3, <2>1, SetInduction, Zenon
<1>5. a[n] = returns(d)
  <2>1. r + (n - r) = n
    OBVIOUS
  <2>2. QED
    BY <1>4, <2>1
<1>6. QED
  BY <1>1, <1>5

\* What is found in the options w: the first with the code, or nothing.
First(w, code, i) ==
  i \in 1 .. Len(w) /\ w[i].code = code /\ \A j \in 1 .. i - 1 : w[j].code # code

Lacks(w, code, i) == \A j \in 1 .. i : w[j].code # code

Found(w, code, d) == \E i : First(w, code, i) /\ d = <<w[i].data>>

Answer(w, code, d) == (Lacks(w, code, Len(w)) /\ d = <<>>) \/ Found(w, code, d)

\* A field is searched to its end, or the option is found in it.
LEMMA FieldSearched ==
  ASSUME NEW a, NEW n \in Nat, NEW p, NEW code \in Byte \ {PADDING, END, OVERLOAD}, Rounds(a, n, p, code),
         NEW f, NEW blk \in Seq(Byte), blk = p[f], NEW w \in Seq(Option), NEW t, NEW e, Laid(t, e, blk, w),
         NEW m, NEW r \in Nat, r + e <= n, a[r] = looks(f, 1, m)
  PROVE  \/ Lacks(w, code, Len(w)) /\ a[r + e] = looks(f, t[e].at, m \cup t[e].more)
         \/ Found(w, code, a[n].found)
<1> SUFFICES ASSUME ~Found(w, code, a[n].found)
             PROVE  Lacks(w, code, Len(w)) /\ a[r + e] = looks(f, t[e].at, m \cup t[e].more)
  OBVIOUS
<1> DEFINE T == {k \in Nat : k <= e => Lacks(w, code, t[k].read) /\ a[r + k] = looks(f, t[k].at, m \cup t[k].more)}
<1>1. /\ e \in Nat /\ t[0] = [at |-> 1, read |-> 0, more |-> {}] /\ t[e].read = Len(w)
      /\ \A k \in 0 .. e : t[k] \in Mark /\ t[k].at \in Nat /\ t[k].read \in Nat /\ k < t[k].at /\ t[k].at <= t[e].at
      /\ \A k \in 1 .. e : Passes(t[k - 1], t[k], blk, w)
      /\ t[e].at <= Len(blk) /\ Len(w) \in Nat
  BY DEF Laid, Mark
<1>2. 0 \in T
  <2>1. t[0].at = 1 /\ t[0].read = 0 /\ m \cup t[0].more = m /\ r + 0 = r
    BY <1>1
  <2>2. Lacks(w, code, 0)
    BY DEF Lacks
  <2>3. QED
    BY <2>1, <2>2
<1>3. ASSUME NEW k \in T PROVE k + 1 \in T
  <2>1. CASE k + 1 <= e
    <3> DEFINE x == t[k]
               y == t[k + 1]
    <3>1. k \in 0 .. e /\ k + 1 \in 0 .. e /\ k + 1 \in 1 .. e /\ (k + 1) - 1 = k
      BY <1>1, <2>1
    <3>2. /\ x \in Mark /\ y \in Mark /\ Passes(x, y, blk, w)
          /\ x.read \in Nat /\ y.read \in Nat /\ x.at \in Nat /\ y.at \in Nat
      <4>1. Passes(t[(k + 1) - 1], t[k + 1], blk, w)
        BY <1>1, <3>1, Zenon
      <4>2. QED
        BY <1>1, <3>1, <4>1
    <3>3. 1 <= x.at /\ y.at <= Len(blk)
      <4>1. k < t[k].at /\ t[k].at \in Nat /\ t[k + 1].at <= t[e].at /\ t[k + 1].at \in Nat /\ t[e].at \in Nat
        BY <1>1, <3>1
      <4> HIDE DEF T, x, y
      <4>2. k \in Nat /\ t[e].at <= Len(blk) /\ Len(blk) \in Nat
        BY <1>1, <3>1
      <4>3. QED
        BY <4>1, <4>2 DEF x, y
    <3>4. r + (k + 1) \in 1 .. n /\ (r + (k + 1)) - 1 = r + k
      <4>1. k \in Nat /\ e \in Nat /\ k + 1 <= e
        BY <1>1, <2>1
      <4> HIDE DEF T
      <4>2. QED
        BY <4>1
    <3>5. Lacks(w, code, x.read) /\ a[r + k] = looks(f, x.at, m \cup x.more)
      BY <2>1, <1>1
    <3>6. a[r + (k + 1)] = round(p, code, looks(f, x.at, m \cup x.more))
      BY <3>4, <3>5 DEF Rounds
    <3> HIDE DEF x, y
    <3>7. CASE /\ y.read = x.read \/ (y.read = x.read + 1 /\ w[y.read].code # code)
               /\ round(p, code, looks(f, x.at, m \cup x.more)) = looks(f, y.at, m \cup y.more)
      <4>1. Lacks(w, code, y.read)
        BY <3>2, <3>5, <3>7 DEF Lacks
      <4>2. QED
        BY <3>6, <3>7, <4>1 DEF y
    <3>8. CASE /\ y.read = x.read + 1 /\ y.read <= Len(w) /\ w[y.read].code = code
               /\ round(p, code, looks(f, x.at, m \cup x.more)) = returns(<<w[y.read].data>>)
      <4>1. First(w, code, y.read)
        <5>1. y.read \in 1 .. Len(w) /\ y.read - 1 = x.read
          <6>1. x.read \in Nat /\ y.read = x.read + 1 /\ y.read <= Len(w) /\ Len(w) \in Nat
            BY <1>1, <3>2, <3>8
          <6>2. QED
            BY <6>1
        <5>2. QED
          BY <3>5, <3>8, <5>1 DEF First, Lacks
      <4>2. r + (k + 1) \in 0 .. n
        BY <3>4
      <4>3. a[r + (k + 1)] = returns(<<w[y.read].data>>)
        BY <3>6, <3>8
      <4>4. a[n].found = <<w[y.read].data>>
        BY <4>2, <4>3, StaysReturned
      <4>5. QED
        BY <4>1, <4>4 DEF Found
    <3>9. Searches(round(p, code, looks(f, x.at, m \cup x.more)), f, w, x, y, code, m)
      <4>1. Inside(x, y, p[f], w) /\ p[f] \in Seq(Byte)
        BY <3>2, <3>3 DEF Inside
      <4>2. QED
        BY <4>1, RoundPasses
    <3>10. QED
      BY <3>7, <3>8, <3>9 DEF Searches
  <2>2. QED
    BY <2>1
<1>4. e \in T
  <2>1. T \subseteq Nat
    OBVIOUS
  <2> HIDE DEF T
  <2>2. QED
    BY <1>1, <1>2, <1>3, <2>1, SetInduction, Zenon
<1>5. QED
  BY <1>1, <1>4

\* What is found in two lists of options, one after the other.
LEMMA FoundJoin ==
  ASSUME NEW w \in Seq(Option), NEW v \in Seq(Option), NEW code
  PROVE  /\ \A d : Found(w, code, d) => Found(w \o v, code, d)
         /\ \A d : Lacks(w, code, Len(w)) /\ Found(v, code, d) => Found(w \o v, code, d)
         /\ Lacks(w, code, Len(w)) /\ Lacks(v, code, Len(v)) => Lacks(w \o v, code, Len(w \o v))
<1> DEFINE u == w \o v
           k == Len(w)
           l == Len(v)
<1>1. /\ u \in Seq(Option) /\ Len(u) = k + l /\ k \in Nat /\ l \in Nat
      /\ \A i \in 1 .. k + l : u[i] = IF i <= k THEN w[i] ELSE v[i - k]
  BY ConcatProperties
<1> HIDE DEF u, k, l
<1>2. \A i \in 1 .. k : i \in 1 .. Len(u) /\ u[i] = w[i]
  BY <1>1
<1>3. ASSUME NEW i \in 1 .. l PROVE k + i \in 1 .. Len(u) /\ u[k + i] = v[i]
  <2>1. k + i \in 1 .. k + l /\ ~(k + i <= k) /\ (k + i) - k = i
    BY <1>1
  <2>2. QED
    BY <1>1, <2>1
<1>4. ASSUME NEW d, Found(w, code, d) PROVE Found(u, code, d)
  <2>1. PICK i : First(w, code, i) /\ d = <<w[i].data>>
    BY <1>4 DEF Found
  <2>2. i \in 1 .. k /\ w[i].code = code /\ \A j \in 1 .. i - 1 : w[j].code # code
    BY <2>1 DEF First, k
  <2>3. \A j \in 1 .. i - 1 : j \in 1 .. k
    BY <1>1, <2>2
  <2>4. First(u, code, i) /\ u[i] = w[i]
    BY <1>2, <2>2, <2>3 DEF First
  <2>5. QED
    BY <2>1, <2>4 DEF Found
<1>5. ASSUME NEW j \in 1 .. k + l PROVE j \in 1 .. k \/ \E i \in 1 .. l : j = k + i
  <2>1. CASE j <= k
    BY <1>1, <2>1
  <2>2. CASE j > k
    <3>1. j - k \in 1 .. l /\ j = k + (j - k)
      BY <1>1, <2>2
    <3>2. QED
      BY <3>1
  <2>3. QED
    BY <1>1, <2>1, <2>2
<1>6. ASSUME NEW d, Lacks(w, code, Len(w)), Found(v, code, d) PROVE Found(u, code, d)
  <2>1. PICK i : First(v, code, i) /\ d = <<v[i].data>>
    BY <1>6 DEF Found
  <2>2. i \in 1 .. l /\ v[i].code = code /\ \A j \in 1 .. i - 1 : v[j].code # code
    BY <2>1 DEF First, l
  <2>3. \A j \in 1 .. k : w[j].code # code
    BY <1>6 DEF Lacks, k
  <2>4. ASSUME NEW j \in 1 .. (k + i) - 1 PROVE u[j].code # code
    <3>1. j \in 1 .. k + l
      BY <1>1, <2>2
    <3>2. CASE j \in 1 .. k
      BY <1>2, <2>3, <3>2
    <3>3. ASSUME NEW h \in 1 .. l, j = k + h PROVE u[j].code # code
      <4>1. h \in 1 .. i - 1
        BY <1>1, <2>2, <3>3
      <4>2. QED
        BY <1>3, <2>2, <3>3, <4>1
    <3>4. QED
      BY <1>5, <3>1, <3>2, <3>3
  <2>5. First(u, code, k + i) /\ u[k + i] = v[i]
    BY <1>3, <2>2, <2>4 DEF First
  <2>6. QED
    BY <2>1, <2>5 DEF Found
<1>7. ASSUME Lacks(w, code, Len(w)), Lacks(v, code, Len(v)) PROVE Lacks(u, code, Len(u))
  <2>1. (\A j \in 1 .. k : w[j].code # code) /\ \A j \in 1 .. l : v[j].code # code
    BY <1>7 DEF Lacks, k, l
  <2>2. ASSUME NEW j \in 1 .. k + l PROVE u[j].code # code
    BY <1>2, <1>3, <1>5, <2>1
  <2>3. QED
    BY <1>1, <2>2 DEF Lacks
<1>8. QED
  BY <1>4, <1>6, <1>7 DEF u

\* What the loop does at the end of a field, where the fields m are still to be searched.
After(m) ==
  IF "file" \in m THEN looks("file", 1, m \ {"file"})
  ELSE IF "sname" \in m THEN looks("sname", 1, m \ {"sname"})
  ELSE returns(<<>>)

\* The round at the end of a field.
LEMMA EndRound ==
  ASSUME NEW p, NEW f, p[f] \in Seq(Byte), NEW i \in 1 .. Len(p[f]), p[f][i] = END, NEW code, NEW m
  PROVE  round(p, code, looks(f, i, m)) = After(m)
<1> DEFINE s == looks(f, i, m)
<1>1. s.field = f /\ s.at = i /\ s.more = m /\ s.on = TRUE
  BY DEF looks
<1>2. ~(i > Len(p[f])) /\ p[f][i] # PADDING
  BY DEF PADDING, END
<1> HIDE DEF s
<1>3. round(p, code, s) = After(m)
  BY <1>1, <1>2 DEF round, After
<1>4. QED
  BY <1>3 DEF s

\* The search of field f starts at round r, and how it leaves the field.
Starts(a, n, p, code, f, w, o, m, r) ==
  /\ n \in Nat /\ code \in Byte \ {PADDING, END, OVERLOAD} /\ Rounds(a, n, p, code)
  /\ p[f] \in Seq(Byte) /\ w \in Seq(Option) /\ Carries(p[f], w, o)
  /\ r \in Nat /\ r + Len(p[f]) <= n /\ a[r] = looks(f, 1, m)

Leaves(a, n, p, code, f, w, o, m, r) ==
  \/ Found(w, code, a[n].found)
  \/ Lacks(w, code, Len(w)) /\ \E q \in Nat : q <= r + Len(p[f]) /\ a[q] = After(m \cup o)

\* A field is searched to its end, and left, unless the option is found in it.
LEMMA FieldLeft ==
  ASSUME NEW a, NEW n, NEW p, NEW code, NEW f, NEW w, NEW o, NEW m, NEW r,
         Starts(a, n, p, code, f, w, o, m, r)
  PROVE  Leaves(a, n, p, code, f, w, o, m, r)
<1>0. /\ n \in Nat /\ code \in Byte \ {PADDING, END, OVERLOAD} /\ Rounds(a, n, p, code)
      /\ p[f] \in Seq(Byte) /\ w \in Seq(Option) /\ Carries(p[f], w, o)
      /\ r \in Nat /\ r + Len(p[f]) <= n /\ a[r] = looks(f, 1, m)
  BY DEF Starts
<1> DEFINE blk == p[f]
<1>1. blk \in Seq(Byte) /\ Len(blk) \in Nat /\ r + Len(blk) <= n /\ blk = p[f]
  BY <1>0
<1>2. PICK t, e : Laid(t, e, blk, w) /\ t[e].more = o
  BY <1>0 DEF Carries
<1> HIDE DEF blk
<1>3. e \in Nat /\ t[e].at \in Nat /\ e < t[e].at /\ t[e].at <= Len(blk) /\ blk[t[e].at] = END
  <2>1. e \in Nat /\ e \in 0 .. e
    BY <1>2 DEF Laid
  <2>2. t[e] \in Mark /\ e < t[e].at /\ t[e].at <= Len(blk) /\ blk[t[e].at] = END
    BY <1>2, <2>1 DEF Laid
  <2>3. QED
    BY <2>1, <2>2 DEF Mark
<1> DEFINE i == t[e].at
<1>4. i \in Nat /\ e < i /\ i <= Len(blk) /\ blk[i] = END
  BY <1>3
<1> HIDE DEF i
<1>5. i \in 1 .. Len(blk) /\ r + e <= n /\ r + e + 1 \in 1 .. n /\ (r + e + 1) - 1 = r + e
      /\ r + e + 1 <= r + Len(blk) /\ r + e + 1 \in Nat
  BY <1>0, <1>1, <1>3, <1>4
<1>6. \/ Lacks(w, code, Len(w)) /\ a[r + e] = looks(f, i, m \cup o)
      \/ Found(w, code, a[n].found)
  <2>1. \/ Lacks(w, code, Len(w)) /\ a[r + e] = looks(f, t[e].at, m \cup t[e].more)
        \/ Found(w, code, a[n].found)
    <3>1. n \in Nat /\ code \in Byte \ {PADDING, END, OVERLOAD} /\ Rounds(a, n, p, code) /\ w \in Seq(Option)
          /\ r \in Nat /\ r + e <= n /\ a[r] = looks(f, 1, m) /\ blk \in Seq(Byte) /\ blk = p[f]
      BY <1>0, <1>1, <1>5
    <3>2. QED
      BY <1>2, <3>1, FieldSearched, Zenon
  <2>2. QED
    BY <1>2, <2>1 DEF i
<1>7. ASSUME a[r + e] = looks(f, i, m \cup o) PROVE a[r + e + 1] = After(m \cup o)
  <2>1. a[r + e + 1] = round(p, code, a[r + e])
    BY <1>0, <1>5 DEF Rounds
  <2>2. round(p, code, looks(f, i, m \cup o)) = After(m \cup o)
    BY <1>1, <1>4, <1>5, EndRound
  <2>3. QED
    BY <1>7, <2>1, <2>2
<1>8. QED
  BY <1>1, <1>5, <1>6, <1>7 DEF Leaves

\* The fields of packet p hold the options wr, and overload options name the fields ov.
Written(p, wr, ov) ==
  /\ \A f \in Parts : p[f] \in Seq(Byte) /\ wr[f] \in Seq(Option)
  /\ ov \subseteq {"file", "sname"}
  /\ Carries(p["options"], wr["options"], ov)
  /\ \A f \in {"file", "sname"} : IF f \in ov THEN Carries(p[f], wr[f], {}) ELSE wr[f] = <<>>

\* The last field.
LEMMA SnameAnswer ==
  ASSUME NEW a, NEW n \in Nat, NEW p, NEW code \in Byte \ {PADDING, END, OVERLOAD}, Rounds(a, n, p, code),
         NEW wr, NEW ov, Written(p, wr, ov),
         NEW q \in Nat, q + Len(p["sname"]) <= n, a[q] = After(ov \ {"file"})
  PROVE  Answer(wr["sname"], code, a[n].found)
<1> DEFINE w == wr["sname"]
<1>1. p["sname"] \in Seq(Byte) /\ w \in Seq(Option) /\ Len(p["sname"]) \in Nat
      /\ ov \subseteq {"file", "sname"}
      /\ IF "sname" \in ov THEN Carries(p["sname"], w, {}) ELSE w = <<>>
  BY DEF Written, Parts
<1>2. CASE "sname" \notin ov
  <2>1. a[q] = returns(<<>>)
    BY <1>2 DEF After
  <2>2. q \in 0 .. n
    BY <1>1
  <2>3. a[n].found = <<>>
    BY <2>1, <2>2, StaysReturned
  <2>4. Lacks(w, code, Len(w))
    <3>1. w = <<>> /\ Len(<<>>) = 0
      BY <1>1, <1>2
    <3>2. QED
      BY <3>1 DEF Lacks
  <2>5. QED
    BY <2>3, <2>4 DEF Answer
<1>3. CASE "sname" \in ov
  <2>1. a[q] = looks("sname", 1, {})
    <3>1. (ov \ {"file"}) \ {"sname"} = {} /\ "sname" \in ov \ {"file"} /\ "file" \notin ov \ {"file"}
      BY <1>1, <1>3
    <3>2. QED
      BY <3>1 DEF After
  <2>2. \/ Found(w, code, a[n].found)
        \/ Lacks(w, code, Len(w)) /\ \E h \in Nat : h <= q + Len(p["sname"]) /\ a[h] = After({} \cup {})
    <3>1. Starts(a, n, p, code, "sname", w, {}, {}, q)
      BY <1>1, <1>3, <2>1 DEF Starts
    <3>2. Leaves(a, n, p, code, "sname", w, {}, {}, q)
      BY <3>1, FieldLeft, Zenon
    <3>3. QED
      BY <3>2 DEF Leaves
  <2>3. ASSUME NEW h \in Nat, h <= q + Len(p["sname"]), a[h] = After({} \cup {})
        PROVE  a[n].found = <<>>
    <3>1. a[h] = returns(<<>>)
      BY <2>3 DEF After
    <3>2. h \in 0 .. n
      BY <1>1, <2>3
    <3>3. QED
      BY <3>1, <3>2, StaysReturned
  <2>4. QED
    BY <2>2, <2>3 DEF Answer
<1>4. QED
  BY <1>2, <1>3

\* The fields after the first.
LEMMA FileAnswer ==
  ASSUME NEW a, NEW n \in Nat, NEW p, NEW code \in Byte \ {PADDING, END, OVERLOAD}, Rounds(a, n, p, code),
         NEW wr, NEW ov, Written(p, wr, ov),
         NEW q \in Nat, q + Len(p["file"]) + Len(p["sname"]) <= n, a[q] = After(ov)
  PROVE  \/ Found(wr["file"], code, a[n].found)
         \/ Lacks(wr["file"], code, Len(wr["file"])) /\ Answer(wr["sname"], code, a[n].found)
<1> DEFINE w == wr["file"]
           l == Len(p["file"])
           k == Len(p["sname"])
<1>1. p["file"] \in Seq(Byte) /\ w \in Seq(Option) /\ l \in Nat /\ k \in Nat
      /\ ov \subseteq {"file", "sname"}
      /\ IF "file" \in ov THEN Carries(p["file"], w, {}) ELSE w = <<>>
  BY DEF Written, Parts
<1>2. q + l + k <= n
  OBVIOUS
<1> HIDE DEF l, k
<1>3. CASE "file" \notin ov
  <2>1. ov \ {"file"} = ov /\ q + k <= n
    BY <1>1, <1>2, <1>3
  <2>2. Answer(wr["sname"], code, a[n].found)
    BY <2>1, SnameAnswer DEF k
  <2>3. Lacks(w, code, Len(w))
    <3>1. w = <<>> /\ Len(<<>>) = 0
      BY <1>1, <1>3
    <3>2. QED
      BY <3>1 DEF Lacks
  <2>4. QED
    BY <2>2, <2>3
<1>4. CASE "file" \in ov
  <2> DEFINE m == ov \ {"file"}
  <2>1. a[q] = looks("file", 1, m)
    BY <1>4 DEF After
  <2>2. q + l <= n
    BY <1>1, <1>2
  <2>3. \/ Found(w, code, a[n].found)
        \/ Lacks(w, code, Len(w)) /\ \E h \in Nat : h <= q + l /\ a[h] = After(m \cup {})
    <3> HIDE DEF m
    <3>1. Starts(a, n, p, code, "file", w, {}, m, q)
      BY <1>1, <1>4, <2>1, <2>2 DEF Starts, l
    <3>2. Leaves(a, n, p, code, "file", w, {}, m, q)
      BY <3>1, FieldLeft, Zenon
    <3>3. QED
      BY <3>2 DEF Leaves, l
  <2>4. ASSUME NEW h \in Nat, h <= q + l, a[h] = After(m \cup {}) PROVE Answer(wr["sname"], code, a[n].found)
    <3>1. m \cup {} = m /\ h + k <= n
      BY <1>1, <1>2, <2>4
    <3>2. QED
      BY <2>4, <3>1, SnameAnswer DEF k
  <2>5. QED
    BY <2>3, <2>4
<1>5. QED
  BY <1>3, <1>4

\* dhcp_get_option finds the first option with the code, or nothing.
LEMMA ReadBack ==
  ASSUME NEW p, NEW wr, NEW ov, Written(p, wr, ov), NEW code \in Byte \ {PADDING, END, OVERLOAD}
  PROVE  Answer((wr["options"] \o wr["file"]) \o wr["sname"], code, dhcp_get_option(p, code))
<1> DEFINE n == Size(p)
           k == Len(p["options"])
           wo == wr["options"]
           wf == wr["file"]
           ws == wr["sname"]
           g == dhcp_get_option(p, code)
<1>1. /\ p["options"] \in Seq(Byte) /\ k \in Nat /\ Len(p["file"]) \in Nat /\ Len(p["sname"]) \in Nat
      /\ wo \in Seq(Option) /\ wf \in Seq(Option) /\ ws \in Seq(Option) /\ wo \o wf \in Seq(Option)
      /\ Carries(p["options"], wo, ov)
  BY DEF Written, Parts
<1> DEFINE lf == Len(p["file"])
           ls == Len(p["sname"])
<1>2. n \in Nat /\ n = k + lf + ls /\ 0 + k <= n /\ lf \in Nat /\ ls \in Nat
  <2>1. n = k + lf + ls
    BY DEF Size
  <2>2. k \in Nat /\ lf \in Nat /\ ls \in Nat
    BY <1>1
  <2> HIDE DEF k, lf, ls, n
  <2>3. QED
    BY <2>1, <2>2
<1>3. PICK a : Rounds(a, n, p, code) /\ g = a[n].found
  <2> HIDE DEF n
  <2>1. QED
    BY <1>2, RoundsTaken DEF n
<1> HIDE DEF n, g, k, wo, wf, ws, lf, ls
<1>4. a[0] = looks("options", 1, {})
  BY <1>3 DEF Rounds
<1>5. \/ Found(wo, code, g)
      \/ Lacks(wo, code, Len(wo)) /\ \E q \in Nat : q <= 0 + k /\ a[q] = After({} \cup ov)
  <2>1. 0 \in Nat
    OBVIOUS
  <2>2. QED
    <3>1. Starts(a, n, p, code, "options", wo, ov, {}, 0)
      BY <1>1, <1>2, <1>3, <1>4, <2>1 DEF Starts, k
    <3>2. Leaves(a, n, p, code, "options", wo, ov, {}, 0)
      BY <3>1, FieldLeft, Zenon
    <3>3. QED
      BY <1>3, <3>2 DEF Leaves, k
<1>6. ASSUME NEW q \in Nat, q <= 0 + k, a[q] = After({} \cup ov)
      PROVE  \/ Found(wf, code, g)
             \/ Lacks(wf, code, Len(wf)) /\ Answer(ws, code, g)
  <2>1. {} \cup ov = ov
    OBVIOUS
  <2>2. q + Len(p["file"]) + Len(p["sname"]) <= n
    <3>1. q + lf + ls <= n
      BY <1>1, <1>2, <1>6
    <3>2. QED
      BY <3>1 DEF lf, ls
  <2>3. QED
    BY <1>2, <1>3, <1>6, <2>1, <2>2, FileAnswer DEF wf, ws
<1>7. CASE Found(wo, code, g)
  BY <1>1, <1>7, FoundJoin DEF Answer, wo, wf, ws, g
<1>8. CASE Lacks(wo, code, Len(wo)) /\ Found(wf, code, g)
  BY <1>1, <1>8, FoundJoin DEF Answer, wo, wf, ws, g
<1>9. CASE Lacks(wo, code, Len(wo)) /\ Lacks(wf, code, Len(wf)) /\ Answer(ws, code, g)
  <2>1. Lacks(wo \o wf, code, Len(wo \o wf))
    BY <1>1, <1>9, FoundJoin
  <2>2. QED
    BY <1>1, <1>9, <2>1, FoundJoin DEF Answer, wo, wf, ws, g
<1>10. QED
  BY <1>5, <1>6, <1>7, <1>8, <1>9


\* What is meant by a code is what is found for it.
LEMMA AnswerMeant ==
  ASSUME \A f \in Parts : written[f] \in Seq(Option), NEW code, NEW d,
         Answer((written["options"] \o written["file"]) \o written["sname"], code, d)
  PROVE  d = Meant(code)
<1> DEFINE all == (written["options"] \o written["file"]) \o written["sname"]
           I == {i \in 1 .. Len(all) : all[i].code = code}
           i == IF I # {} THEN Min(I) ELSE 0
<1>1. Meant(code) = IF i = 0 THEN <<>> ELSE <<all[i].data>>
  BY DEF Meant, SelectInSeq
<1>2. all \in Seq(Option) /\ Len(all) \in Nat
  <2>1. written["options"] \in Seq(Option) /\ written["file"] \in Seq(Option) /\ written["sname"] \in Seq(Option)
    BY DEF Parts
  <2>2. written["options"] \o written["file"] \in Seq(Option)
    BY <2>1
  <2>3. all \in Seq(Option)
    BY <2>1, <2>2
  <2> HIDE DEF all
  <2>4. QED
    BY <2>3
<1> HIDE DEF all
<1>3. CASE Lacks(all, code, Len(all)) /\ d = <<>>
  <2>1. I = {}
    BY <1>3 DEF Lacks
  <2>2. i = 0
    BY <2>1
  <2>3. QED
    BY <1>1, <1>3, <2>2
<1>4. CASE Found(all, code, d)
  <2>1. PICK k : First(all, code, k) /\ d = <<all[k].data>>
    BY <1>4 DEF Found
  <2>2. k \in I /\ I \subseteq Nat /\ \A j \in 1 .. k - 1 : j \notin I
    BY <2>1 DEF First
  <2>3. Min(I) \in I /\ \A y \in I : Min(I) <= y
    <3> HIDE DEF I
    <3>1. QED
      BY <2>2, MinNat
  <2> DEFINE m == Min(I)
  <2>4. m \in 1 .. Len(all) /\ k \in 1 .. Len(all) /\ m <= k /\ m \notin 1 .. k - 1
    BY <2>2, <2>3
  <2>5. m = k /\ k # 0
    <3> HIDE DEF m
    <3>1. QED
      BY <1>2, <2>4
  <2>6. i = k
    BY <2>2, <2>5
  <2>7. QED
    BY <1>1, <2>1, <2>5, <2>6
<1>5. Answer(all, code, d)
  BY DEF all
<1>6. QED
  BY <1>3, <1>4, <1>5 DEF Answer

\* The sums of the options' sizes, which Used takes.
Sums(g, os, n) == g = [k \in 0 .. n |-> IF k = 0 THEN 0 ELSE g[k - 1] + 2 + Len(os[k].data)]

\* There is such a function for every list.
LEMMA SumsExist ==
  ASSUME NEW os, NEW n \in Nat
  PROVE  \E g : Sums(g, os, n)
<1> DEFINE T == {i \in Nat : \E g : Sums(g, os, i)}
<1>1. 0 \in T
  <2> DEFINE g == [k \in 0 .. 0 |-> 0]
  <2>1. Sums(g, os, 0)
    BY DEF Sums
  <2>2. QED
    BY <2>1
<1>2. ASSUME NEW i \in T PROVE i + 1 \in T
  <2>1. PICK g : Sums(g, os, i)
    OBVIOUS
  <2> DEFINE h == [k \in 0 .. i + 1 |-> IF k = i + 1 THEN g[i] + 2 + Len(os[k].data) ELSE g[k]]
             e == [k \in 0 .. i + 1 |-> IF k = 0 THEN 0 ELSE h[k - 1] + 2 + Len(os[k].data)]
  <2>2. ASSUME NEW k \in 0 .. i + 1 PROVE h[k] = e[k]
    <3>1. CASE k = 0
      BY <2>1, <3>1 DEF Sums
    <3>2. CASE k \in 1 .. i
      <4>1. k - 1 \in 0 .. i /\ k \in 0 .. i /\ k # 0 /\ k # i + 1 /\ k - 1 # i + 1
        BY <3>2
      <4>2. h[k] = g[k] /\ h[k - 1] = g[k - 1] /\ g[k] = g[k - 1] + 2 + Len(os[k].data)
        BY <2>1, <4>1 DEF Sums
      <4>3. QED
        BY <4>1, <4>2
    <3>3. CASE k = i + 1
      <4>1. k # 0 /\ k - 1 = i /\ i \in 0 .. i + 1 /\ i # i + 1
        BY <3>3
      <4>2. h[k] = g[i] + 2 + Len(os[k].data) /\ h[k - 1] = g[i]
        BY <3>3, <4>1
      <4>3. QED
        BY <4>1, <4>2
    <3>4. QED
      BY <3>1, <3>2, <3>3
  <2>3. h = [k \in 0 .. i + 1 |-> h[k]] /\ e = [k \in 0 .. i + 1 |-> e[k]]
    OBVIOUS
  <2> HIDE DEF h
  <2>4. h = e
    <3> HIDE DEF e
    <3>1. QED
      BY <2>2, <2>3
  <2>5. Sums(h, os, i + 1)
    BY <2>4 DEF Sums
  <2>6. QED
    BY <2>5
<1>3. n \in T
  <2>1. T \subseteq Nat
    OBVIOUS
  <2> HIDE DEF T
  <2>2. QED
    BY <1>1, <1>2, <2>1, SetInduction, Zenon
<1>4. QED
  BY <1>3

\* Used is the last of the sums, whichever function has them.
LEMMA UsedSum ==
  ASSUME NEW os \in Seq(Option)
  PROVE  \E g : Sums(g, os, Len(os)) /\ Used(os) = g[Len(os)]
<1> DEFINE n == Len(os)
           c == CHOOSE g : Sums(g, os, n)
<1>1. n \in Nat
  OBVIOUS
<1>2. Sums(c, os, n)
  <2> HIDE DEF n
  <2>1. QED
    BY <1>1, SumsExist
<1>3. Used(os) = c[n]
  BY DEF Used, Sums
<1>4. QED
  BY <1>2, <1>3

\* No options take no bytes.
LEMMA UsedNone == Used(<<>>) = 0
<1>1. <<>> \in Seq(Option) /\ Len(<<>>) = 0
  OBVIOUS
<1>2. PICK g : Sums(g, <<>>, 0) /\ Used(<<>>) = g[0]
  BY <1>1, UsedSum
<1>3. QED
  BY <1>2 DEF Sums

\* One more option.
LEMMA UsedAppend ==
  ASSUME NEW w \in Seq(Option), NEW o \in Option
  PROVE  Used(Append(w, o)) = Used(w) + 2 + Len(o.data)
<1> DEFINE v == Append(w, o)
           n == Len(w)
<1>1. n \in Nat /\ v \in Seq(Option) /\ Len(v) = n + 1 /\ v[n + 1] = o /\ \A i \in 1 .. n : v[i] = w[i]
  OBVIOUS
<1>2. PICK g : Sums(g, w, n) /\ Used(w) = g[n]
  BY UsedSum
<1> HIDE DEF v, n
<1>3. PICK h : Sums(h, v, n + 1) /\ Used(v) = h[n + 1]
  BY <1>1, UsedSum
<1> DEFINE T == {i \in Nat : i <= n => g[i] = h[i]}
<1>4. 0 \in T
  BY <1>1, <1>2, <1>3 DEF Sums
<1>5. ASSUME NEW i \in T PROVE i + 1 \in T
  <2>1. CASE i + 1 <= n
    <3>1. i + 1 \in 1 .. n /\ i + 1 \in 0 .. n /\ i + 1 \in 0 .. n + 1 /\ i + 1 # 0 /\ (i + 1) - 1 = i /\ g[i] = h[i]
      BY <1>1, <2>1
    <3>2. g[i + 1] = g[i] + 2 + Len(w[i + 1].data) /\ h[i + 1] = h[i] + 2 + Len(v[i + 1].data)
      BY <1>2, <1>3, <3>1 DEF Sums
    <3>3. QED
      BY <1>1, <3>1, <3>2
  <2>2. QED
    BY <2>1
<1>6. n \in T
  <2>1. T \subseteq Nat
    OBVIOUS
  <2> HIDE DEF T
  <2>2. QED
    BY <1>1, <1>4, <1>5, <2>1, SetInduction, Zenon
<1>7. h[n + 1] = h[n] + 2 + Len(v[n + 1].data)
  <2>1. n + 1 \in 0 .. n + 1 /\ n + 1 # 0 /\ (n + 1) - 1 = n
    BY <1>1
  <2>2. QED
    BY <1>3, <2>1 DEF Sums
<1>8. QED
  BY <1>1, <1>2, <1>3, <1>6, <1>7 DEF v

-----------------------------------------------------------------------------
(* The packets hold what was put into them.                                *)

\* A field that is in use holds its options.
LEMMA FieldCarries ==
  ASSUME NEW p, NEW wr, NEW ov, Written(p, wr, ov), NEW f \in {"options"} \cup ov
  PROVE  /\ f \in Parts /\ p[f] \in Seq(Byte) /\ wr[f] \in Seq(Option)
         /\ Carries(p[f], wr[f], IF f = "options" THEN ov ELSE {})
<1>1. ov \subseteq {"file", "sname"} /\ \A g \in Parts : p[g] \in Seq(Byte) /\ wr[g] \in Seq(Option)
  BY DEF Written
<1>2. f \in Parts
  BY <1>1 DEF Parts
<1>3. CASE f = "options"
  BY <1>1, <1>2, <1>3 DEF Written
<1>4. CASE f # "options"
  <2>1. f \in ov /\ f \in {"file", "sname"}
    BY <1>1, <1>4
  <2>2. Carries(p[f], wr[f], {})
    BY <2>1 DEF Written
  <2>3. QED
    BY <1>1, <1>2, <1>4, <2>2
<1>5. QED
  BY <1>3, <1>4

\* A field with new contents.
With(p, f, c) == [p EXCEPT ![f] = c]

\* The packet still holds its options when a field holds new ones.
LEMMA FieldChanged ==
  ASSUME NEW p \in [Parts -> Seq(Byte)], NEW wr \in [Parts -> Seq(Option)], NEW ov, Written(p, wr, ov),
         NEW f \in {"options"} \cup ov, NEW c \in Seq(Byte), NEW v \in Seq(Option),
         Carries(c, v, IF f = "options" THEN ov ELSE {})
  PROVE  Written(With(p, f, c), With(wr, f, v), ov)
<1> DEFINE q == With(p, f, c)
           u == With(wr, f, v)
<1>1. f \in Parts /\ ov \subseteq {"file", "sname"}
  BY FieldCarries DEF Written
<1>2. /\ q[f] = c /\ u[f] = v /\ \A g \in Parts : g # f => q[g] = p[g] /\ u[g] = wr[g]
      /\ \A g \in Parts : q[g] \in Seq(Byte) /\ u[g] \in Seq(Option)
  BY <1>1 DEF With
<1> HIDE DEF q, u
<1>3. Carries(q["options"], u["options"], ov)
  <2>1. CASE f = "options"
    BY <1>2, <2>1
  <2>2. CASE f # "options"
    BY <1>2, <2>2 DEF Written, Parts
  <2>3. QED
    BY <2>1, <2>2
<1>4. ASSUME NEW g \in {"file", "sname"}
      PROVE  IF g \in ov THEN Carries(q[g], u[g], {}) ELSE u[g] = <<>>
  <2>1. CASE f = g
    <3>1. g \in ov /\ f # "options"
      BY <2>1
    <3>2. QED
      BY <1>2, <2>1, <3>1
  <2>2. CASE f # g
    BY <1>2, <2>2 DEF Written, Parts
  <2>3. QED
    BY <2>1, <2>2
<1>5. Written(q, u, ov)
  BY <1>1, <1>2, <1>3, <1>4 DEF Written
<1>6. QED
  BY <1>5 DEF q, u

\* A packet p of the right form that holds the options wr; ov are the fields in use.
Sound(p, wr, ov) ==
  /\ p \in [Parts -> Seq(Byte)] /\ wr \in [Parts -> Seq(Option)] /\ Written(p, wr, ov)
  /\ Len(p["options"]) = OPTIONS_BUFSIZE + EXTEND
  /\ Len(p["file"]) = FieldSize /\ Len(p["sname"]) = FieldSize

\* A packet stays sound when a field of it is changed so.
LEMMA SoundChanged ==
  ASSUME NEW p, NEW wr, NEW ov, Sound(p, wr, ov), NEW f \in {"options"} \cup ov,
         NEW c \in Seq(Byte), NEW v \in Seq(Option),
         Carries(c, v, IF f = "options" THEN ov ELSE {}), Len(c) = Len(p[f])
  PROVE  Sound(With(p, f, c), With(wr, f, v), ov)
<1> DEFINE q == With(p, f, c)
           u == With(wr, f, v)
<1>1. p \in [Parts -> Seq(Byte)] /\ wr \in [Parts -> Seq(Option)] /\ Written(p, wr, ov) /\ f \in Parts
  BY FieldCarries DEF Sound
<1>2. Written(q, u, ov)
  BY <1>1, FieldChanged
<1>3. q \in [Parts -> Seq(Byte)] /\ u \in [Parts -> Seq(Option)] /\ \A g \in Parts : Len(q[g]) = Len(p[g])
  BY <1>1 DEF With
<1> HIDE DEF q, u
<1>4. Sound(q, u, ov)
  BY <1>2, <1>3 DEF Sound, Parts
<1>5. QED
  BY <1>4 DEF q, u

\* The bytes s, and an end, are put at the end e of field f, which makes it c.
Puts(p, wr, ov, f, s, e, c) ==
  /\ Sound(p, wr, ov) /\ f \in {"options"} \cup ov /\ e = dhcp_end_option(p[f])
  /\ e + Len(s) < Len(p[f]) /\ c = memcpy(p[f], e, s \o <<END>>)

\* An option is put at the end of a field.
LEMMA OptionInField ==
  ASSUME NEW p, NEW wr, NEW ov, NEW f, NEW o \in Option, NEW e, NEW c, Puts(p, wr, ov, f, Bytes(o), e, c)
  PROVE  /\ Sound(With(p, f, c), With(wr, f, Append(wr[f], o)), ov)
         /\ dhcp_end_option(c) = e + 2 + Len(o.data)
<1> DEFINE m == IF f = "options" THEN ov ELSE {}
           blk == p[f]
           w == wr[f]
<1>1. p \in [Parts -> Seq(Byte)] /\ Written(p, wr, ov) /\ Sound(p, wr, ov) /\ f \in {"options"} \cup ov
  BY DEF Puts, Sound
<1>2. f \in Parts /\ blk \in Seq(Byte) /\ w \in Seq(Option) /\ Carries(blk, w, m)
  BY <1>1, FieldCarries
<1>3. e = dhcp_end_option(blk) /\ e + Len(Bytes(o)) < Len(blk) /\ c = memcpy(blk, e, Bytes(o) \o <<END>>)
  BY DEF Puts
<1> HIDE DEF m, blk, w
<1>4. /\ Carries(c, Append(w, o), m) /\ c \in Seq(Byte) /\ Len(c) = Len(blk)
      /\ dhcp_end_option(c) = e + 2 + Len(o.data)
  BY <1>2, <1>3, OptionPut
<1>5. Append(w, o) \in Seq(Option)
  BY <1>2
<1>6. Sound(With(p, f, c), With(wr, f, Append(w, o)), ov)
  BY <1>1, <1>4, <1>5, SoundChanged DEF m, blk
<1>7. QED
  BY <1>4, <1>6 DEF w

\* A padding is put at the end of a field.
LEMMA PaddingInField ==
  ASSUME NEW p, NEW wr, NEW ov, NEW f, NEW e, NEW c, Puts(p, wr, ov, f, <<PADDING>>, e, c)
  PROVE  Sound(With(p, f, c), wr, ov)
<1> DEFINE m == IF f = "options" THEN ov ELSE {}
           blk == p[f]
           w == wr[f]
<1>1. p \in [Parts -> Seq(Byte)] /\ wr \in [Parts -> Seq(Option)] /\ Written(p, wr, ov)
      /\ Sound(p, wr, ov) /\ f \in {"options"} \cup ov
  BY DEF Puts, Sound
<1>2. f \in Parts /\ blk \in Seq(Byte) /\ w \in Seq(Option) /\ Carries(blk, w, m)
  BY <1>1, FieldCarries
<1>3. e = dhcp_end_option(blk) /\ e + 1 < Len(blk) /\ c = memcpy(blk, e, <<PADDING>> \o <<END>>)
  BY DEF Puts
<1> HIDE DEF m, blk, w
<1>4. Carries(c, w, m) /\ c \in Seq(Byte) /\ Len(c) = Len(blk)
  BY <1>2, <1>3, PaddingPut
<1>5. Sound(With(p, f, c), With(wr, f, w), ov)
  BY <1>1, <1>2, <1>4, SoundChanged DEF m, blk
<1>6. With(wr, f, w) = wr
  BY <1>1, <1>2 DEF w, With
<1>7. QED
  BY <1>5, <1>6

\* The end of the field options is where the options end, and inside of what is sent.
Exact(p, wr) ==
  /\ dhcp_end_option(p["options"]) = Used(wr["options"])
  /\ Used(wr["options"]) \in Nat /\ Used(wr["options"]) < OPTIONS_BUFSIZE

\* No options.
NoOptions == [f \in Parts |-> <<>>]

\* A blank packet, and one with text in the fields that are not in use.
LEMMA BlankSound ==
  ASSUME NEW p \in [Parts -> Seq(Byte)], p["options"] = Blank["options"],
         Len(p["file"]) = FieldSize, Len(p["sname"]) = FieldSize
  PROVE  Sound(p, NoOptions, {}) /\ Exact(p, NoOptions) /\ Used(NoOptions["options"]) = 0
<1> DEFINE N == OPTIONS_BUFSIZE + EXTEND
           z == [i \in 1 .. N |-> PADDING]
           c == memcpy(z, 0, <<END>>)
<1>1. N \in Nat /\ 1 <= N /\ OPTIONS_BUFSIZE \in Nat /\ 0 < OPTIONS_BUFSIZE
  BY RoomAssumption
<1>2. p["options"] = c
  BY DEF Blank, Parts
<1> HIDE DEF N
<1>3. z \in Seq(Byte) /\ Len(z) = N
  <2>1. z \in [1 .. N -> Byte]
    BY DEF PADDING, Byte
  <2> HIDE DEF z
  <2>2. QED
    BY <1>1, <2>1, BlockSeq
<1>4. <<END>> \in Seq(Byte) /\ 1 \in 1 .. Len(<<END>>) /\ <<END>>[1] = END /\ 0 + 1 <= Len(z) /\ 0 + 1 = 1
  BY <1>1, <1>3 DEF END, Byte
<1> HIDE DEF z
<1>5. c \in Seq(Byte) /\ Len(c) = N /\ c[0 + 1] = END
  <2> DEFINE s == <<END>>
  <2>1. s \in Seq(Byte) /\ 0 \in Nat /\ z \in Seq(Byte) /\ 1 \in 1 .. Len(s) /\ s[1] = END /\ c = memcpy(z, 0, s)
    BY <1>3, <1>4
  <2> HIDE DEF s, c
  <2>2. /\ memcpy(z, 0, s) \in Seq(Byte) /\ Len(memcpy(z, 0, s)) = Len(z)
        /\ \A i \in 1 .. Len(s) : 0 + i <= Len(z) => memcpy(z, 0, s)[0 + i] = s[i]
    BY <2>1, Copied, Zenon
  <2>3. QED
    BY <1>3, <1>4, <2>1, <2>2, Zenon
<1> HIDE DEF c
<1>6. c # <<>> /\ c[1] = END
  BY <1>1, <1>4, <1>5
<1>7. Carries(c, <<>>, {}) /\ dhcp_end_option(c) = 0
  BY <1>5, <1>6, CarriesNothing
<1>8. /\ NoOptions \in [Parts -> Seq(Option)] /\ NoOptions["options"] = <<>>
      /\ NoOptions["file"] = <<>> /\ NoOptions["sname"] = <<>>
  BY DEF NoOptions, Parts
<1>9. Written(p, NoOptions, {})
  BY <1>2, <1>7, <1>8 DEF Written
<1>10. Sound(p, NoOptions, {})
  BY <1>2, <1>5, <1>8, <1>9 DEF Sound, N
<1>11. QED
  BY <1>1, <1>2, <1>7, <1>8, <1>10, UsedNone DEF Exact

\* Option o is added to packet p with the options wr, which makes it packet q.
Adds(p, wr, q, u, o) ==
  Sound(q, u, {}) /\ Exact(q, u) /\ Used(u["options"]) = Used(wr["options"]) + 2 + Len(o.data)

Extended(wr, o) == With(wr, "options", Append(wr["options"], o))

\* The size of an option's bytes.
LEMMA BytesLen == ASSUME NEW o \in Option PROVE Len(Bytes(o)) = 2 + Len(o.data) /\ Len(o.data) \in Nat
BY OptionBytes DEF Byte

\* There is room for an option and an end in what is sent.
LEMMA OptionAdded ==
  ASSUME NEW p, NEW wr, Sound(p, wr, {}), Exact(p, wr), NEW o \in Option,
         Used(wr["options"]) + 2 + Len(o.data) < OPTIONS_BUFSIZE,
         NEW c, c = memcpy(p["options"], dhcp_end_option(p["options"]), Bytes(o) \o <<END>>)
  PROVE  Adds(p, wr, With(p, "options", c), Extended(wr, o), o)
<1> DEFINE e == dhcp_end_option(p["options"])
           l == Len(o.data)
           q == With(p, "options", c)
           w == wr["options"]
           u == Extended(wr, o)
<1>1. e \in Nat /\ e = Used(w) /\ e + 2 + l < OPTIONS_BUFSIZE /\ l \in Nat /\ Len(Bytes(o)) = 2 + l
  BY BytesLen DEF Exact
<1>2. OPTIONS_BUFSIZE \in Nat /\ EXTEND \in Nat /\ Len(p["options"]) = OPTIONS_BUFSIZE + EXTEND
      /\ wr \in [Parts -> Seq(Option)] /\ w \in Seq(Option) /\ "options" \in Parts
  BY RoomAssumption DEF Sound, Parts
<1> HIDE DEF e, l
<1>3. e + Len(Bytes(o)) < Len(p["options"])
  BY <1>1, <1>2
<1>4. Sound(q, u, {}) /\ q["options"] = c /\ dhcp_end_option(c) = e + 2 + Len(o.data)
  <2>1. Puts(p, wr, {}, "options", Bytes(o), e, c)
    BY <1>3 DEF Puts, e
  <2>2. /\ Sound(With(p, "options", c), With(wr, "options", Append(wr["options"], o)), {})
        /\ dhcp_end_option(c) = e + 2 + Len(o.data)
    BY <2>1, OptionInField
  <2>3. p \in [Parts -> Seq(Byte)]
    BY DEF Sound
  <2>4. QED
    BY <1>2, <2>2, <2>3 DEF Extended, With
<1>5. u["options"] = Append(w, o)
  BY <1>2 DEF Extended, With
<1>6. Used(u["options"]) = Used(w) + 2 + Len(o.data)
  BY <1>2, <1>5, UsedAppend
<1> HIDE DEF q, u, w
<1>7. Exact(q, u)
  BY <1>1, <1>4, <1>6 DEF Exact, l
<1>8. QED
  BY <1>4, <1>6, <1>7 DEF Adds, q, u, w

\* dhcp_add_binary_option adds the option, or nothing where there is no room.
LEMMA BinaryAdded ==
  ASSUME NEW p, NEW wr, Sound(p, wr, {}), Exact(p, wr), NEW o \in Option
  PROVE  IF Used(wr["options"]) + 2 + Len(o.data) + 2 <= OPTIONS_BUFSIZE
         THEN Adds(p, wr, dhcp_add_binary_option(p, o), Extended(wr, o), o)
         ELSE dhcp_add_binary_option(p, o) = p
<1> DEFINE e == dhcp_end_option(p["options"])
           l == Len(o.data)
           c == memcpy(p["options"], e, Bytes(o) \o <<END>>)
<1>1. e \in Nat /\ e = Used(wr["options"]) /\ l \in Nat /\ OPTIONS_BUFSIZE \in Nat
  BY BytesLen, RoomAssumption DEF Exact
<1>2. dhcp_add_binary_option(p, o) =
        IF e + 2 + l + 1 >= OPTIONS_BUFSIZE THEN p ELSE With(p, "options", c)
  BY DEF dhcp_add_binary_option, With
<1>3. ASSUME e + 2 + l + 2 <= OPTIONS_BUFSIZE
      PROVE  Adds(p, wr, With(p, "options", c), Extended(wr, o), o)
  <2>1. Used(wr["options"]) + 2 + l < OPTIONS_BUFSIZE
    BY <1>1, <1>3
  <2>2. QED
    BY <2>1, OptionAdded
<1> HIDE DEF e, l, c
<1>4. QED
  BY <1>1, <1>2, <1>3 DEF l

\* The numbers that an option may have.
LEMMA NumberOption ==
  ASSUME NEW code \in Byte \ {PADDING, END, OVERLOAD}, NEW k \in {1, 2, 4}, NEW n \in Numbers[k]
  PROVE  [code |-> code, data |-> n] \in Option /\ Len(n) = k
<1>1. n \in [1 .. k -> Byte] /\ k \in Nat
  <2>1. Numbers[k] \subseteq [1 .. k -> Byte]
    BY OptionAssumption
  <2>2. k \in Nat
    OBVIOUS
  <2>3. n \in [1 .. k -> Byte]
    BY <2>1, Zenon
  <2>4. QED
    BY <2>2, <2>3, Zenon
<1>2. n \in Seq(Byte) /\ Len(n) = k
  BY <1>1, BlockSeq
<1>3. Len(n) \in Byte
  BY <1>2 DEF Byte
<1>4. QED
  BY <1>2, <1>3 DEF Option

\* Other data of an option.
LEMMA ListOption ==
  ASSUME NEW code \in Byte \ {PADDING, END, OVERLOAD}, NEW v \in RequestLists \cup SendValues
  PROVE  [code |-> code, data |-> v] \in Option /\ Len(v) \in Nat
<1>1. v \in Seq(Byte) /\ Len(v) \in Byte
  BY OptionAssumption
<1>2. QED
  BY <1>1 DEF Option

\* The codes of the options that client and server add.
LEMMA CodeBytes ==
  /\ \A code \in DOMAIN dhcp_option_lengths \cup SendCodes \cup {PARAM_REQ} :
       code \in Byte \ {PADDING, END, OVERLOAD}
  /\ \A code \in DOMAIN dhcp_option_lengths :
       dhcp_option_lengths[code] =
         IF code = MESSAGE_TYPE THEN 1 ELSE IF code = 57 THEN 2 ELSE 4
  /\ MESSAGE_TYPE \in DOMAIN dhcp_option_lengths /\ SERVER_ID \in DOMAIN dhcp_option_lengths
BY DEF dhcp_option_lengths, SendCodes, PARAM_REQ, MESSAGE_TYPE, SERVER_ID, Byte, PADDING, END, OVERLOAD

\* dhcp_add_option for a code and a number of the right length.
Opt(code, n) == [code |-> code, data |-> n]

\* The length is checked, and is right.
LEMMA NumberAdded ==
  ASSUME NEW p, NEW code \in DOMAIN dhcp_option_lengths, NEW n \in Numbers[dhcp_option_lengths[code]],
         NEW o, o = Opt(code, n)
  PROVE  /\ o \in Option /\ o.code = code /\ Len(o.data) = dhcp_option_lengths[code]
         /\ dhcp_add_option(p, o) = dhcp_add_binary_option(p, o)
<1> DEFINE k == dhcp_option_lengths[code]
<1>1. k \in {1, 2, 4} /\ code \in Byte \ {PADDING, END, OVERLOAD}
  BY CodeBytes
<1>2. n \in Numbers[k]
  OBVIOUS
<1> HIDE DEF k
<1>3. o \in Option /\ Len(n) = k
  BY <1>1, <1>2, NumberOption DEF Opt
<1>4. o.code = code /\ o.data = n
  BY DEF Opt
<1>5. QED
  BY <1>3, <1>4 DEF dhcp_add_option, check_option, k

\* The numbers in a client's packet.
Listed(w, code) == \E i \in DOMAIN w : w[i].code = code

Most(w) ==
  3 + (IF Listed(w, 50) THEN 6 ELSE 0) + (IF Listed(w, SERVER_ID) THEN 6 ELSE 0)
    + (IF Listed(w, 57) THEN 4 ELSE 0)

\* An option of a code that was not listed has its room in Most.
LEMMA MostAppend ==
  ASSUME NEW w \in Seq(Option), NEW code \in NumberCodes["client"], ~Listed(w, code), NEW o, o.code = code
  PROVE  Most(Append(w, o)) = Most(w) + 2 + dhcp_option_lengths[code] /\ Most(w) \in Nat
<1> DEFINE v == Append(w, o)
           n == Len(w)
<1>1. /\ n \in Nat /\ DOMAIN w = 1 .. n /\ DOMAIN v = 1 .. n + 1 /\ v[n + 1] = o
      /\ \A i \in 1 .. n : v[i] = w[i]
  OBVIOUS
<1> HIDE DEF v, n
<1>2. ASSUME NEW c PROVE Listed(v, c) <=> Listed(w, c) \/ c = code
  <2>1. ASSUME NEW i \in 1 .. n + 1 PROVE i = n + 1 \/ i \in 1 .. n
    BY <1>1
  <2>2. n + 1 \in 1 .. n + 1 /\ \A i \in 1 .. n : i \in 1 .. n + 1
    BY <1>1
  <2>3. QED
    BY <1>1, <2>1, <2>2 DEF Listed
<1>3. code \in {50, 54, 57} /\ SERVER_ID = 54 /\ dhcp_option_lengths[code] = IF code = 57 THEN 2 ELSE 4
  BY DEF NumberCodes, SERVER_ID, dhcp_option_lengths, MESSAGE_TYPE
<1>4. CASE code = 50
  <2>1. /\ Listed(v, 50) /\ ~Listed(w, 50) /\ (Listed(v, 54) <=> Listed(w, 54)) /\ (Listed(v, 57) <=> Listed(w, 57))
    BY <1>2, <1>4
  <2>2. QED
    BY <1>3, <1>4, <2>1 DEF Most, v
<1>5. CASE code = 54
  <2>1. /\ Listed(v, 54) /\ ~Listed(w, 54) /\ (Listed(v, 50) <=> Listed(w, 50)) /\ (Listed(v, 57) <=> Listed(w, 57))
    BY <1>2, <1>5
  <2>2. QED
    BY <1>3, <1>5, <2>1 DEF Most, v
<1>6. CASE code = 57
  <2>1. /\ Listed(v, 57) /\ ~Listed(w, 57) /\ (Listed(v, 50) <=> Listed(w, 50)) /\ (Listed(v, 54) <=> Listed(w, 54))
    BY <1>2, <1>6
  <2>2. QED
    BY <1>3, <1>6, <2>1 DEF Most, v
<1>7. QED
  BY <1>3, <1>4, <1>5, <1>6

\* The inductive invariant.
OptInv ==
  /\ Sound(packet, written, overload)
  /\ stage \in {"none", "client", "server", "send", "peer"}
  /\ stage = "none" => written = NoOptions
  /\ stage # "peer" => overload = {} /\ Exact(packet, written)
  /\ stage = "client" => Used(written["options"]) <= Most(written["options"])

\* Every code is read back from a sound packet.
LEMMA InvReads == OptInv => OptionsReadBack
<1> SUFFICES ASSUME OptInv PROVE OptionsReadBack
  OBVIOUS
<1>1. Sound(packet, written, overload) /\ (stage # "peer" => Exact(packet, written))
  BY DEF OptInv
<1>2. Written(packet, written, overload) /\ \A f \in Parts : written[f] \in Seq(Option)
  BY <1>1 DEF Sound
<1>3. ASSUME NEW code \in DOMAIN dhcp_option_lengths \cup SendCodes \cup {PARAM_REQ}
      PROVE  dhcp_get_option(packet, code) = Meant(code)
  <2>1. code \in Byte \ {PADDING, END, OVERLOAD}
    BY CodeBytes
  <2>2. Answer((written["options"] \o written["file"]) \o written["sname"], code, dhcp_get_option(packet, code))
    BY <1>2, <2>1, ReadBack
  <2>3. QED
    BY <1>2, <2>2, AnswerMeant
<1>4. stage # "peer" => dhcp_end_option(packet["options"]) < OPTIONS_BUFSIZE
  BY <1>1 DEF Exact
<1>5. QED
  BY <1>3, <1>4 DEF OptionsReadBack

\* The packet before the first option.
LEMMA BlankPacket ==
  Sound(Blank, NoOptions, {}) /\ Exact(Blank, NoOptions) /\ Used(NoOptions["options"]) = 0
<1> DEFINE N == OPTIONS_BUFSIZE + EXTEND
           z == [i \in 1 .. N |-> PADDING]
           s == [i \in 1 .. FieldSize |-> PADDING]
           c == memcpy(z, 0, <<END>>)
<1>1. N \in Nat /\ FieldSize \in Nat
  BY RoomAssumption
<1>2. z \in Seq(Byte) /\ s \in Seq(Byte) /\ Len(s) = FieldSize
  <2>1. z \in [1 .. N -> Byte] /\ s \in [1 .. FieldSize -> Byte]
    BY DEF PADDING, Byte
  <2> HIDE DEF z, s, N
  <2>2. QED
    BY <1>1, <2>1, BlockSeq
<1>3. Blank = [f \in Parts |-> IF f = "options" THEN c ELSE s]
  BY DEF Blank
<1>4. <<END>> \in Seq(Byte) /\ 0 \in Nat
  BY DEF END, Byte
<1> HIDE DEF z, s, N
<1>5. c \in Seq(Byte)
  BY <1>2, <1>4, Copied
<1> HIDE DEF c
<1>6. Blank \in [Parts -> Seq(Byte)] /\ Blank["file"] = s /\ Blank["sname"] = s
  BY <1>2, <1>3, <1>5 DEF Parts
<1>7. QED
  BY <1>2, <1>6, BlankSound

\* At the beginning.
LEMMA OptInit == OInit => OptInv
<1> SUFFICES ASSUME OInit PROVE OptInv
  OBVIOUS
<1>1. packet = Blank /\ stage = "none" /\ overload = {} /\ written = NoOptions
  BY DEF OInit, NoOptions
<1>2. QED
  BY <1>1, BlankPacket DEF OptInv

\* init_packet of the client, and the first option of the server's.
LEMMA HeaderAdds ==
  ASSUME NEW type \in Numbers[1], NEW o, o = Opt(MESSAGE_TYPE, type)
  PROVE  /\ o \in Option /\ Len(o.data) = 1
         /\ Adds(Blank, NoOptions, dhcp_init_header(type[1]), Extended(NoOptions, o), o)
<1>1. MESSAGE_TYPE \in DOMAIN dhcp_option_lengths /\ dhcp_option_lengths[MESSAGE_TYPE] = 1
  BY CodeBytes
<1>2. type \in Numbers[dhcp_option_lengths[MESSAGE_TYPE]]
  BY <1>1
<1>3. o \in Option /\ Len(o.data) = 1 /\ dhcp_add_option(Blank, o) = dhcp_add_binary_option(Blank, o)
  <2>1. /\ o \in Option /\ Len(o.data) = dhcp_option_lengths[MESSAGE_TYPE]
        /\ dhcp_add_option(Blank, o) = dhcp_add_binary_option(Blank, o)
    BY <1>1, <1>2, NumberAdded, Zenon
  <2>2. QED
    BY <1>1, <2>1, Zenon
<1>4. <<type[1]>> = type
  <2>1. Numbers[1] \subseteq [1 .. 1 -> Byte]
    BY OptionAssumption
  <2>2. type \in [1 .. 1 -> Byte]
    BY <2>1, Zenon
  <2>3. type \in Seq(Byte) /\ Len(type) = 1
    BY <2>2, BlockSeq
  <2>4. QED
    BY <2>3
<1>5. dhcp_init_header(type[1]) = dhcp_add_option(Blank, o)
  BY <1>4 DEF dhcp_init_header, Opt
<1>6. Used(NoOptions["options"]) + 2 + Len(o.data) + 2 <= OPTIONS_BUFSIZE
  <2>1. OPTIONS_BUFSIZE \in Nat /\ 22 <= OPTIONS_BUFSIZE
    BY RoomAssumption
  <2>2. Used(NoOptions["options"]) = 0 /\ Len(o.data) = 1
    BY <1>3, BlankPacket
  <2> DEFINE z == Used(NoOptions["options"])
             l == Len(o.data)
  <2>3. z = 0 /\ l = 1
    BY <2>2
  <2> HIDE DEF z, l
  <2>4. z + 2 + l + 2 <= OPTIONS_BUFSIZE
    BY <2>1, <2>3
  <2>5. QED
    BY <2>4 DEF z, l
<1>7. Adds(Blank, NoOptions, dhcp_add_binary_option(Blank, o), Extended(NoOptions, o), o)
  BY <1>3, <1>6, BlankPacket, BinaryAdded
<1>8. QED
  BY <1>3, <1>5, <1>7

\* What Record and Fits say of the packet.
LEMMA RecordAdds ==
  ASSUME NEW o, Record(o, TRUE) PROVE written' = Extended(written, o)
BY DEF Record, Extended, With

\* Each action keeps the invariant: init_packet of the client.
LEMMA ClientInit == OptInv /\ client_init_packet => OptInv'
<1> SUFFICES ASSUME OptInv, client_init_packet PROVE OptInv'
  OBVIOUS
<1>1. /\ stage = "none" /\ stage' = "client" /\ overload' = overload /\ overload = {}
      /\ written = NoOptions
  BY DEF OptInv, client_init_packet
<1>2. PICK type \in Numbers[1] :
        /\ packet' = dhcp_init_header(type[1]) /\ Record([code |-> MESSAGE_TYPE, data |-> type], TRUE)
  BY DEF client_init_packet
<1> DEFINE o == Opt(MESSAGE_TYPE, type)
<1>3. /\ o \in Option /\ Len(o.data) = 1
      /\ Adds(Blank, NoOptions, dhcp_init_header(type[1]), Extended(NoOptions, o), o)
  BY HeaderAdds
<1>4. written' = Extended(written, o)
  BY <1>2, RecordAdds DEF Opt
<1> HIDE DEF o
<1>5. Sound(packet', written', {}) /\ Exact(packet', written') /\ Used((written')["options"]) = 3
  BY <1>1, <1>2, <1>3, <1>4, BlankPacket DEF Adds
<1>6. 3 <= Most((written')["options"])
  BY DEF Most
<1>7. QED
  BY <1>1, <1>5, <1>6 DEF OptInv

\* A list of one option.
LEMMA AppendOne == ASSUME NEW x PROVE Append(<<>>, x) = <<x>>
OBVIOUS

\* A list of two options.
LEMMA AppendTwo == ASSUME NEW x, NEW y PROVE Append(<<x>>, y) = <<x, y>>
<1> DEFINE a == Append(<<x>>, y)
           b == <<x, y>>
<1>1. a \in Seq({x, y}) /\ Len(a) = 2 /\ a[1] = x /\ a[2] = y
  OBVIOUS
<1>2. b \in Seq({x, y}) /\ Len(b) = 2 /\ b[1] = x /\ b[2] = y
  OBVIOUS
<1> HIDE DEF a, b
<1>3. \A i \in 1 .. Len(a) : a[i] = b[i]
  BY <1>1, <1>2
<1>4. a = b
  BY <1>1, <1>2, <1>3, SeqEqual
<1>5. QED
  BY <1>4 DEF a, b

\* init_packet of the server.
LEMMA ServerInit == OptInv /\ server_init_packet => OptInv'
<1> SUFFICES ASSUME OptInv, server_init_packet PROVE OptInv'
  OBVIOUS
<1>1. /\ stage = "none" /\ stage' = "server" /\ overload' = overload /\ overload = {}
      /\ written = NoOptions
  BY DEF OptInv, server_init_packet
<1>2. PICK type \in Numbers[1], nip \in Numbers[4] :
        /\ packet' = dhcp_add_option(dhcp_init_header(type[1]), [code |-> SERVER_ID, data |-> nip])
        /\ written' = [written EXCEPT !.options =
                         <<[code |-> MESSAGE_TYPE, data |-> type], [code |-> SERVER_ID, data |-> nip]>>]
  BY DEF server_init_packet
<1> DEFINE t == Opt(MESSAGE_TYPE, type)
           o == Opt(SERVER_ID, nip)
           h == dhcp_init_header(type[1])
           v == Extended(NoOptions, t)
<1>3. t \in Option /\ Len(t.data) = 1 /\ Adds(Blank, NoOptions, h, v, t)
  BY HeaderAdds
<1>4. SERVER_ID \in DOMAIN dhcp_option_lengths /\ dhcp_option_lengths[SERVER_ID] = 4
  BY CodeBytes DEF SERVER_ID, MESSAGE_TYPE
<1>5. o \in Option /\ Len(o.data) = 4 /\ dhcp_add_option(h, o) = dhcp_add_binary_option(h, o)
  <2>1. nip \in Numbers[dhcp_option_lengths[SERVER_ID]]
    BY <1>4
  <2>2. /\ o \in Option /\ Len(o.data) = dhcp_option_lengths[SERVER_ID]
        /\ dhcp_add_option(h, o) = dhcp_add_binary_option(h, o)
    BY <1>4, <2>1, NumberAdded, Zenon
  <2>3. QED
    BY <1>4, <2>2, Zenon
<1>6. written' = Extended(v, o)
  <2>1. written' = [NoOptions EXCEPT !["options"] = <<t, o>>]
    BY <1>1, <1>2 DEF Opt
  <2> HIDE DEF t, o
  <2>2. Append(<<>>, t) = <<t>> /\ Append(<<t>>, o) = <<t, o>>
    BY AppendOne, AppendTwo
  <2>3. NoOptions["options"] = <<>>
    BY DEF NoOptions, Parts
  <2>4. v = [NoOptions EXCEPT !["options"] = <<t>>]
    BY <2>2, <2>3 DEF Extended, With
  <2>5. v["options"] = <<t>>
    BY <2>4 DEF NoOptions, Parts
  <2>6. Extended(v, o) = [v EXCEPT !["options"] = <<t, o>>]
    BY <2>2, <2>5 DEF Extended, With
  <2> HIDE DEF v
  <2>7. QED
    BY <2>1, <2>4, <2>6
<1> HIDE DEF t, o, h, v
<1>7. Sound(h, v, {}) /\ Exact(h, v) /\ Used(v["options"]) = 3
  BY <1>3, BlankPacket DEF Adds
<1>8. Used(v["options"]) + 2 + Len(o.data) + 2 <= OPTIONS_BUFSIZE
  BY <1>5, <1>7, RoomAssumption
<1>9. Adds(h, v, dhcp_add_binary_option(h, o), Extended(v, o), o)
  BY <1>5, <1>7, <1>8, BinaryAdded
<1>10. Sound(packet', written', {}) /\ Exact(packet', written')
  BY <1>2, <1>5, <1>6, <1>9 DEF Adds, h, o, Opt
<1>11. QED
  BY <1>1, <1>10 DEF OptInv

\* What an added option does to the invariant's parts, where it fits and where not.
LEMMA AddedOrNot ==
  ASSUME OptInv, overload = {}, Exact(packet, written), NEW o \in Option,
         packet' = dhcp_add_binary_option(packet, o), Record(o, Fits(o))
  PROVE  /\ Sound(packet', written', {}) /\ Exact(packet', written')
         /\ \/ written' = written
            \/ /\ written' = Extended(written, o)
               /\ Used((written')["options"]) = Used(written["options"]) + 2 + Len(o.data)
<1>1. Sound(packet, written, {})
  BY DEF OptInv
<1>2. IF Used(written["options"]) + 2 + Len(o.data) + 2 <= OPTIONS_BUFSIZE
      THEN Adds(packet, written, dhcp_add_binary_option(packet, o), Extended(written, o), o)
      ELSE dhcp_add_binary_option(packet, o) = packet
  BY <1>1, BinaryAdded
<1>3. CASE Fits(o)
  <2>1. written' = Extended(written, o)
    BY <1>3 DEF Record, Extended, With
  <2>2. Adds(packet, written, packet', Extended(written, o), o)
    BY <1>2, <1>3 DEF Fits
  <2>3. QED
    BY <2>1, <2>2 DEF Adds
<1>4. CASE ~Fits(o)
  <2>1. written' = written
    BY <1>4 DEF Record
  <2>2. packet' = packet
    BY <1>2, <1>4 DEF Fits
  <2>3. QED
    BY <1>1, <2>1, <2>2
<1>5. QED
  BY <1>3, <1>4

\* A number is added by dhcp_add_option.
LEMMA NumberStep == OptInv /\ AddNumber => OptInv'
<1> SUFFICES ASSUME OptInv, AddNumber PROVE OptInv'
  OBVIOUS
<1>1. /\ stage \in {"client", "server"} /\ stage' = stage /\ overload' = overload /\ overload = {}
      /\ Exact(packet, written)
  BY DEF OptInv, AddNumber
<1>2. PICK code \in NumberCodes[stage] : \E n \in Numbers[dhcp_option_lengths[code]] :
        /\ ~Has(code) /\ packet' = dhcp_add_option(packet, [code |-> code, data |-> n])
        /\ Record([code |-> code, data |-> n], Fits([code |-> code, data |-> n]))
  BY DEF AddNumber
<1>3. PICK n \in Numbers[dhcp_option_lengths[code]] :
        /\ ~Has(code) /\ packet' = dhcp_add_option(packet, [code |-> code, data |-> n])
        /\ Record([code |-> code, data |-> n], Fits([code |-> code, data |-> n]))
  BY <1>2
<1> DEFINE o == Opt(code, n)
<1>4. code \in DOMAIN dhcp_option_lengths
  BY <1>1 DEF NumberCodes, dhcp_option_lengths, SERVER_ID
<1>5. /\ o \in Option /\ o.code = code /\ Len(o.data) = dhcp_option_lengths[code]
      /\ dhcp_add_option(packet, o) = dhcp_add_binary_option(packet, o)
  BY <1>4, NumberAdded, Zenon
<1>6. packet' = dhcp_add_binary_option(packet, o) /\ Record(o, Fits(o))
  BY <1>3, <1>5 DEF Opt
<1> HIDE DEF o
<1>7. /\ Sound(packet', written', {}) /\ Exact(packet', written')
      /\ \/ written' = written
         \/ /\ written' = Extended(written, o)
            /\ Used((written')["options"]) = Used(written["options"]) + 2 + Len(o.data)
  BY <1>1, <1>5, <1>6, AddedOrNot
<1>8. ASSUME stage = "client" PROVE Used((written')["options"]) <= Most((written')["options"])
  <2> DEFINE w == written["options"]
  <2>1. Used(w) <= Most(w) /\ Used(w) \in Nat /\ w \in Seq(Option) /\ written \in [Parts -> Seq(Option)]
    BY <1>1, <1>8 DEF OptInv, Exact, Sound, Parts
  <2>2. CASE written' = written
    BY <2>1, <2>2
  <2>3. CASE /\ written' = Extended(written, o)
             /\ Used((written')["options"]) = Used(w) + 2 + Len(o.data)
    <3>1. (written')["options"] = Append(w, o)
      BY <2>1, <2>3 DEF Extended, With, Parts
    <3>2. code \in NumberCodes["client"] /\ ~Listed(w, code)
      BY <1>3, <1>8 DEF Has, Listed
    <3>3. Most(Append(w, o)) = Most(w) + 2 + dhcp_option_lengths[code] /\ Most(w) \in Nat
      BY <1>5, <2>1, <3>2, MostAppend
    <3>4. dhcp_option_lengths[code] \in Nat
      BY <1>4, CodeBytes
    <3> DEFINE k == dhcp_option_lengths[code]
               x == Used(w)
               y == Most(w)
    <3>5. x \in Nat /\ y \in Nat /\ k \in Nat /\ x <= y
      BY <2>1, <3>3, <3>4
    <3>6. Used((written')["options"]) = x + 2 + k /\ Most((written')["options"]) = y + 2 + k
      BY <1>5, <2>3, <3>1, <3>3
    <3> HIDE DEF k, x, y
    <3>7. x + 2 + k <= y + 2 + k
      BY <3>5
    <3>8. QED
      BY <3>6, <3>7
  <2>4. QED
    BY <1>7, <2>2, <2>3
<1>9. QED
  BY <1>1, <1>7, <1>8 DEF OptInv

\* add_send_options.
LEMMA SendStep == OptInv /\ add_send_options => OptInv'
<1> SUFFICES ASSUME OptInv, add_send_options PROVE OptInv'
  OBVIOUS
<1>1. /\ stage = "send" /\ stage' = stage /\ overload' = overload /\ overload = {}
      /\ Exact(packet, written)
  BY DEF OptInv, add_send_options
<1>2. PICK code \in SendCodes, v \in SendValues :
        /\ packet' = dhcp_add_binary_option(packet, [code |-> code, data |-> v])
        /\ Record([code |-> code, data |-> v], Fits([code |-> code, data |-> v]))
  BY DEF add_send_options
<1> DEFINE o == Opt(code, v)
<1>3. code \in Byte \ {PADDING, END, OVERLOAD}
  BY CodeBytes
<1>4. o \in Option
  BY <1>3, ListOption DEF Opt
<1>5. packet' = dhcp_add_binary_option(packet, o) /\ Record(o, Fits(o))
  BY <1>2 DEF Opt
<1> HIDE DEF o
<1>6. Sound(packet', written', {}) /\ Exact(packet', written')
  BY <1>1, <1>4, <1>5, AddedOrNot
<1>7. QED
  BY <1>1, <1>6 DEF OptInv

\* add_request_options, which does not look whether there is room.
LEMMA RequestStep == OptInv /\ add_request_options => OptInv'
<1> SUFFICES ASSUME OptInv, add_request_options PROVE OptInv'
  OBVIOUS
<1>1. /\ stage = "client" /\ stage' = "send" /\ overload' = overload /\ overload = {}
      /\ Exact(packet, written) /\ Sound(packet, written, {})
      /\ Used(written["options"]) <= Most(written["options"])
  BY DEF OptInv, add_request_options
<1>2. PICK r \in RequestLists :
        /\ packet' = IF r = <<>> THEN packet
                     ELSE [packet EXCEPT !.options = memcpy(@, dhcp_end_option(packet.options),
                                                            Bytes([code |-> PARAM_REQ, data |-> r]) \o <<END>>)]
        /\ Record([code |-> PARAM_REQ, data |-> r], r # <<>>)
  BY DEF add_request_options
<1> DEFINE o == Opt(PARAM_REQ, r)
           c == memcpy(packet["options"], dhcp_end_option(packet["options"]), Bytes(o) \o <<END>>)
<1>3. CASE r = <<>>
  <2>1. packet' = packet /\ written' = written
    BY <1>2, <1>3 DEF Record
  <2>2. QED
    BY <1>1, <2>1 DEF OptInv
<1>4. CASE r # <<>>
  <2>1. packet' = With(packet, "options", c) /\ written' = Extended(written, o)
    BY <1>2, <1>4 DEF Record, Extended, With, Opt
  <2>2. o \in Option /\ Len(o.data) = Len(r) /\ Len(r) \in Nat
    BY CodeBytes, ListOption DEF Opt
  <2>3. 3 + 6 + 6 + 4 + 2 + Len(r) + 1 <= OPTIONS_BUFSIZE /\ OPTIONS_BUFSIZE \in Nat
    BY RoomAssumption
  <2> DEFINE u == Used(written["options"])
             l == Len(o.data)
             y == Most(written["options"])
  <2>4. y <= 19 /\ y \in Nat
    BY DEF Most
  <2>5. u \in Nat /\ u <= y /\ l \in Nat /\ 22 + l <= OPTIONS_BUFSIZE
    <3>1. u \in Nat /\ u <= y
      BY <1>1 DEF Exact
    <3>2. QED
      BY <2>2, <2>3, <3>1
  <2> HIDE DEF u, l, y, o
  <2>6. u + 2 + l < OPTIONS_BUFSIZE
    BY <2>3, <2>4, <2>5
  <2>7. Adds(packet, written, With(packet, "options", c), Extended(written, o), o)
    BY <1>1, <2>2, <2>6, OptionAdded DEF u, l
  <2>8. Sound(packet', written', {}) /\ Exact(packet', written')
    BY <2>1, <2>7 DEF Adds
  <2>9. QED
    BY <1>1, <2>8 DEF OptInv
<1>5. QED
  BY <1>3, <1>4

\* A peer begins a packet.
LEMMA PeerBegin == OptInv /\ PeerBegins => OptInv'
<1> SUFFICES ASSUME OptInv, PeerBegins PROVE OptInv'
  OBVIOUS
<1> DEFINE s == [i \in 1 .. FieldSize |-> Text]
<1>1. /\ stage' = "peer" /\ overload' = overload /\ overload = {} /\ written' = NoOptions
      /\ packet' = [f \in Parts |-> IF f = "options" THEN Blank[f] ELSE s]
  BY DEF OptInv, PeerBegins
<1>2. s \in Seq(Byte) /\ Len(s) = FieldSize
  <2>1. s \in [1 .. FieldSize -> Byte] /\ FieldSize \in Nat
    BY RoomAssumption DEF Text, Byte
  <2> HIDE DEF s
  <2>2. QED
    BY <2>1, BlockSeq
<1> HIDE DEF s
<1>3. Blank["options"] \in Seq(Byte)
  BY BlankPacket DEF Sound, Parts
<1>4. /\ packet' \in [Parts -> Seq(Byte)] /\ (packet')["options"] = Blank["options"]
      /\ (packet')["file"] = s /\ (packet')["sname"] = s
  BY <1>1, <1>2, <1>3 DEF Parts
<1>5. Sound(packet', NoOptions, {})
  BY <1>2, <1>4, BlankSound
<1>6. QED
  BY <1>1, <1>5 DEF OptInv

\* What PutBytes does.
LEMMA BytesPut ==
  ASSUME OptInv, NEW f, NEW bytes, PutBytes(f, bytes)
  PROVE  \E e, c : /\ Puts(packet, written, overload, f, bytes, e, c)
                   /\ packet' = With(packet, f, c) /\ stage = "peer" /\ stage' = "peer"
<1> DEFINE e == dhcp_end_option(packet[f])
           c == memcpy(packet[f], e, bytes \o <<END>>)
<1>1. Sound(packet, written, overload)
  BY DEF OptInv
<1>2. /\ f \in {"options"} \cup overload /\ e + Len(bytes) < Len(packet[f])
      /\ packet' = With(packet, f, c) /\ stage = "peer" /\ stage' = "peer"
  BY DEF PutBytes, With
<1>3. Puts(packet, written, overload, f, bytes, e, c)
  BY <1>1, <1>2 DEF Puts
<1>4. QED
  BY <1>2, <1>3

\* A peer puts a padding.
LEMMA PadStep == OptInv /\ PeerPads => OptInv'
<1> SUFFICES ASSUME OptInv, PeerPads PROVE OptInv'
  OBVIOUS
<1>1. PICK f \in Parts : PutBytes(f, <<PADDING>>) /\ overload' = overload /\ written' = written
  BY DEF PeerPads
<1>2. PICK e, c : /\ Puts(packet, written, overload, f, <<PADDING>>, e, c)
                  /\ packet' = With(packet, f, c) /\ stage = "peer" /\ stage' = "peer"
  BY <1>1, BytesPut
<1>3. Sound(packet', written', overload')
  BY <1>1, <1>2, PaddingInField
<1>4. QED
  BY <1>2, <1>3 DEF OptInv

\* A peer puts an option.
LEMMA PutStep == OptInv /\ PeerPuts => OptInv'
<1> SUFFICES ASSUME OptInv, PeerPuts PROVE OptInv'
  OBVIOUS
<1>1. PICK f \in Parts, o \in PeerOptions :
        /\ PutBytes(f, Bytes(o)) /\ overload' = overload
        /\ written' = [written EXCEPT ![f] = Append(@, o)]
  BY DEF PeerPuts
<1>2. PICK e, c : /\ Puts(packet, written, overload, f, Bytes(o), e, c)
                  /\ packet' = With(packet, f, c) /\ stage = "peer" /\ stage' = "peer"
  BY <1>1, BytesPut
<1>3. o \in Option /\ written' = With(written, f, Append(written[f], o))
  BY <1>1, OptionAssumption DEF With
<1>4. Sound(packet', written', overload')
  <2>1. Sound(With(packet, f, c), With(written, f, Append(written[f], o)), overload)
    BY <1>2, <1>3, OptionInField, Zenon
  <2>2. QED
    BY <1>1, <1>2, <1>3, <2>1
<1>5. QED
  BY <1>2, <1>4 DEF OptInv

\* A field that is taken into use begins with an end.
LEMMA FieldTaken ==
  ASSUME NEW blk \in Seq(Byte), Len(blk) = FieldSize, NEW c, c = memcpy(blk, 0, <<END>>)
  PROVE  c \in Seq(Byte) /\ Len(c) = FieldSize /\ Carries(c, <<>>, {})
<1> DEFINE s == <<END>>
<1>1. FieldSize \in Nat /\ 1 <= FieldSize
  BY RoomAssumption
<1>2. s \in Seq(Byte) /\ 0 \in Nat /\ 1 \in 1 .. Len(s) /\ s[1] = END /\ c = memcpy(blk, 0, s)
      /\ 0 + 1 <= Len(blk) /\ 0 + 1 = 1
  BY <1>1 DEF END, Byte
<1> HIDE DEF s
<1>3. /\ memcpy(blk, 0, s) \in Seq(Byte) /\ Len(memcpy(blk, 0, s)) = Len(blk)
      /\ \A i \in 1 .. Len(s) : 0 + i <= Len(blk) => memcpy(blk, 0, s)[0 + i] = s[i]
  BY <1>2, Copied, Zenon
<1>4. c \in Seq(Byte) /\ Len(c) = FieldSize /\ c[0 + 1] = END
  BY <1>2, <1>3, Zenon
<1>5. c # <<>> /\ c[1] = END
  BY <1>1, <1>2, <1>4
<1>6. QED
  BY <1>4, <1>5, CarriesNothing

\* A peer puts an overload option.
LEMMA OverloadStep == OptInv /\ PeerOverloads => OptInv'
<1> SUFFICES ASSUME OptInv, PeerOverloads PROVE OptInv'
  OBVIOUS
<1>1. Sound(packet, written, {}) /\ overload = {} /\ stage = "peer" /\ stage' = "peer" /\ written' = written
  BY DEF OptInv, PeerOverloads
<1> DEFINE e == dhcp_end_option(packet["options"])
           blk == packet["options"]
           w == written["options"]
<1>2. PICK b \in 1 .. 3 :
        /\ overload' = Fields(b) /\ e + 4 <= Len(blk)
        /\ packet' = [f \in Parts |->
             IF f = "options" THEN memcpy(blk, e, <<OVERLOAD, 1, b>> \o <<END>>)
             ELSE IF f \in Fields(b) THEN memcpy(packet[f], 0, <<END>>) ELSE packet[f]]
  BY DEF PeerOverloads
<1> DEFINE c == memcpy(blk, e, <<OVERLOAD, 1, b>> \o <<END>>)
           ov == Fields(b)
<1>3. /\ packet \in [Parts -> Seq(Byte)] /\ written \in [Parts -> Seq(Option)]
      /\ blk \in Seq(Byte) /\ w \in Seq(Option) /\ Carries(blk, w, {}) /\ Len(blk) = OPTIONS_BUFSIZE + EXTEND
      /\ \A f \in {"file", "sname"} : packet[f] \in Seq(Byte) /\ Len(packet[f]) = FieldSize /\ written[f] = <<>>
  BY <1>1 DEF Sound, Written, Parts
<1>4. ov \subseteq {"file", "sname"}
  BY FieldsType
<1>5. (packet')["options"] = c
  BY <1>2 DEF Parts
<1>6. ASSUME NEW f \in {"file", "sname"}
      PROVE  (packet')[f] = IF f \in ov THEN memcpy(packet[f], 0, <<END>>) ELSE packet[f]
  BY <1>2 DEF Parts
<1>7. Carries(c, w, {} \cup ov) /\ c \in Seq(Byte) /\ Len(c) = Len(blk)
  <2>1. Overloads(blk, w, {}, b, e, c)
    BY <1>2, <1>3 DEF Overloads
  <2> HIDE DEF e, blk, w, c
  <2>2. QED
    BY <2>1, OverloadPut
<1> HIDE DEF c, ov, e, blk, w
<1>8. {} \cup ov = ov
  OBVIOUS
<1>9. ASSUME NEW f \in {"file", "sname"}
      PROVE  /\ (packet')[f] \in Seq(Byte) /\ Len((packet')[f]) = FieldSize
             /\ IF f \in ov THEN Carries((packet')[f], written[f], {}) ELSE written[f] = <<>>
  <2>1. packet[f] \in Seq(Byte) /\ Len(packet[f]) = FieldSize /\ written[f] = <<>>
    BY <1>3
  <2>2. CASE f \in ov
    <3>1. (packet')[f] = memcpy(packet[f], 0, <<END>>)
      BY <1>6, <2>2
    <3>2. QED
      BY <2>1, <2>2, <3>1, FieldTaken
  <2>3. CASE f \notin ov
    BY <1>6, <2>1, <2>3
  <2>4. QED
    BY <2>2, <2>3
<1>10. \A f \in Parts : (packet')[f] \in Seq(Byte) /\ (written')[f] \in Seq(Option)
  BY <1>1, <1>3, <1>5, <1>7, <1>9 DEF Parts
<1>11. packet' \in [Parts -> Seq(Byte)]
  <2>1. packet' = [f \in Parts |-> (packet')[f]]
    BY <1>2
  <2>2. QED
    BY <1>10, <2>1
<1>12. Written(packet', written', ov)
  BY <1>1, <1>4, <1>5, <1>7, <1>8, <1>9, <1>10 DEF Written, w
<1>13. Sound(packet', written', overload')
  BY <1>1, <1>2, <1>3, <1>5, <1>7, <1>9, <1>11, <1>12 DEF Sound, ov
<1>14. QED
  BY <1>1, <1>13 DEF OptInv

\* dhcp_get_option, dhcp_add_binary_option: whatever the sizes of the fields, the
\* numbers, the lists and the peer's options are, the receiver of a packet finds
\* exactly what was put into it, and the end is inside of what is sent.
THEOREM OptionsReadBackHolds == OSpec => []OptionsReadBack
<1>1. OInit => OptInv
  BY OptInit
<1>2. OptInv /\ [ONext]_ovars => OptInv'
  <2> SUFFICES ASSUME OptInv, [ONext]_ovars PROVE OptInv'
    OBVIOUS
  <2>1. CASE UNCHANGED ovars
    <3>1. packet' = packet /\ stage' = stage /\ overload' = overload /\ written' = written
      BY <2>1 DEF ovars
    <3>2. QED
      BY <3>1 DEF OptInv
  <2>2. CASE client_init_packet
    BY <2>2, ClientInit
  <2>3. CASE server_init_packet
    BY <2>3, ServerInit
  <2>4. CASE AddNumber
    BY <2>4, NumberStep
  <2>5. CASE add_request_options
    BY <2>5, RequestStep
  <2>6. CASE add_send_options
    BY <2>6, SendStep
  <2>7. CASE PeerBegins
    BY <2>7, PeerBegin
  <2>8. CASE PeerPads
    BY <2>8, PadStep
  <2>9. CASE PeerPuts
    BY <2>9, PutStep
  <2>10. CASE PeerOverloads
    BY <2>10, OverloadStep
  <2>11. QED
    BY <2>1, <2>2, <2>3, <2>4, <2>5, <2>6, <2>7, <2>8, <2>9, <2>10 DEF ONext
<1>3. QED
  BY <1>1, <1>2, InvReads, PTL DEF OSpec

=============================================================================

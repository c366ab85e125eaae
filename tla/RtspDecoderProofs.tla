-------------------------- MODULE RtspDecoderProofs -------------------------
(***************************************************************************)
(* Proofs about RtspDecoder, for every alphabet, every length of chunks    *)
(* and streams and every initial number of header slots: the border        *)
(* between what was parsed and what was not is never lost, the states mean *)
(* what the next character relies on, and header lines fit their array.    *)
(*                                                                         *)
(* The argument is about one character at a time: whatever feed_char does  *)
(* with it, it drops a prefix of the ring, and what is left of the bytes   *)
(* that were parsed is what rlen says.                                     *)
(*                                                                         *)
(* How the peer cuts the stream into reads does not matter either: a       *)
(* character does the same to a decoder with more bytes behind it in the   *)
(* ring, so parsing after a chunk goes on where replaying it stopped.      *)
(***************************************************************************)
EXTENDS RtspDecoder, SequenceTheorems, WellFoundedInduction, TLAPS

\* Header lines as they are stored, decoders, and the outcome of a character.
Line == {sanitize_header_line(l) : l \in Seq(Char)}

Decoder ==
  [ring : Seq(Char), rlen : Nat, state : States, last_chr : Char \cup {None},
   remaining_body : Nat, quoted : BOOLEAN, header : Seq(Line), header_size : Nat]

Result ==
  [dec : Decoder, out : Seq([header : Seq(Line), body : Seq(Char)]),
   alloc : BOOLEAN, err : BOOLEAN]

\* The ring of e is the ring of d without its first k bytes.
Dropped(d, e, k) ==
  /\ Len(e.ring) = Len(d.ring) - k
  /\ \A i \in 1 .. Len(e.ring) : e.ring[i] = d.ring[i + k]

\* HeaderFits and StateMeaning of a decoder that is not in dec.
Fits(d) == Len(d.header) + 1 < d.header_size

Means(d) ==
  /\ d.state = "HEADER_NL" => d.rlen = 1 /\ d.ring[1] = CR
  /\ d.state = "BODY" => d.remaining_body > 0
  /\ d.state = "NEW" => \A i \in 1 .. d.rlen : d.ring[i] \in {CR, LF, SP}
  /\ d.state \in {"HEADER", "HEADER_QUOTE"} => d.rlen > 0

\* The decoder d is about to parse ch, and e has parsed it.
Before(d, ch) ==
  /\ d \in Decoder /\ ch \in Char
  /\ d.rlen < Len(d.ring) /\ d.ring[d.rlen + 1] = ch
  /\ Fits(d)

After(d, e) ==
  /\ e.rlen <= d.rlen + 1 /\ Dropped(d, e, d.rlen + 1 - e.rlen)
  /\ Fits(e) /\ Means(e)

Parsed(d, r) == r \in Result /\ (~r.err => After(d, r.dec))

-----------------------------------------------------------------------------
USE ConstantsAssumption DEF States

\* Dropping twice is dropping the sum.
LEMMA DroppedTwice ==
  ASSUME NEW c \in Decoder, NEW d \in Decoder, NEW e \in Decoder, NEW j \in Nat, NEW k \in Nat,
         Dropped(c, d, j), Dropped(d, e, k)
  PROVE  Dropped(c, e, j + k)
<1>1. Len(c.ring) \in Nat /\ Len(d.ring) \in Nat /\ Len(e.ring) \in Nat
  BY DEF Decoder
<1>2. Len(e.ring) = Len(d.ring) - k /\ Len(d.ring) = Len(c.ring) - j
  BY DEF Dropped
<1>3. ASSUME NEW i \in 1 .. Len(e.ring) PROVE e.ring[i] = c.ring[i + (j + k)]
  <2>1. i + k \in 1 .. Len(d.ring) /\ (i + k) + j = i + (j + k)
    BY <1>1, <1>2
  <2>2. e.ring[i] = d.ring[i + k]
    BY DEF Dropped
  <2>3. d.ring[i + k] = c.ring[(i + k) + j]
    BY <2>1 DEF Dropped
  <2>4. QED
    BY <2>1, <2>2, <2>3
<1>4. QED
  BY <1>1, <1>2, <1>3 DEF Dropped

\* shl_ring_pull drops bytes of the ring and touches nothing else.
LEMMA PullEffect ==
  ASSUME NEW d \in Decoder, NEW n \in Nat, n <= Len(d.ring)
  PROVE  /\ pull(d, n) \in Decoder
         /\ Dropped(d, pull(d, n), n)
         /\ \A f \in DOMAIN d \ {"ring"} : pull(d, n)[f] = d[f]
<1>1. d.ring \in Seq(Char) /\ Len(d.ring) \in Nat
  BY DEF Decoder
<1>2. /\ Ring!Drop(d.ring, n) \in Seq(Char)
      /\ Len(Ring!Drop(d.ring, n)) = Len(d.ring) - n
      /\ \A i \in 1 .. Len(d.ring) - n : Ring!Drop(d.ring, n)[i] = d.ring[i + n]
  <2>1. CASE n = Len(d.ring)
    BY <1>1, <2>1 DEF Ring!Drop
  <2>2. CASE n < Len(d.ring)
    <3>1. Ring!Drop(d.ring, n) = SubSeq(d.ring, n + 1, Len(d.ring))
      BY <1>1, <2>2 DEF Ring!Drop
    <3>2. QED
      BY <1>1, <2>2, <3>1
  <2>3. QED
    BY <1>1, <2>1, <2>2
<1>3. pull(d, n) = [d EXCEPT !.ring = Ring!Drop(d.ring, n)]
  BY DEF pull
<1>4. QED
  BY <1>1, <1>2, <1>3 DEF Decoder, Dropped

\* A header line that is finished is taken off the ring and stored, with a slot
\* left behind it, or it is an error.
LEMMA FinishEffect ==
  ASSUME NEW d \in Decoder, d.rlen <= Len(d.ring), Fits(d)
  PROVE  /\ finish_header_line(d) \in Result
         /\ ~finish_header_line(d).err =>
              LET e == finish_header_line(d).dec
              IN  e.rlen = 0 /\ Dropped(d, e, d.rlen) /\ e.state = d.state /\ Fits(e)
<1> DEFINE raw  == Ring!Take(d.ring, d.rlen)
           line == sanitize_header_line(raw)
           p    == [pull(d, d.rlen) EXCEPT !.rlen = 0]
           h    == parse_header_line(p, line)
           e    == push_header_line(h, line)
<1>1. line \in Line
  <2>1. raw \in Seq(Char)
    BY DEF Ring!Take, Decoder
  <2>2. QED
    BY <2>1 DEF Line
<1>2. /\ p \in Decoder /\ p.rlen = 0 /\ p.state = d.state /\ Dropped(d, p, d.rlen)
      /\ p.header = d.header /\ p.header_size = d.header_size
  <2> DEFINE q == pull(d, d.rlen)
  <2>1. /\ q \in Decoder /\ Dropped(d, q, d.rlen) /\ q.state = d.state
        /\ q.header = d.header /\ q.header_size = d.header_size
    <3>1. /\ q \in Decoder /\ Dropped(d, q, d.rlen)
          /\ \A f \in DOMAIN d \ {"ring"} : q[f] = d[f]
      <4>1. d.rlen \in Nat
        BY DEF Decoder
      <4>2. QED
        BY <4>1, PullEffect
    <3>2. QED
      BY <3>1 DEF Decoder
  <2>2. p = [q EXCEPT !.rlen = 0]
    OBVIOUS
  <2> HIDE DEF p, q
  <2>3. QED
    BY <2>1, <2>2 DEF Decoder, Dropped
<1> HIDE DEF raw, line, p
<1>3. /\ h \in Decoder /\ h.rlen = 0 /\ h.state = d.state /\ h.ring = p.ring
      /\ h.header = d.header /\ h.header_size = d.header_size
  BY <1>2 DEF parse_header_line, IsContentLength, Decoder
<1> HIDE DEF h
<1>4. /\ e \in Decoder /\ e.rlen = 0 /\ e.state = d.state /\ e.ring = p.ring /\ Fits(e)
  <2>1. /\ d.header \in Seq(Line) /\ d.header_size \in Nat
        /\ Append(d.header, line) \in Seq(Line)
        /\ Len(Append(d.header, line)) = Len(d.header) + 1
        /\ Len(d.header) \in Nat
    BY <1>1 DEF Decoder
  <2> DEFINE n == IF d.header_size = Len(d.header) + 2 THEN 2 * d.header_size ELSE d.header_size
  <2>2. e = [h EXCEPT !.header = Append(d.header, line), !.header_size = n]
    BY <1>3 DEF push_header_line
  <2>3. n \in Nat /\ Len(d.header) + 2 < n
    BY <2>1 DEF Fits
  <2> HIDE DEF e, n
  <2>4. /\ e \in Decoder /\ e.rlen = h.rlen /\ e.state = h.state /\ e.ring = h.ring
        /\ e.header = Append(d.header, line) /\ e.header_size = n
    BY <1>3, <2>1, <2>2, <2>3 DEF Decoder
  <2>5. QED
    BY <1>3, <2>1, <2>3, <2>4 DEF Fits
<1> HIDE DEF e
<1>5. finish_header_line(d) = [dec |-> IF parse_fails(p, line) THEN p ELSE e, out |-> <<>>,
                               alloc |-> TRUE, err |-> parse_fails(p, line)]
  BY DEF finish_header_line, raw, line, p, h, e
<1>6. QED
  BY <1>2, <1>4, <1>5 DEF Result, Dropped, parse_fails, IsContentLength

\* A character that is only counted.
LEMMA SeenEffect ==
  ASSUME NEW d \in Decoder
  PROVE  /\ seen(d) \in Decoder /\ seen(d).rlen = d.rlen + 1
         /\ \A f \in DOMAIN d \ {"rlen"} : seen(d)[f] = d[f]
<1>1. d.rlen + 1 \in Nat
  BY DEF Decoder
<1>2. QED
  BY <1>1 DEF seen, Decoder

\* A decoder with one more byte counted and the ring as it was.
LEMMA CountedAfter ==
  ASSUME NEW d \in Decoder, NEW e \in Decoder, Fits(d), Means(e),
         e.rlen = d.rlen + 1, e.ring = d.ring, e.header = d.header, e.header_size = d.header_size
  PROVE  After(d, e)
<1>1. d.rlen \in Nat /\ d.ring \in Seq(Char) /\ Len(d.ring) \in Nat
  BY DEF Decoder
<1>2. d.rlen + 1 - e.rlen = 0
  BY <1>1
<1>3. Dropped(d, e, 0)
  BY <1>1 DEF Dropped
<1>4. QED
  BY <1>1, <1>2, <1>3 DEF After, Fits

\* A step that only returns the decoder it has worked out.
LEMMA OkEffect ==
  ASSUME NEW d, NEW e \in Decoder, After(d, e)
  PROVE  Parsed(d, Ok(e))
BY DEF Parsed, Ok, Result

\* STATE_NEW: blanks pile up in the ring until a message begins.
LEMMA NewStep ==
  ASSUME NEW d, NEW ch, Before(d, ch), Means(d), d.state = "NEW"
  PROVE  Parsed(d, feed_char_new(d, ch))
<1>0. d \in Decoder /\ d.rlen \in Nat /\ d.ring \in Seq(Char) /\ Len(d.ring) \in Nat
  BY DEF Before, Decoder
<1>1. CASE ch \in {CR, LF, SP}
  <2>1. After(d, seen(d))
    <3>1. seen(d).rlen = d.rlen + 1 /\ seen(d).ring = d.ring /\ seen(d).state = "NEW" /\ Fits(seen(d))
      BY <1>0, SeenEffect DEF Before, Fits, Decoder
    <3>2. Means(seen(d))
      BY <1>0, <1>1, <3>1 DEF Means, Before
    <3>3. QED
      BY <1>0, <3>1, <3>2, SeenEffect, CountedAfter DEF Before, Decoder
  <2>2. QED
    BY <1>0, <1>1, <2>1, OkEffect, SeenEffect DEF feed_char_new
<1>2. CASE ch \notin {CR, LF, SP}
  <2> DEFINE q == pull(d, d.rlen)
             e == [q EXCEPT !.state = "HEADER", !.remaining_body = 0, !.rlen = 1]
  <2>1. q \in Decoder /\ Dropped(d, q, d.rlen) /\ q.header = d.header /\ q.header_size = d.header_size
    <3>1. /\ q \in Decoder /\ Dropped(d, q, d.rlen)
          /\ \A f \in DOMAIN d \ {"ring"} : q[f] = d[f]
      BY <1>0, PullEffect DEF Before
    <3>2. QED
      BY <1>0, <3>1 DEF Decoder
  <2> HIDE DEF q
  <2>2. /\ e \in Decoder /\ e.rlen = 1 /\ e.ring = q.ring /\ e.state = "HEADER"
        /\ e.header = d.header /\ e.header_size = d.header_size
    BY <2>1 DEF Decoder
  <2> HIDE DEF e
  <2>3. After(d, e)
    BY <1>0, <2>1, <2>2 DEF After, Dropped, Means, Before, Fits
  <2>4. feed_char_new(d, ch) = Ok(e)
    BY <1>2 DEF feed_char_new, q, e
  <2>5. QED
    BY <2>2, <2>3, <2>4, OkEffect
<1>3. QED
  BY <1>1, <1>2

\* STATE_BODY: the last byte of the body completes the message.
LEMMA BodyStep ==
  ASSUME NEW d, NEW ch, Before(d, ch), d.state = "BODY", d.remaining_body = 0 => d.rlen = 0
  PROVE  Parsed(d, feed_char_body(d, ch))
<1>0. /\ d \in Decoder /\ d.rlen \in Nat /\ d.ring \in Seq(Char) /\ Len(d.ring) \in Nat
      /\ d.remaining_body \in Nat
  BY DEF Before, Decoder
<1>1. CASE d.remaining_body = 0
  <2> DEFINE e == [d EXCEPT !.state = "NEW"]
  <2>1. /\ e \in Decoder /\ e.rlen = d.rlen /\ e.ring = d.ring /\ e.state = "NEW"
        /\ e.header = d.header /\ e.header_size = d.header_size
    BY <1>0 DEF Decoder
  <2>2. feed_char_body(d, ch) = feed_char_new(e, ch)
    BY <1>1 DEF feed_char_body
  <2> HIDE DEF e
  <2>3. Before(e, ch) /\ Means(e)
    BY <1>0, <1>1, <2>1 DEF Before, Means, Fits
  <2>4. Parsed(e, feed_char_new(e, ch))
    BY <2>1, <2>3, NewStep
  <2>5. QED
    BY <2>1, <2>2, <2>4 DEF Parsed, After, Dropped
<1>2. CASE d.remaining_body > 1
  <2> DEFINE q == seen(d)
             e == [q EXCEPT !.remaining_body = d.remaining_body - 1]
  <2>1. /\ q \in Decoder /\ q.rlen = d.rlen + 1 /\ q.ring = d.ring /\ q.state = "BODY"
        /\ q.header = d.header /\ q.header_size = d.header_size
    BY <1>0, SeenEffect DEF Decoder
  <2>2. feed_char_body(d, ch) = Ok(e)
    BY <1>0, <1>2 DEF feed_char_body
  <2> HIDE DEF q
  <2>3. /\ e \in Decoder /\ e.rlen = d.rlen + 1 /\ e.ring = d.ring /\ e.state = "BODY"
        /\ e.header = d.header /\ e.header_size = d.header_size
        /\ e.remaining_body = d.remaining_body - 1
    <3>1. d.remaining_body - 1 \in Nat
      BY <1>0, <1>2
    <3>2. QED
      BY <1>0, <2>1, <3>1 DEF Decoder
  <2> HIDE DEF e
  <2>4. After(d, e)
    <3>1. Means(e)
      BY <1>0, <1>2, <2>3 DEF Means
    <3>2. QED
      BY <1>0, <2>3, <3>1, CountedAfter DEF Before
  <2>5. QED
    BY <2>2, <2>3, <2>4, OkEffect
<1>3. CASE d.remaining_body = 1
  <2> DEFINE b == [d EXCEPT !.remaining_body = 0]
             c == [b EXCEPT !.header = <<>>]
             p == pull(c, d.rlen + 1)
             e == [p EXCEPT !.state = "NEW", !.rlen = 0]
             o == <<[header |-> b.header, body |-> Ring!Take(d.ring, d.rlen + 1)]>>
  <2>1. /\ b \in Decoder /\ b.rlen = d.rlen /\ b.ring = d.ring /\ b.header = d.header
        /\ b.header_size = d.header_size
    BY <1>0 DEF Decoder
  <2>2. feed_char_body(d, ch) = [dec |-> e, out |-> o, alloc |-> TRUE, err |-> FALSE]
    <3> HIDE DEF b, o
    <3>1. msg_done(b, Ring!Take(d.ring, d.rlen + 1)) = [dec |-> c, out |-> o, alloc |-> TRUE, err |-> FALSE]
      BY DEF msg_done, o
    <3>2. feed_char_body(d, ch) =
            LET r == msg_done(b, Ring!Take(d.ring, d.rlen + 1))
            IN  [r EXCEPT !.dec = [pull(r.dec, d.rlen + 1) EXCEPT !.state = "NEW", !.rlen = 0]]
      BY <1>3 DEF feed_char_body, b
    <3> DEFINE r == msg_done(b, Ring!Take(d.ring, d.rlen + 1))
    <3>3. r.dec = c
      BY <3>1
    <3>4. feed_char_body(d, ch) = [r EXCEPT !.dec = e]
      BY <3>2, <3>3
    <3> HIDE DEF r, e
    <3>5. r = [dec |-> c, out |-> o, alloc |-> TRUE, err |-> FALSE]
      BY <3>1 DEF r
    <3>6. QED
      BY <3>4, <3>5
  <2>3. o \in Seq([header : Seq(Line), body : Seq(Char)])
    <3>1. Ring!Take(d.ring, d.rlen + 1) \in Seq(Char)
      BY <1>0 DEF Ring!Take, Before
    <3>2. QED
      BY <2>1, <3>1 DEF Decoder
  <2> HIDE DEF b, o
  <2>4. /\ c \in Decoder /\ c.rlen = d.rlen /\ c.ring = d.ring /\ c.header = <<>>
        /\ c.header_size = d.header_size
    <3>1. <<>> \in Seq(Line)
      OBVIOUS
    <3>2. QED
      BY <2>1, <3>1 DEF Decoder
  <2> HIDE DEF c
  <2>5. /\ p \in Decoder /\ Dropped(d, p, d.rlen + 1) /\ p.header = <<>>
        /\ p.header_size = d.header_size
    <3>1. d.rlen + 1 \in Nat /\ d.rlen + 1 <= Len(c.ring)
      BY <1>0, <2>4 DEF Before
    <3>2. /\ p \in Decoder /\ Dropped(c, p, d.rlen + 1)
          /\ \A f \in DOMAIN c \ {"ring"} : p[f] = c[f]
      BY <2>4, <3>1, PullEffect
    <3> HIDE DEF p
    <3>3. QED
      BY <2>4, <3>2 DEF Decoder, Dropped
  <2> HIDE DEF p
  <2>6. /\ e \in Decoder /\ e.rlen = 0 /\ e.ring = p.ring /\ e.state = "NEW" /\ e.header = <<>>
        /\ e.header_size = d.header_size
    BY <2>5 DEF Decoder
  <2> HIDE DEF e
  <2>7. After(d, e)
    <3>1. Len(d.header) \in Nat /\ d.header_size \in Nat
      BY <1>0 DEF Decoder
    <3>2. Fits(e) /\ Means(e)
      BY <2>6, <3>1 DEF Fits, Before, Means
    <3>3. d.rlen + 1 - e.rlen = d.rlen + 1 /\ e.rlen <= d.rlen + 1
      BY <1>0, <2>6
    <3>4. Dropped(d, e, d.rlen + 1)
      BY <2>5, <2>6 DEF Dropped
    <3>5. QED
      BY <3>2, <3>3, <3>4 DEF After
  <2>8. QED
    BY <2>2, <2>3, <2>6, <2>7 DEF Parsed, Result
<1>4. QED
  BY <1>0, <1>1, <1>2, <1>3

\* STATE_HEADER_NL: the '\r' of the empty line is discarded, and with it a '\n'.
LEMMA NlStep ==
  ASSUME NEW d, NEW ch, Before(d, ch), Means(d), d.state = "HEADER_NL"
  PROVE  Parsed(d, feed_char_header_nl(d, ch))
<1>0. /\ d \in Decoder /\ d.rlen = 1 /\ d.ring \in Seq(Char) /\ Len(d.ring) \in Nat
      /\ Len(d.ring) >= 2 /\ d.remaining_body \in Nat
  BY DEF Before, Means, Decoder
<1>1. CASE ch = LF
  <2> DEFINE q == pull(d, 2)
             e == [q EXCEPT !.rlen = 0, !.state = IF d.remaining_body = 0 THEN "NEW" ELSE "BODY"]
  <2>1. /\ q \in Decoder /\ Dropped(d, q, 2) /\ q.header = d.header
        /\ q.header_size = d.header_size /\ q.remaining_body = d.remaining_body
    <3>1. /\ q \in Decoder /\ Dropped(d, q, 2)
          /\ \A f \in DOMAIN d \ {"ring"} : q[f] = d[f]
      BY <1>0, PullEffect
    <3>2. QED
      BY <1>0, <3>1 DEF Decoder
  <2>2. feed_char_header_nl(d, ch) = Ok(e)
    BY <1>0, <1>1 DEF feed_char_header_nl
  <2> HIDE DEF q
  <2>3. /\ e \in Decoder /\ e.rlen = 0 /\ e.ring = q.ring /\ e.header = d.header
        /\ e.header_size = d.header_size /\ e.remaining_body = d.remaining_body
        /\ e.state = IF d.remaining_body = 0 THEN "NEW" ELSE "BODY"
    BY <2>1 DEF Decoder
  <2> HIDE DEF e
  <2>4. After(d, e)
    BY <1>0, <2>1, <2>3 DEF After, Dropped, Means, Before, Fits
  <2>5. QED
    BY <2>2, <2>3, <2>4, OkEffect
<1>2. CASE ch # LF
  <2> DEFINE q == pull(d, 1)
             e == [q EXCEPT !.rlen = 0, !.state = "BODY"]
  <2>1. /\ q \in Decoder /\ Dropped(d, q, 1) /\ q.header = d.header
        /\ q.header_size = d.header_size
    <3>1. q \in Decoder /\ Dropped(d, q, 1) /\ \A f \in DOMAIN d \ {"ring"} : q[f] = d[f]
      BY <1>0, PullEffect
    <3>2. QED
      BY <1>0, <3>1 DEF Decoder
  <2>2. feed_char_header_nl(d, ch) = feed_char_body(e, ch)
    BY <1>0, <1>2 DEF feed_char_header_nl
  <2> HIDE DEF q
  <2>3. /\ e \in Decoder /\ e.rlen = 0 /\ e.ring = q.ring /\ e.header = d.header
        /\ e.header_size = d.header_size /\ e.state = "BODY"
    BY <2>1 DEF Decoder
  <2> HIDE DEF e
  <2>4. Before(e, ch)
    BY <1>0, <2>1, <2>3 DEF Before, Dropped, Fits
  <2>5. Parsed(e, feed_char_body(e, ch))
    BY <2>3, <2>4, BodyStep
  <2> DEFINE r == feed_char_body(e, ch)
  <2>6. ASSUME ~r.err PROVE After(d, r.dec)
    <3> HIDE DEF r
    <3>1. r.dec \in Decoder /\ After(e, r.dec)
      BY <2>5, <2>6 DEF Parsed, Result, r
    <3>2. r.dec.rlen \in Nat /\ r.dec.ring \in Seq(Char) /\ Len(r.dec.ring) \in Nat
      BY <3>1 DEF Decoder
    <3> DEFINE k == e.rlen + 1 - r.dec.rlen
    <3>3. /\ k \in Nat /\ d.rlen + 1 - r.dec.rlen = 1 + k /\ r.dec.rlen <= d.rlen + 1
          /\ Dropped(e, r.dec, k) /\ Fits(r.dec) /\ Means(r.dec)
      BY <1>0, <2>3, <3>1, <3>2 DEF After
    <3>4. Dropped(d, e, 1)
      BY <2>1, <2>3 DEF Dropped
    <3>5. Dropped(d, r.dec, 1 + k)
      BY <1>0, <2>3, <3>1, <3>3, <3>4, DroppedTwice
    <3> HIDE DEF k
    <3>6. QED
      BY <3>3, <3>5 DEF After
  <2>7. QED
    BY <2>2, <2>5, <2>6 DEF Parsed
<1>3. QED
  BY <1>1, <1>2

\* STATE_HEADER_QUOTE: every character is taken as it is.
LEMMA QuoteStep ==
  ASSUME NEW d, NEW ch, Before(d, ch), d.state = "HEADER_QUOTE"
  PROVE  Parsed(d, feed_char_header_quote(d, ch))
<1> DEFINE esc == d.last_chr = BSLASH /\ ~d.quoted
           q == seen(d)
           e == [q EXCEPT !.quoted = esc, !.state = IF ch = QUOTE /\ ~esc THEN "HEADER" ELSE d.state]
<1>0. d \in Decoder /\ d.rlen \in Nat /\ d.ring \in Seq(Char) /\ Len(d.ring) \in Nat
  BY DEF Before, Decoder
<1>1. /\ q \in Decoder /\ q.rlen = d.rlen + 1 /\ q.ring = d.ring
      /\ q.header = d.header /\ q.header_size = d.header_size
  BY <1>0, SeenEffect DEF Decoder
<1>2. feed_char_header_quote(d, ch) = Ok(e)
  BY DEF feed_char_header_quote
<1>3. esc \in BOOLEAN
  OBVIOUS
<1> HIDE DEF q, esc
<1>4. /\ e \in Decoder /\ e.rlen = d.rlen + 1 /\ e.ring = d.ring
      /\ e.header = d.header /\ e.header_size = d.header_size
      /\ e.state \in {"HEADER", "HEADER_QUOTE"}
  BY <1>1, <1>3 DEF Decoder
<1> HIDE DEF e
<1>5. After(d, e)
  <2>1. Means(e)
    BY <1>0, <1>4 DEF Means
  <2>2. QED
    BY <1>0, <1>4, <2>1, CountedAfter DEF Before
<1>6. QED
  BY <1>2, <1>4, <1>5, OkEffect

\* msg_done hands the message out and forgets the header lines.
LEMMA DoneEffect ==
  ASSUME NEW h \in Decoder, Fits(h)
  PROVE  /\ msg_done(h, <<>>) \in Result /\ ~msg_done(h, <<>>).err
         /\ LET e == msg_done(h, <<>>).dec
            IN  e.ring = h.ring /\ e.rlen = h.rlen /\ e.state = h.state /\ Fits(e)
                /\ e.remaining_body = h.remaining_body
<1> DEFINE e == [h EXCEPT !.header = <<>>]
<1>1. <<>> \in Seq(Line) /\ <<>> \in Seq(Char) /\ h.header \in Seq(Line) /\ Len(h.header) \in Nat
      /\ h.header_size \in Nat
  BY DEF Decoder
<1>2. /\ e \in Decoder /\ e.ring = h.ring /\ e.rlen = h.rlen /\ e.state = h.state
      /\ e.remaining_body = h.remaining_body
      /\ e.header = <<>> /\ e.header_size = h.header_size
  BY <1>1 DEF Decoder
<1>3. <<[header |-> h.header, body |-> <<>>]>> \in Seq([header : Seq(Line), body : Seq(Char)])
  BY <1>1
<1> DEFINE o == <<[header |-> h.header, body |-> <<>>]>>
<1>4. msg_done(h, <<>>) = [dec |-> e, out |-> o, alloc |-> TRUE, err |-> FALSE]
  BY DEF msg_done
<1> HIDE DEF e, o
<1>5. Fits(e)
  BY <1>1, <1>2 DEF Fits
<1>6. msg_done(h, <<>>) \in Result /\ msg_done(h, <<>>).dec = e /\ ~msg_done(h, <<>>).err
  <2>1. o \in Seq([header : Seq(Line), body : Seq(Char)])
    BY <1>3 DEF o
  <2>2. [dec |-> e, out |-> o, alloc |-> TRUE, err |-> FALSE] \in Result
    BY <1>2, <2>1 DEF Result
  <2>3. msg_done(h, <<>>).dec = e /\ msg_done(h, <<>>).err = FALSE
    BY <1>4
  <2>4. QED
    BY <1>4, <2>2, <2>3
<1>7. QED
  BY <1>2, <1>5, <1>6

\* The end of the header by a '\r'.
LEMMA EmptyLineCRStep ==
  ASSUME NEW d, NEW ch, Before(d, ch), ch = CR, d.state = "HEADER"
  PROVE  Parsed(d, EmptyLineCR(d))
<1> DEFINE b == [d EXCEPT !.state = "HEADER_NL"]
           f == finish_header_line(b)
           h == f.dec
           c == IF h.remaining_body = 0 THEN msg_done(h, <<>>) ELSE Ok(h)
           e == seen(c.dec)
           r == [c EXCEPT !.dec = e]
<1>0. d \in Decoder /\ d.rlen \in Nat /\ d.ring \in Seq(Char) /\ Len(d.ring) \in Nat
  BY DEF Before, Decoder
<1>1. EmptyLineCR(d) = IF f.err THEN f ELSE [r EXCEPT !.alloc = TRUE]
  BY DEF EmptyLineCR, AndThen
<1>2. /\ b \in Decoder /\ b.rlen = d.rlen /\ b.ring = d.ring /\ b.header = d.header
      /\ b.header_size = d.header_size /\ b.state = "HEADER_NL"
  BY <1>0 DEF Decoder
<1> HIDE DEF b
<1>3. /\ f \in Result
      /\ ~f.err => h.rlen = 0 /\ Dropped(b, h, b.rlen) /\ h.state = "HEADER_NL" /\ Fits(h)
  BY <1>0, <1>2, FinishEffect DEF Before, Fits
<1> HIDE DEF f
<1>4. CASE f.err
  BY <1>1, <1>3, <1>4 DEF Parsed
<1>5. CASE ~f.err
  <2>1. h \in Decoder
    BY <1>3 DEF Result
  <2> HIDE DEF h
  <2>2. /\ c \in Result /\ ~c.err /\ c.dec.ring = h.ring /\ c.dec.rlen = 0
        /\ c.dec.state = "HEADER_NL" /\ Fits(c.dec)
    <3>1. CASE h.remaining_body = 0
      BY <1>3, <1>5, <2>1, <3>1, DoneEffect
    <3>2. CASE h.remaining_body # 0
      BY <1>3, <1>5, <2>1, <3>2 DEF Ok, Result
    <3>3. QED
      BY <3>1, <3>2
  <2> HIDE DEF c
  <2>3. c.dec \in Decoder
    BY <2>2 DEF Result
  <2>4. /\ e \in Decoder /\ e.rlen = 1 /\ e.ring = h.ring /\ e.state = "HEADER_NL"
        /\ e.header = c.dec.header /\ e.header_size = c.dec.header_size
    <3>1. e.rlen = c.dec.rlen + 1 /\ \A f1 \in DOMAIN c.dec \ {"rlen"} : e[f1] = c.dec[f1]
      BY <2>3, SeenEffect
    <3>2. e \in Decoder
      BY <2>3, SeenEffect
    <3> HIDE DEF e
    <3>3. QED
      BY <2>2, <2>3, <3>1, <3>2 DEF Decoder
  <2> HIDE DEF e
  <2>5. r \in Result /\ r.dec = e /\ ~r.err
    BY <2>2, <2>4 DEF Result
  <2> HIDE DEF r
  <2>6. /\ EmptyLineCR(d) \in Result /\ EmptyLineCR(d).dec = e
    BY <1>1, <1>5, <2>5 DEF Result
  <2>7. After(d, e)
    <3>1. Dropped(d, e, d.rlen) /\ d.rlen + 1 - e.rlen = d.rlen /\ e.rlen <= d.rlen + 1
      BY <1>0, <1>2, <1>3, <1>5, <2>4 DEF Dropped
    <3>2. e.ring[1] = CR
      BY <1>0, <2>4, <3>1 DEF Dropped, Before
    <3>3. Fits(e) /\ Means(e)
      BY <2>2, <2>4, <3>2 DEF Fits, Means
    <3>4. QED
      BY <3>1, <3>3 DEF After
  <2>8. QED
    BY <2>6, <2>7 DEF Parsed
<1>6. QED
  BY <1>4, <1>5

\* The end of the header by a second '\n'.
LEMMA EmptyLineLFStep ==
  ASSUME NEW d, NEW ch, Before(d, ch), d.state = "HEADER"
  PROVE  Parsed(d, EmptyLineLF(d))
<1> DEFINE f == finish_header_line(d)
           h == f.dec
           n == [h EXCEPT !.state = "NEW"]
           b == [h EXCEPT !.state = "BODY"]
           c == IF h.remaining_body = 0 THEN msg_done(n, <<>>) ELSE Ok(b)
           e == pull(c.dec, 1)
           r == [c EXCEPT !.dec = e]
<1>0. d \in Decoder /\ d.rlen \in Nat /\ d.ring \in Seq(Char) /\ Len(d.ring) \in Nat /\ d.rlen < Len(d.ring)
  BY DEF Before, Decoder
<1>1. EmptyLineLF(d) = IF f.err THEN f ELSE [r EXCEPT !.alloc = TRUE]
  BY DEF EmptyLineLF, AndThen
<1>3. /\ f \in Result
      /\ ~f.err => h.rlen = 0 /\ Dropped(d, h, d.rlen) /\ Fits(h)
  BY <1>0, FinishEffect DEF Before, Fits
<1> HIDE DEF f
<1>4. CASE f.err
  BY <1>1, <1>3, <1>4 DEF Parsed
<1>5. CASE ~f.err
  <2>1. h \in Decoder /\ h.remaining_body \in Nat
    BY <1>3 DEF Result, Decoder
  <2> HIDE DEF h
  <2>2. /\ c \in Result /\ ~c.err /\ c.dec.ring = h.ring /\ c.dec.rlen = 0 /\ Fits(c.dec)
        /\ c.dec.state \in {"NEW", "BODY"}
        /\ c.dec.state = "BODY" => c.dec.remaining_body > 0
    <3>1. CASE h.remaining_body = 0
      <4>1. n \in Decoder /\ n.rlen = 0 /\ n.ring = h.ring /\ Fits(n) /\ n.state = "NEW"
        BY <1>3, <1>5, <2>1 DEF Decoder, Fits
      <4> HIDE DEF n
      <4>2. QED
        BY <3>1, <4>1, DoneEffect
    <3>2. CASE h.remaining_body # 0
      <4>1. /\ b \in Decoder /\ b.rlen = 0 /\ b.ring = h.ring /\ Fits(b) /\ b.state = "BODY"
            /\ b.remaining_body > 0
        BY <1>3, <1>5, <2>1, <3>2 DEF Decoder, Fits
      <4> HIDE DEF b
      <4>2. QED
        BY <3>2, <4>1 DEF Ok, Result
    <3>3. QED
      BY <3>1, <3>2
  <2> HIDE DEF c
  <2>3. c.dec \in Decoder
    BY <2>2 DEF Result
  <2>4. /\ e \in Decoder /\ e.rlen = 0 /\ e.state = c.dec.state /\ Dropped(c.dec, e, 1)
        /\ e.header = c.dec.header /\ e.header_size = c.dec.header_size
        /\ e.remaining_body = c.dec.remaining_body
    <3>1. 1 <= Len(c.dec.ring)
      BY <1>0, <1>3, <1>5, <2>2 DEF Dropped
    <3>2. QED
      BY <2>2, <2>3, <3>1, PullEffect DEF Decoder
  <2> HIDE DEF e
  <2>5. r \in Result /\ r.dec = e /\ ~r.err
    BY <2>2, <2>4 DEF Result
  <2> HIDE DEF r
  <2>6. /\ EmptyLineLF(d) \in Result /\ EmptyLineLF(d).dec = e
    BY <1>1, <1>5, <2>5 DEF Result
  <2>7. After(d, e)
    <3>1. Dropped(d, c.dec, d.rlen)
      BY <1>3, <1>5, <2>2 DEF Dropped
    <3>2. Dropped(d, e, d.rlen + 1)
      BY <1>0, <2>3, <2>4, <3>1, DroppedTwice
    <3>3. Fits(e) /\ Means(e)
      BY <2>2, <2>4 DEF Fits, Means
    <3>4. d.rlen + 1 - e.rlen = d.rlen + 1 /\ e.rlen <= d.rlen + 1
      BY <1>0, <2>4
    <3>5. QED
      BY <3>2, <3>3, <3>4 DEF After
  <2>8. QED
    BY <2>6, <2>7 DEF Parsed
<1>6. QED
  BY <1>4, <1>5

\* Another character of the header, in the line or the first of the next line.
LEMMA HeaderStep ==
  ASSUME NEW d, NEW ch, Before(d, ch), d.state = "HEADER"
  PROVE  Parsed(d, feed_char_header(d, ch))
<1> DEFINE quote(h) == [seen(h) EXCEPT !.state = "HEADER_QUOTE", !.quoted = FALSE]
<1>0. d \in Decoder /\ d.rlen \in Nat /\ d.ring \in Seq(Char) /\ Len(d.ring) \in Nat /\ d.rlen < Len(d.ring)
  BY DEF Before, Decoder
<1>1. ASSUME NEW h \in Decoder, h.state = "HEADER"
      PROVE  \A e \in {seen(h), quote(h)} :
               /\ e \in Decoder /\ e.rlen = h.rlen + 1 /\ e.ring = h.ring
               /\ e.state \in {"HEADER", "HEADER_QUOTE"}
               /\ e.header = h.header /\ e.header_size = h.header_size
  <2> DEFINE s == seen(h)
  <2>1. /\ s \in Decoder /\ s.rlen = h.rlen + 1 /\ s.ring = h.ring /\ s.state = "HEADER"
        /\ s.header = h.header /\ s.header_size = h.header_size
    BY <1>1, SeenEffect DEF Decoder
  <2>2. quote(h) = [s EXCEPT !.state = "HEADER_QUOTE", !.quoted = FALSE]
    OBVIOUS
  <2> HIDE DEF s, quote
  <2>3. /\ quote(h) \in Decoder /\ quote(h).rlen = h.rlen + 1 /\ quote(h).ring = h.ring
        /\ quote(h).state = "HEADER_QUOTE"
        /\ quote(h).header = h.header /\ quote(h).header_size = h.header_size
    BY <2>1, <2>2 DEF Decoder
  <2>4. QED
    BY <2>1, <2>3 DEF s
<1>2. \A e \in {seen(d), quote(d)} : Parsed(d, Ok(e))
  <2> SUFFICES ASSUME NEW e \in {seen(d), quote(d)} PROVE Parsed(d, Ok(e))
    OBVIOUS
  <2>1. /\ e \in Decoder /\ e.rlen = d.rlen + 1 /\ e.ring = d.ring
        /\ e.state \in {"HEADER", "HEADER_QUOTE"}
        /\ e.header = d.header /\ e.header_size = d.header_size
    BY <1>0, <1>1
  <2>2. Means(e)
    BY <1>0, <2>1 DEF Means
  <2>3. QED
    BY <1>0, <2>1, <2>2, CountedAfter, OkEffect DEF Before
<1> DEFINE f == finish_header_line(d)
           h == f.dec
<1>3. /\ f \in Result
      /\ ~f.err => h.rlen = 0 /\ Dropped(d, h, d.rlen) /\ h.state = "HEADER" /\ Fits(h)
  BY <1>0, FinishEffect DEF Before
<1> HIDE DEF f
<1>4. ~f.err => \A e \in {seen(h), quote(h)} : Parsed(d, [Ok(e) EXCEPT !.alloc = TRUE])
  <2> SUFFICES ASSUME ~f.err, NEW e \in {seen(h), quote(h)}
               PROVE  Parsed(d, [Ok(e) EXCEPT !.alloc = TRUE])
    OBVIOUS
  <2>1. h \in Decoder
    BY <1>3 DEF Result
  <2>2. /\ e \in Decoder /\ e.rlen = 1 /\ e.ring = h.ring
        /\ e.state \in {"HEADER", "HEADER_QUOTE"}
        /\ e.header = h.header /\ e.header_size = h.header_size
    <3>1. h.rlen = 0 /\ h.rlen + 1 = 1 /\ h.state = "HEADER"
      BY <1>3
    <3>2. QED
      BY <1>1, <2>1, <3>1
  <2>3. Fits(e) /\ Means(e)
    BY <1>3, <2>2 DEF Fits, Means
  <2>4. Dropped(d, e, d.rlen) /\ d.rlen + 1 - e.rlen = d.rlen /\ e.rlen <= d.rlen + 1
    BY <1>0, <1>3, <2>2 DEF Dropped
  <2>5. After(d, e)
    BY <2>3, <2>4 DEF After
  <2> DEFINE o == Ok(e)
  <2>6. o \in Result /\ ~o.err /\ o.dec = e
    BY <2>2 DEF Ok, Result
  <2> HIDE DEF o
  <2>7. LET r == [o EXCEPT !.alloc = TRUE] IN r \in Result /\ r.dec = e
    BY <2>6 DEF Result
  <2>8. QED
    BY <2>5, <2>7 DEF Parsed, o
<1>5. Parsed(d, NextLine(d, seen))
  <2>1. NextLine(d, seen) = IF d.last_chr \in {CR, LF}
                              THEN IF f.err THEN f ELSE [Ok(seen(h)) EXCEPT !.alloc = TRUE]
                              ELSE Ok(seen(d))
    BY DEF NextLine, AndThen, f
  <2>2. QED
    BY <1>2, <1>3, <1>4, <2>1 DEF Parsed
<1>6. Parsed(d, NextLine(d, quote))
  <2>1. NextLine(d, quote) = IF d.last_chr \in {CR, LF}
                               THEN IF f.err THEN f ELSE [Ok(quote(h)) EXCEPT !.alloc = TRUE]
                               ELSE Ok(quote(d))
    BY DEF NextLine, AndThen, f
  <2>2. QED
    BY <1>2, <1>3, <1>4, <2>1 DEF Parsed
<1>7. feed_char_header(d, ch) \in
        {EmptyLineLF(d), NextLine(d, seen), NextLine(d, quote), Ok(seen(d))}
          \cup (IF ch = CR THEN {EmptyLineCR(d)} ELSE {})
  BY DEF feed_char_header
<1>8. QED
  BY <1>2, <1>5, <1>6, <1>7, EmptyLineCRStep, EmptyLineLFStep

\* One character, in any state.
LEMMA FeedCharStep ==
  ASSUME NEW d, NEW ch, Before(d, ch), Means(d)
  PROVE  Parsed(d, feed_char(d, ch))
<1>1. d.state \in States
  BY DEF Before, Decoder
<1>2. CASE d.state = "NEW"
  BY <1>2, NewStep DEF feed_char
<1>3. CASE d.state = "HEADER"
  BY <1>3, HeaderStep DEF feed_char
<1>4. CASE d.state = "HEADER_QUOTE"
  BY <1>4, QuoteStep DEF feed_char
<1>5. CASE d.state = "HEADER_NL"
  BY <1>5, NlStep DEF feed_char
<1>6. CASE d.state = "BODY"
  <2>1. feed_char(d, ch) = feed_char_body(d, ch)
    BY <1>6 DEF feed_char
  <2>2. d.remaining_body > 0 /\ d.remaining_body \in Nat
    BY <1>6 DEF Means, Before, Decoder
  <2>3. QED
    BY <1>6, <2>1, <2>2, BodyStep
<1>7. QED
  BY <1>1, <1>2, <1>3, <1>4, <1>5, <1>6

-----------------------------------------------------------------------------
\* The ring holds what was parsed of the unfinished element, which is the end of
\* the stream, and then the rest of the chunk.
Border ==
  /\ dec.rlen + Len(todo) = Len(dec.ring)
  /\ dec.rlen <= Len(stream)
  /\ \A i \in 1 .. dec.rlen : dec.ring[i] = stream[Len(stream) - dec.rlen + i]
  /\ \A i \in 1 .. Len(todo) : dec.ring[dec.rlen + i] = todo[i]

IInv ==
  /\ dec \in Decoder /\ todo \in Seq(Char) /\ stream \in Seq(Char)
  /\ Border /\ Fits(dec) /\ Means(dec)

\* A decoder is new.
LEMMA InitOK == Init => IInv
<1> SUFFICES ASSUME Init PROVE IInv
  OBVIOUS
<1>1. <<>> \in Seq(Char) /\ <<>> \in Seq(Line) /\ Len(<<>>) = 0
  OBVIOUS
<1>2. NewDecoder \in Decoder
  BY <1>1 DEF NewDecoder, Decoder
<1>3. QED
  BY <1>1, <1>2 DEF Init, IInv, Border, Fits, Means, NewDecoder

\* Every failure, and the owner's flush, throw away the ring; header lines of the
\* message that is lost stay in their array.
LEMMA ResetStep == IInv /\ Reset => IInv'
<1> SUFFICES ASSUME IInv, Reset PROVE IInv'
  OBVIOUS
<1>1. <<>> \in Seq(Char) /\ Len(<<>>) = 0
  OBVIOUS
<1>2. /\ dec' \in Decoder /\ dec'.ring = <<>> /\ dec'.rlen = 0 /\ dec'.state = "NEW"
      /\ dec'.header = dec.header /\ dec'.header_size = dec.header_size
  BY <1>1 DEF IInv, Reset, owfd_rtsp_decoder_flush, Decoder
<1>3. todo' = <<>> /\ stream' = <<>>
  BY DEF Reset
<1>4. QED
  BY <1>1, <1>2, <1>3 DEF IInv, Border, Fits, Means

\* A chunk is put behind what is in the ring.
LEMMA FeedStep ==
  ASSUME IInv, NEW chunk \in Seq(Char), Feed(chunk)
  PROVE  IInv'
<1>1. /\ dec \in Decoder /\ dec.ring \in Seq(Char) /\ Len(dec.ring) \in Nat /\ dec.rlen = Len(dec.ring)
      /\ todo = <<>> /\ stream \in Seq(Char)
  BY DEF IInv, Decoder, Border, Feed
<1>2. /\ dec.ring \o chunk \in Seq(Char) /\ Len(chunk) \in Nat
      /\ Len(dec.ring \o chunk) = Len(dec.ring) + Len(chunk)
      /\ \A i \in 1 .. Len(dec.ring) : (dec.ring \o chunk)[i] = dec.ring[i]
      /\ \A i \in 1 .. Len(chunk) : (dec.ring \o chunk)[Len(dec.ring) + i] = chunk[i]
  BY <1>1
<1>3. /\ dec' \in Decoder /\ dec'.rlen = dec.rlen /\ dec'.ring = dec.ring \o chunk
      /\ dec'.state = dec.state /\ dec'.remaining_body = dec.remaining_body
      /\ dec'.header = dec.header /\ dec'.header_size = dec.header_size
  BY <1>1, <1>2 DEF Feed, Decoder
<1>4. todo' = chunk /\ stream' = stream
  BY DEF Feed
<1>5. Border'
  <2> DEFINE n == dec.rlen
  <2>1. /\ n \in Nat /\ n = Len(dec.ring) /\ n <= Len(stream) /\ dec'.rlen = n
        /\ \A i \in 1 .. n : dec.ring[i] = stream[Len(stream) - n + i]
    BY <1>1, <1>3 DEF IInv, Border
  <2>2. Len(dec'.ring) = n + Len(chunk)
    BY <1>2, <1>3, <2>1
  <2>3. \A i \in 1 .. n : dec'.ring[i] = stream'[Len(stream') - n + i]
    BY <1>2, <1>3, <1>4, <2>1
  <2>4. \A i \in 1 .. Len(todo') : dec'.ring[n + i] = todo'[i]
    BY <1>2, <1>3, <1>4, <2>1
  <2>5. QED
    BY <1>4, <2>1, <2>2, <2>3, <2>4 DEF Border
<1>6. Fits(dec)' /\ Means(dec)'
  BY <1>1, <1>2, <1>3 DEF IInv, Fits, Means
<1>7. QED
  BY <1>1, <1>3, <1>4, <1>5, <1>6 DEF IInv

\* A character is parsed: the border moves by one.
LEMMA FeedCharKeeps == IInv /\ FeedChar => IInv'
<1> SUFFICES ASSUME IInv, FeedChar PROVE IInv'
  OBVIOUS
<1> DEFINE ch == Head(todo)
           r == feed_char(dec, ch)
           L == Len(stream)
<1>1. /\ dec \in Decoder /\ dec.rlen \in Nat /\ dec.ring \in Seq(Char) /\ Len(dec.ring) \in Nat
      /\ todo # <<>> /\ todo \in Seq(Char) /\ stream \in Seq(Char) /\ L \in Nat
  BY DEF IInv, Decoder, FeedChar
<1>2. /\ ch \in Char /\ ch = todo[1] /\ Len(todo) \in Nat \ {0}
      /\ Tail(todo) \in Seq(Char) /\ Len(Tail(todo)) = Len(todo) - 1
      /\ \A i \in 1 .. Len(todo) - 1 : Tail(todo)[i] = todo[i + 1]
  BY <1>1
<1>3. /\ dec.rlen + Len(todo) = Len(dec.ring) /\ dec.rlen <= L
      /\ \A i \in 1 .. dec.rlen : dec.ring[i] = stream[L - dec.rlen + i]
      /\ \A i \in 1 .. Len(todo) : dec.ring[dec.rlen + i] = todo[i]
  BY DEF IInv, Border
<1> HIDE DEF L
<1>4. Before(dec, ch) /\ Means(dec)
  BY <1>1, <1>2, <1>3 DEF Before, IInv
<1>5. Parsed(dec, r)
  BY <1>4, FeedCharStep
<1>6. CASE r.err
  BY <1>6, ResetStep DEF FeedChar
<1>7. CASE ~r.err
  <2> HIDE DEF r
  <2>1. /\ dec' = [r.dec EXCEPT !.last_chr = ch]
        /\ todo' = Tail(todo) /\ stream' = Append(stream, ch)
    BY <1>7 DEF FeedChar, r
  <2>2. r.dec \in Decoder /\ After(dec, r.dec)
    BY <1>5, <1>7 DEF Parsed, Result
  <2>3. /\ dec' \in Decoder /\ dec'.rlen = r.dec.rlen /\ dec'.ring = r.dec.ring
        /\ dec'.state = r.dec.state /\ dec'.remaining_body = r.dec.remaining_body
        /\ dec'.header = r.dec.header /\ dec'.header_size = r.dec.header_size
    BY <1>2, <2>1, <2>2 DEF Decoder
  <2>4. /\ stream' \in Seq(Char) /\ Len(stream') = L + 1 /\ stream'[L + 1] = ch
        /\ \A i \in 1 .. L : stream'[i] = stream[i]
    BY <1>1, <1>2, <2>1 DEF L
  <2> DEFINE n == dec.rlen
             n1 == dec'.rlen
             R == Len(dec.ring)
             R1 == Len(dec'.ring)
             T == Len(todo)
             T1 == Len(todo')
             k == n + 1 - n1
  <2>5. /\ n1 \in Nat /\ n1 <= n + 1 /\ R1 = R - k
        /\ \A i \in 1 .. R1 : dec'.ring[i] = dec.ring[i + k]
    <3>1. n1 \in Nat
      BY <2>3 DEF Decoder
    <3>2. QED
      BY <1>1, <2>2, <2>3, <3>1 DEF After, Dropped
  <2>6. /\ n \in Nat /\ R \in Nat /\ T \in Nat \ {0} /\ T1 = T - 1 /\ n + T = R /\ n <= L
        /\ \A i \in 1 .. n : dec.ring[i] = stream[L - n + i]
        /\ \A i \in 1 .. T : dec.ring[n + i] = todo[i]
        /\ \A i \in 1 .. T1 : todo'[i] = todo[i + 1]
    BY <1>1, <1>2, <1>3, <2>1
  <2> HIDE DEF n, n1, R, R1, T, T1, ch
  <2>7. k \in Nat /\ R1 = n1 + T1 /\ n1 <= L + 1
    BY <1>1, <2>5, <2>6
  <2>8. ASSUME NEW i \in 1 .. n1 PROVE dec'.ring[i] = stream'[L + 1 - n1 + i]
    <3>1. dec'.ring[i] = dec.ring[i + k]
      BY <2>5, <2>6, <2>7
    <3>2. L + 1 - n1 + i = L - n + (i + k) /\ i + k \in 1 .. n + 1
      BY <1>1, <2>5, <2>6
    <3>3. CASE i + k = n + 1
      <4>1. L + 1 - n1 + i = L + 1 /\ 1 \in 1 .. T
        BY <1>1, <2>6, <3>2, <3>3
      <4>2. QED
        BY <1>2, <2>4, <2>6, <3>1, <3>3, <4>1
    <3>4. CASE i + k \in 1 .. n
      <4>1. L - n + (i + k) \in 1 .. L
        BY <1>1, <2>6, <3>4
      <4>2. QED
        BY <2>4, <2>6, <3>1, <3>2, <3>4, <4>1
    <3>5. QED
      BY <2>6, <3>2, <3>3, <3>4
  <2>9. ASSUME NEW i \in 1 .. T1 PROVE dec'.ring[n1 + i] = todo'[i]
    <3>1. n1 + i \in 1 .. R1 /\ (n1 + i) + k = n + (i + 1) /\ i + 1 \in 1 .. T
      BY <2>5, <2>6, <2>7
    <3>2. QED
      BY <2>5, <2>6, <3>1
  <2>10. Border'
    <3>1. n1 + T1 = R1 /\ n1 <= Len(stream')
      BY <2>4, <2>5, <2>6, <2>7
    <3>2. \A i \in 1 .. n1 : dec'.ring[i] = stream'[Len(stream') - n1 + i]
      <4> SUFFICES ASSUME NEW i \in 1 .. n1 PROVE dec'.ring[i] = stream'[Len(stream') - n1 + i]
        OBVIOUS
      <4>1. Len(stream') - n1 + i = L + 1 - n1 + i
        BY <1>1, <2>4, <2>5
      <4>2. QED
        BY <2>8, <4>1
    <3>3. QED
      BY <2>9, <3>1, <3>2 DEF Border, n1, R1, T1
  <2>11. Fits(dec)' /\ Means(dec)'
    BY <2>2, <2>3 DEF After, Fits, Means
  <2>12. QED
    BY <1>2, <2>1, <2>3, <2>4, <2>10, <2>11 DEF IInv
<1>8. QED
  BY <1>6, <1>7

\* Every step keeps the invariant.
LEMMA StepOK == IInv /\ [Next]_vars => IInv'
<1> SUFFICES ASSUME IInv, [Next]_vars PROVE IInv'
  OBVIOUS
<1>1. ASSUME NEW chunk \in BoundedSeq(Alphabet, MaxChunk), Feed(chunk) PROVE IInv'
  <2>1. chunk \in Seq(Char)
    BY SeqDef DEF BoundedSeq, SeqOf
  <2>2. QED
    BY <1>1, <2>1, FeedStep
<1>2. CASE FeedChar
  BY <1>2, FeedCharKeeps
<1>3. CASE FeedCharNoMem \/ Flush
  BY <1>3, ResetStep DEF FeedCharNoMem, Flush
<1>4. CASE UNCHANGED vars
  BY <1>4 DEF vars, IInv, Border
<1>5. QED
  BY <1>1, <1>2, <1>3, <1>4 DEF Next, FeedNoMem

\* So it holds throughout.
LEMMA Invariance == Spec => []IInv
<1>1. QED
  BY InitOK, StepOK, PTL DEF Spec

\* However the stream is cut into chunks and wherever parsing fails, the bytes that
\* finish_header_line and feed_char_body copy out of the ring are the last rlen bytes
\* of the stream, and the rest of the ring is the rest of the chunk.
THEOREM BookkeepingHolds == Spec => []Bookkeeping
<1>1. IInv => Bookkeeping
  <2> SUFFICES ASSUME IInv PROVE Bookkeeping
    OBVIOUS
  <2> DEFINE n == Len(dec.ring) - Len(todo)
             L == Len(stream)
             s == SubSeq(stream, L - n + 1, L)
  <2>1. TypeOK
    BY DEF IInv, TypeOK, Decoder, NewDecoder
  <2>2. /\ dec.ring \in Seq(Char) /\ Len(dec.ring) \in Nat /\ todo \in Seq(Char) /\ Len(todo) \in Nat
        /\ stream \in Seq(Char) /\ L \in Nat /\ dec.rlen \in Nat
    BY DEF IInv, Decoder
  <2> DEFINE T == Len(todo)
             R == Len(dec.ring)
  <2>3. n = dec.rlen /\ dec.rlen <= L
    BY <2>2 DEF IInv, Border
  <2>4. n + T = R /\ n \in 0 .. L /\ T \in Nat /\ R \in Nat /\ n \in Nat
    BY <2>2, <2>3
  <2>5. /\ \A i \in 1 .. n : dec.ring[i] = stream[L - n + i]
        /\ \A i \in 1 .. T : dec.ring[n + i] = todo[i]
    BY <2>3 DEF IInv, Border
  <2> HIDE DEF n, L, T, R
  <2>6. s \in Seq(Char) /\ Len(s) = n /\ \A i \in 1 .. n : s[i] = stream[L - n + i]
    BY <2>2, <2>4, SubSeqProperties DEF L
  <2> HIDE DEF s
  <2>7. /\ s \o todo \in Seq(Char) /\ Len(s \o todo) = n + T
        /\ \A i \in 1 .. n : (s \o todo)[i] = s[i]
        /\ \A i \in 1 .. T : (s \o todo)[n + i] = todo[i]
    <3>1. /\ s \o todo \in Seq(Char) /\ Len(s \o todo) = n + T
          /\ \A i \in 1 .. n + T : (s \o todo)[i] = IF i <= n THEN s[i] ELSE todo[i - n]
      BY <2>2, <2>6, ConcatProperties DEF T
    <3>2. ASSUME NEW i \in 1 .. T PROVE (s \o todo)[n + i] = todo[i]
      <4>1. n + i \in 1 .. n + T /\ ~(n + i <= n) /\ (n + i) - n = i
        BY <2>4
      <4>2. QED
        BY <3>1, <4>1
    <3>3. ASSUME NEW i \in 1 .. n PROVE (s \o todo)[i] = s[i]
      <4>1. i \in 1 .. n + T /\ i <= n
        BY <2>4
      <4>2. QED
        BY <3>1, <4>1
    <3>4. QED
      BY <3>1, <3>2, <3>3
  <2>8. \A i \in 1 .. R : dec.ring[i] = (s \o todo)[i]
    <3> SUFFICES ASSUME NEW i \in 1 .. R PROVE dec.ring[i] = (s \o todo)[i]
      OBVIOUS
    <3>1. CASE i <= n
      BY <2>5, <2>4, <2>6, <2>7, <3>1
    <3>2. CASE i > n
      <4>1. i - n \in 1 .. T /\ n + (i - n) = i
        BY <2>4, <3>2
      <4>2. QED
        BY <2>5, <2>7, <4>1
    <3>3. i <= n \/ i > n
      BY <2>4
    <3>4. QED
      BY <3>1, <3>2, <3>3
  <2>9. dec.ring = s \o todo
    BY <2>2, <2>4, <2>7, <2>8, SeqEqual DEF R
  <2>10. QED
    BY <2>1, <2>2, <2>3, <2>4, <2>9 DEF Bookkeeping, n, L, s, T, R
<1>2. QED
  BY <1>1, Invariance, PTL

\* What feed_char relies on in each state holds before every character.
THEOREM StateMeaningHolds == Spec => []StateMeaning
<1>1. IInv => StateMeaning
  <2> SUFFICES ASSUME IInv PROVE StateMeaning
    OBVIOUS
  <2>1. Len(dec.ring) - Len(todo) = dec.rlen /\ dec.state \in States
    BY DEF IInv, Border, Decoder
  <2>2. QED
    BY <2>1 DEF IInv, Means, StateMeaning
<1>2. QED
  BY <1>1, Invariance, PTL

\* push_header_line leaves a slot for the terminating NULL, whatever resets leave
\* behind in the array.
THEOREM HeaderFitsHolds == Spec => []HeaderFits
<1>1. IInv => HeaderFits
  BY DEF IInv, Fits, HeaderFits
<1>2. QED
  BY <1>1, Invariance, PTL

-----------------------------------------------------------------------------
\* The decoder e is d with the bytes z behind those of its ring.
Longer(e, d, z) ==
  /\ d \in Decoder /\ e \in Decoder /\ z \in Seq(Char)
  /\ e.ring = d.ring \o z
  /\ e.rlen = d.rlen /\ e.state = d.state /\ e.last_chr = d.last_chr
  /\ e.remaining_body = d.remaining_body /\ e.quoted = d.quoted
  /\ e.header = d.header /\ e.header_size = d.header_size

\* The outcome q of a character is r, but for these bytes.
LongerOutcome(q, r, z) ==
  /\ q \in Result /\ r \in Result /\ Longer(q.dec, r.dec, z)
  /\ q.out = r.out /\ q.alloc = r.alloc /\ q.err = r.err

\* There is one such decoder.
LEMMA LongerUnique ==
  ASSUME NEW c, NEW d, NEW e, NEW z, Longer(d, c, z), Longer(e, c, z)
  PROVE  d = e
<1>1. \A x \in Decoder :
        x = [ring |-> x.ring, rlen |-> x.rlen, state |-> x.state, last_chr |-> x.last_chr,
             remaining_body |-> x.remaining_body, quoted |-> x.quoted,
             header |-> x.header, header_size |-> x.header_size]
  BY DEF Decoder
<1>2. d \in Decoder /\ e \in Decoder
  BY DEF Longer
<1>3. /\ d.ring = e.ring /\ d.rlen = e.rlen /\ d.state = e.state /\ d.last_chr = e.last_chr
      /\ d.remaining_body = e.remaining_body /\ d.quoted = e.quoted
      /\ d.header = e.header /\ d.header_size = e.header_size
  BY DEF Longer
<1>4. QED
  BY <1>1, <1>2, <1>3

\* Bytes at the end of the ring do not matter to shl_ring_pull and shl_ring_peek.
LEMMA PullLonger ==
  ASSUME NEW d, NEW e, NEW z, Longer(e, d, z), NEW n \in Nat, n <= Len(d.ring)
  PROVE  Longer(pull(e, n), pull(d, n), z) /\ Ring!Take(e.ring, n) = Ring!Take(d.ring, n)
<1> DEFINE p == pull(d, n)
           q == pull(e, n)
           R == Len(d.ring)
           Z == Len(z)
<1>1. /\ d \in Decoder /\ e \in Decoder /\ d.ring \in Seq(Char) /\ R \in Nat /\ z \in Seq(Char) /\ Z \in Nat
      /\ e.ring = d.ring \o z
  BY DEF Longer, Decoder
<1>2. /\ e.ring \in Seq(Char) /\ Len(e.ring) = R + Z
      /\ \A i \in 1 .. R : e.ring[i] = d.ring[i]
      /\ \A i \in R + 1 .. R + Z : e.ring[i] = z[i - R]
  BY <1>1
<1>3. p \in Decoder /\ Dropped(d, p, n) /\ \A f \in DOMAIN d \ {"ring"} : p[f] = d[f]
  BY <1>1, PullEffect
<1>4. q \in Decoder /\ Dropped(e, q, n) /\ \A f \in DOMAIN e \ {"ring"} : q[f] = e[f]
  BY <1>1, <1>2, PullEffect
<1> HIDE DEF p, q, R, Z
<1>5. q.ring = p.ring \o z
  <2>1. p.ring \in Seq(Char) /\ q.ring \in Seq(Char)
    BY <1>3, <1>4 DEF Decoder
  <2>2. /\ Len(p.ring) = R - n /\ \A i \in 1 .. R - n : p.ring[i] = d.ring[i + n]
        /\ Len(q.ring) = R + Z - n /\ \A i \in 1 .. R + Z - n : q.ring[i] = e.ring[i + n]
    <3>1. Len(p.ring) = R - n /\ \A i \in 1 .. Len(p.ring) : p.ring[i] = d.ring[i + n]
      BY <1>3 DEF Dropped, R
    <3>2. Len(q.ring) = R + Z - n /\ \A i \in 1 .. Len(q.ring) : q.ring[i] = e.ring[i + n]
      <4>1. Len(q.ring) = Len(e.ring) - n /\ \A i \in 1 .. Len(q.ring) : q.ring[i] = e.ring[i + n]
        BY <1>4, Zenon DEF Dropped
      <4>2. Len(q.ring) = (R + Z) - n
        BY <1>2, <4>1
      <4>3. (R + Z) - n = R + Z - n
        BY <1>1 DEF R, Z
      <4>4. QED
        BY <4>1, <4>2, <4>3
    <3>3. QED
      BY <3>1, <3>2
  <2> DEFINE w == p.ring \o z
  <2>3. /\ w \in Seq(Char) /\ Len(w) = R - n + Z
        /\ \A i \in 1 .. R - n : w[i] = p.ring[i]
        /\ \A i \in R - n + 1 .. R - n + Z : w[i] = z[i - (R - n)]
    <3>1. /\ w \in Seq(Char) /\ Len(w) = Len(p.ring) + Z
          /\ \A i \in 1 .. Len(p.ring) : w[i] = p.ring[i]
          /\ \A i \in Len(p.ring) + 1 .. Len(p.ring) + Z : w[i] = z[i - Len(p.ring)]
      BY <1>1, <2>1 DEF Z
    <3>2. QED
      BY <2>2, <3>1
  <2> HIDE DEF w
  <2>4. ASSUME NEW i \in 1 .. R + Z - n PROVE q.ring[i] = w[i]
    <3>1. CASE i <= R - n
      <4>1. i \in 1 .. R - n /\ i + n \in 1 .. R
        BY <1>1, <3>1 DEF R
      <4>2. QED
        BY <1>2, <2>2, <2>3, <4>1
    <3>2. CASE i > R - n
      <4>1. i \in R - n + 1 .. R - n + Z /\ i + n \in R + 1 .. R + Z /\ (i + n) - R = i - (R - n)
        BY <1>1, <3>2 DEF R
      <4>2. QED
        BY <1>2, <2>2, <2>3, <4>1
    <3>3. QED
      BY <1>1, <3>1, <3>2
  <2>5. QED
    <3>1. Len(q.ring) = Len(w) /\ Len(q.ring) = R + Z - n
      BY <1>1, <2>2, <2>3 DEF R
    <3>2. q.ring = w
      BY <2>1, <2>3, <2>4, <3>1, SeqEqual
    <3>3. QED
      BY <3>2 DEF w
<1>6. Longer(q, p, z)
  BY <1>3, <1>4, <1>5 DEF Longer, Decoder
<1>7. Ring!Take(e.ring, n) = Ring!Take(d.ring, n)
  <2>1. SubSeq(d.ring, 1, n) \in Seq(Char) /\ SubSeq(e.ring, 1, n) \in Seq(Char)
        /\ Len(SubSeq(d.ring, 1, n)) = n /\ Len(SubSeq(e.ring, 1, n)) = n
        /\ \A i \in 1 .. n : SubSeq(d.ring, 1, n)[i] = d.ring[i] /\ SubSeq(e.ring, 1, n)[i] = e.ring[i]
    BY <1>1, <1>2 DEF R
  <2>2. \A i \in 1 .. n : i \in 1 .. R
    BY <1>1 DEF R
  <2>3. SubSeq(d.ring, 1, n) = SubSeq(e.ring, 1, n)
    BY <1>2, <2>1, <2>2, SeqEqual
  <2>4. n = R => d.ring = SubSeq(d.ring, 1, n)
    BY <1>1, <2>1, SeqEqual DEF R
  <2>5. n = R + Z => e.ring = SubSeq(e.ring, 1, n)
    BY <1>1, <1>2, <2>1, SeqEqual DEF R
  <2>6. Ring!Take(d.ring, n) = SubSeq(d.ring, 1, n)
    BY <1>1, <2>4 DEF Ring!Take, R
  <2>7. Ring!Take(e.ring, n) = SubSeq(e.ring, 1, n)
    BY <1>1, <1>2, <2>5 DEF Ring!Take, R
  <2>8. QED
    BY <2>3, <2>6, <2>7
<1>8. QED
  BY <1>6, <1>7 DEF p, q

\* Nor to the steps that do not look at the ring.
LEMMA SeenLonger ==
  ASSUME NEW d, NEW e, NEW z, Longer(e, d, z)
  PROVE  Longer(seen(e), seen(d), z) /\ LongerOutcome(Ok(e), Ok(d), z)
<1>1. Longer(seen(e), seen(d), z)
  <2> DEFINE n == d.rlen + 1
  <2>1. seen(d) = [d EXCEPT !.rlen = n] /\ seen(e) = [e EXCEPT !.rlen = n] /\ n \in Nat
    BY DEF seen, Longer, Decoder
  <2> HIDE DEF n
  <2>2. QED
    BY <2>1 DEF Longer, Decoder
<1>2. LongerOutcome(Ok(e), Ok(d), z)
  BY DEF LongerOutcome, Longer, Ok, Result
<1>3. QED
  BY <1>1, <1>2

\* msg_done does not look at the ring.
LEMMA DoneLonger ==
  ASSUME NEW d, NEW e, NEW z, Longer(e, d, z), NEW body \in Seq(Char)
  PROVE  LongerOutcome(msg_done(e, body), msg_done(d, body), z)
<1> DEFINE a == [d EXCEPT !.header = <<>>]
           b == [e EXCEPT !.header = <<>>]
           o == <<[header |-> d.header, body |-> body]>>
<1>1. <<>> \in Seq(Line) /\ d.header \in Seq(Line) /\ e.header = d.header
  BY DEF Longer, Decoder
<1>2. o \in Seq([header : Seq(Line), body : Seq(Char)])
  BY <1>1
<1>3. Longer(b, a, z)
  BY <1>1 DEF Longer, Decoder
<1>4. /\ msg_done(d, body) = [dec |-> a, out |-> o, alloc |-> TRUE, err |-> FALSE]
      /\ msg_done(e, body) = [dec |-> b, out |-> o, alloc |-> TRUE, err |-> FALSE]
  BY <1>1 DEF msg_done
<1> HIDE DEF a, b, o
<1>5. a \in Decoder /\ b \in Decoder
  BY <1>3 DEF Longer
<1>6. QED
  BY <1>2, <1>3, <1>4, <1>5 DEF LongerOutcome, Result

\* A line that is finished.
LEMMA FinishLonger ==
  ASSUME NEW d, NEW e, NEW z, Longer(e, d, z), d.rlen <= Len(d.ring), Fits(d)
  PROVE  LongerOutcome(finish_header_line(e), finish_header_line(d), z)
<1> DEFINE n == d.rlen
           line == sanitize_header_line(Ring!Take(d.ring, n))
           p == [pull(d, n) EXCEPT !.rlen = 0]
           q == [pull(e, n) EXCEPT !.rlen = 0]
           P == push_header_line(parse_header_line(p, line), line)
           Q == push_header_line(parse_header_line(q, line), line)
<1>1. /\ d \in Decoder /\ e \in Decoder /\ n \in Nat /\ e.rlen = n /\ z \in Seq(Char)
      /\ d.ring \in Seq(Char) /\ e.ring = d.ring \o z
      /\ e.header = d.header /\ e.header_size = d.header_size
  BY DEF Longer, Decoder
<1>2. /\ Longer(pull(e, n), pull(d, n), z) /\ Ring!Take(e.ring, n) = Ring!Take(d.ring, n)
      /\ n <= Len(d.ring)
  BY <1>1, PullLonger
<1>3. e.rlen <= Len(e.ring) /\ Fits(e)
  BY <1>1, <1>2 DEF Fits
<1>4. finish_header_line(d) \in Result /\ finish_header_line(e) \in Result
  BY <1>1, <1>2, <1>3, FinishEffect
<1>5. Longer(q, p, z)
  <2> DEFINE a == pull(d, n)
             b == pull(e, n)
  <2>1. Longer(b, a, z)
    BY <1>2
  <2>2. p = [a EXCEPT !.rlen = 0] /\ q = [b EXCEPT !.rlen = 0]
    OBVIOUS
  <2> HIDE DEF a, b, p, q
  <2>3. QED
    BY <2>1, <2>2 DEF Longer, Decoder
<1>6. /\ finish_header_line(d) = [dec |-> IF parse_fails(p, line) THEN p ELSE P, out |-> <<>>,
                                  alloc |-> TRUE, err |-> parse_fails(p, line)]
      /\ finish_header_line(e) = [dec |-> IF parse_fails(q, line) THEN q ELSE Q, out |-> <<>>,
                                  alloc |-> TRUE, err |-> parse_fails(q, line)]
  BY <1>1, <1>2 DEF finish_header_line
<1>7. line \in Line
  <2>1. Ring!Take(d.ring, n) \in Seq(Char)
    BY <1>1 DEF Ring!Take
  <2>2. QED
    BY <2>1 DEF Line
<1> HIDE DEF n, line, p, q
<1>8. parse_fails(p, line) = parse_fails(q, line)
  BY <1>5 DEF parse_fails, Longer
<1>9. Longer(Q, P, z)
  <2> DEFINE a == parse_header_line(p, line)
             b == parse_header_line(q, line)
  <2>1. Longer(b, a, z)
    BY <1>5 DEF parse_header_line, Longer, Decoder, IsContentLength
  <2> HIDE DEF a, b
  <2> DEFINE N == IF a.header_size = Len(a.header) + 2 THEN 2 * a.header_size ELSE a.header_size
             H == Append(a.header, line)
  <2>2. N \in Nat /\ H \in Seq(Line)
    BY <1>7, <2>1 DEF Longer, Decoder
  <2>3. /\ P = [a EXCEPT !.header = H, !.header_size = N]
        /\ Q = [b EXCEPT !.header = H, !.header_size = N]
    BY <2>1 DEF push_header_line, Longer, a, b
  <2> HIDE DEF N, H, P, Q
  <2>4. QED
    BY <2>1, <2>2, <2>3 DEF Longer, Decoder
<1> HIDE DEF P, Q
<1>10. QED
  BY <1>4, <1>5, <1>6, <1>8, <1>9 DEF LongerOutcome

\* STATE_NEW.
LEMMA NewLonger ==
  ASSUME NEW d, NEW e, NEW z, NEW ch, Longer(e, d, z), d.rlen <= Len(d.ring)
  PROVE  LongerOutcome(feed_char_new(e, ch), feed_char_new(d, ch), z)
<1> DEFINE n == d.rlen
           a == pull(d, n)
           b == pull(e, n)
           p == [a EXCEPT !.state = "HEADER", !.remaining_body = 0, !.rlen = 1]
           q == [b EXCEPT !.state = "HEADER", !.remaining_body = 0, !.rlen = 1]
<1>1. n \in Nat /\ e.rlen = n
  BY DEF Longer, Decoder
<1>2. /\ feed_char_new(d, ch) = Ok(IF ch \in {CR, LF, SP} THEN seen(d) ELSE p)
      /\ feed_char_new(e, ch) = Ok(IF ch \in {CR, LF, SP} THEN seen(e) ELSE q)
  BY <1>1 DEF feed_char_new
<1>3. Longer(b, a, z)
  BY <1>1, PullLonger
<1> HIDE DEF a, b
<1>4. Longer(q, p, z)
  BY <1>3 DEF Longer, Decoder
<1> HIDE DEF p, q
<1>5. QED
  BY <1>2, <1>4, SeenLonger

\* STATE_BODY.
LEMMA BodyLonger ==
  ASSUME NEW d, NEW e, NEW z, NEW ch, Longer(e, d, z), d.rlen < Len(d.ring)
  PROVE  LongerOutcome(feed_char_body(e, ch), feed_char_body(d, ch), z)
<1>0. /\ d.rlen \in Nat /\ e.rlen = d.rlen /\ d.rlen + 1 \in Nat /\ d.rlen + 1 <= Len(d.ring)
      /\ d.ring \in Seq(Char) /\ d.remaining_body \in Nat /\ e.remaining_body = d.remaining_body
      /\ d \in Decoder /\ e \in Decoder /\ z \in Seq(Char)
  BY DEF Longer, Decoder
<1>1. CASE d.remaining_body = 0
  <2> DEFINE a == [d EXCEPT !.state = "NEW"]
             b == [e EXCEPT !.state = "NEW"]
  <2>1. Longer(b, a, z)
    BY <1>0 DEF Longer, Decoder
  <2>2. a.rlen <= Len(a.ring)
    <3>1. a.rlen = d.rlen /\ a.ring = d.ring
      BY <1>0 DEF Decoder
    <3>2. Len(d.ring) \in Nat
      BY <1>0
    <3>3. QED
      BY <1>0, <3>1, <3>2
  <2>3. feed_char_body(d, ch) = feed_char_new(a, ch) /\ feed_char_body(e, ch) = feed_char_new(b, ch)
    BY <1>0, <1>1 DEF feed_char_body
  <2> HIDE DEF a, b
  <2>4. QED
    BY <2>2, <2>1, <2>3, NewLonger
<1>2. CASE d.remaining_body > 1
  <2> DEFINE m == d.remaining_body - 1
             a == seen(d)
             b == seen(e)
             p == [a EXCEPT !.remaining_body = m]
             q == [b EXCEPT !.remaining_body = m]
  <2>1. Longer(b, a, z) /\ m \in Nat
    BY <1>0, <1>2, SeenLonger
  <2>2. feed_char_body(d, ch) = Ok(p) /\ feed_char_body(e, ch) = Ok(q)
    BY <1>0, <1>2 DEF feed_char_body
  <2> HIDE DEF a, b, m
  <2>3. Longer(q, p, z)
    BY <2>1 DEF Longer, Decoder
  <2> HIDE DEF p, q
  <2>4. QED
    BY <2>2, <2>3, SeenLonger
<1>3. CASE d.remaining_body = 1
  <2> DEFINE n == d.rlen + 1
             body == Ring!Take(d.ring, n)
             a == [d EXCEPT !.remaining_body = 0]
             b == [e EXCEPT !.remaining_body = 0]
             r == msg_done(a, body)
             s == msg_done(b, body)
             p == pull(r.dec, n)
             q == pull(s.dec, n)
             P == [p EXCEPT !.state = "NEW", !.rlen = 0]
             Q == [q EXCEPT !.state = "NEW", !.rlen = 0]
  <2>1. Longer(b, a, z) /\ a.ring = d.ring
    BY <1>0 DEF Longer, Decoder
  <2>2. body \in Seq(Char) /\ Ring!Take(e.ring, n) = body
    <3>1. Ring!Take(e.ring, n) = body
      BY <1>0, PullLonger
    <3>2. body \in Seq(Char)
      BY <1>0 DEF Ring!Take
    <3>3. QED
      BY <3>1, <3>2
  <2>3. /\ feed_char_body(d, ch) = [r EXCEPT !.dec = P]
        /\ feed_char_body(e, ch) = [s EXCEPT !.dec = Q]
    <3>1. d.remaining_body # 0 /\ ~(d.remaining_body > 1)
      BY <1>3
    <3>2. feed_char_body(d, ch) = [r EXCEPT !.dec = P]
      BY <3>1, Zenon DEF feed_char_body
    <3>3. feed_char_body(e, ch) = [s EXCEPT !.dec = Q]
      BY <1>0, <2>2, <3>1, Zenon DEF feed_char_body
    <3>4. QED
      BY <3>2, <3>3
  <2> HIDE DEF body, a, b
  <2>4. LongerOutcome(s, r, z)
    BY <2>1, <2>2, DoneLonger
  <2>5. r.dec.ring = a.ring
    BY <2>1 DEF msg_done, Longer, Decoder
  <2> HIDE DEF r, s
  <2>6. Longer(q, p, z)
    <3>1. Longer(s.dec, r.dec, z) /\ n \in Nat /\ n <= Len(r.dec.ring)
      BY <1>0, <2>1, <2>4, <2>5 DEF LongerOutcome
    <3>2. QED
      BY <3>1, PullLonger
  <2> HIDE DEF n, p, q
  <2>7. Longer(Q, P, z)
    BY <2>6 DEF Longer, Decoder
  <2> HIDE DEF P, Q
  <2>8. P \in Decoder /\ Q \in Decoder
    BY <2>7 DEF Longer
  <2>9. LongerOutcome([s EXCEPT !.dec = Q], [r EXCEPT !.dec = P], z)
    BY <2>4, <2>7, <2>8 DEF LongerOutcome, Result
  <2>10. QED
    BY <2>3, <2>9
<1>4. QED
  BY <1>0, <1>1, <1>2, <1>3

\* STATE_HEADER_NL.
LEMMA NlLonger ==
  ASSUME NEW d, NEW e, NEW z, NEW ch, Longer(e, d, z), d.rlen < Len(d.ring)
  PROVE  LongerOutcome(feed_char_header_nl(e, ch), feed_char_header_nl(d, ch), z)
<1>0. /\ d.rlen \in Nat /\ e.rlen = d.rlen /\ d.rlen + 1 \in Nat /\ d.rlen + 1 <= Len(d.ring)
      /\ d.rlen <= Len(d.ring) /\ e.remaining_body = d.remaining_body /\ d.ring \in Seq(Char)
      /\ Len(d.ring) \in Nat /\ d \in Decoder
  BY DEF Longer, Decoder
<1>1. CASE ch = LF
  <2> DEFINE st == IF d.remaining_body = 0 THEN "NEW" ELSE "BODY"
             a == pull(d, d.rlen + 1)
             b == pull(e, d.rlen + 1)
             p == [a EXCEPT !.rlen = 0, !.state = st]
             q == [b EXCEPT !.rlen = 0, !.state = st]
  <2>1. Longer(b, a, z)
    BY <1>0, PullLonger
  <2>2. feed_char_header_nl(d, ch) = Ok(p) /\ feed_char_header_nl(e, ch) = Ok(q)
    BY <1>0, <1>1, Zenon DEF feed_char_header_nl
  <2> HIDE DEF a, b
  <2>3. Longer(q, p, z)
    BY <2>1 DEF Longer, Decoder
  <2> HIDE DEF p, q
  <2>4. QED
    BY <2>2, <2>3, SeenLonger
<1>2. CASE ch # LF
  <2> DEFINE a == pull(d, d.rlen)
             b == pull(e, d.rlen)
             p == [a EXCEPT !.rlen = 0, !.state = "BODY"]
             q == [b EXCEPT !.rlen = 0, !.state = "BODY"]
  <2>1. Longer(b, a, z)
    BY <1>0, PullLonger
  <2>2. feed_char_header_nl(d, ch) = feed_char_body(p, ch) /\ feed_char_header_nl(e, ch) = feed_char_body(q, ch)
    BY <1>0, <1>2, Zenon DEF feed_char_header_nl
  <2>3. Len(a.ring) = Len(d.ring) - d.rlen
    BY <1>0, PullEffect DEF Dropped
  <2> HIDE DEF a, b
  <2>4. Longer(q, p, z) /\ p.rlen = 0 /\ p.ring = a.ring
    BY <2>1 DEF Longer, Decoder
  <2> HIDE DEF p, q
  <2>5. p.rlen < Len(p.ring)
    BY <1>0, <2>3, <2>4
  <2>6. QED
    BY <2>2, <2>4, <2>5, BodyLonger
<1>3. QED
  BY <1>1, <1>2

\* STATE_HEADER_QUOTE.
LEMMA QuoteLonger ==
  ASSUME NEW d, NEW e, NEW z, NEW ch, Longer(e, d, z)
  PROVE  LongerOutcome(feed_char_header_quote(e, ch), feed_char_header_quote(d, ch), z)
<1> DEFINE esc == d.last_chr = BSLASH /\ ~d.quoted
           st == IF ch = QUOTE /\ ~esc THEN "HEADER" ELSE d.state
           a == seen(d)
           b == seen(e)
           p == [a EXCEPT !.quoted = esc, !.state = st]
           q == [b EXCEPT !.quoted = esc, !.state = st]
<1>1. Longer(b, a, z)
  BY SeenLonger
<1>2. e.last_chr = d.last_chr /\ e.quoted = d.quoted /\ e.state = d.state
  BY DEF Longer
<1>3. feed_char_header_quote(d, ch) = Ok(p) /\ feed_char_header_quote(e, ch) = Ok(q)
  BY <1>2, Zenon DEF feed_char_header_quote
<1>4. esc \in BOOLEAN /\ st \in States
  BY DEF Longer, Decoder
<1> HIDE DEF a, b, esc, st
<1>5. Longer(q, p, z)
  BY <1>1, <1>4 DEF Longer, Decoder
<1> HIDE DEF p, q
<1>6. QED
  BY <1>3, <1>5, SeenLonger

\* The end of the header.
LEMMA EmptyLineCRLonger ==
  ASSUME NEW d, NEW e, NEW z, Longer(e, d, z), d.rlen <= Len(d.ring), Fits(d)
  PROVE  LongerOutcome(EmptyLineCR(e), EmptyLineCR(d), z)
<1> DEFINE a == [d EXCEPT !.state = "HEADER_NL"]
           b == [e EXCEPT !.state = "HEADER_NL"]
           f == finish_header_line(a)
           g == finish_header_line(b)
           close(h) == IF h.remaining_body = 0 THEN msg_done(h, <<>>) ELSE Ok(h)
           F == [close(f.dec) EXCEPT !.dec = seen(close(f.dec).dec)]
           G == [close(g.dec) EXCEPT !.dec = seen(close(g.dec).dec)]
<1>1. Longer(b, a, z)
  BY DEF Longer, Decoder
<1>2. a.rlen = d.rlen /\ a.ring = d.ring /\ Fits(a)
  BY DEF Longer, Decoder, Fits
<1>3. /\ EmptyLineCR(d) = IF f.err THEN f ELSE [F EXCEPT !.alloc = TRUE]
      /\ EmptyLineCR(e) = IF g.err THEN g ELSE [G EXCEPT !.alloc = TRUE]
  BY DEF EmptyLineCR, AndThen
<1> HIDE DEF a, b
<1>4. LongerOutcome(g, f, z)
  BY <1>1, <1>2, FinishLonger
<1> HIDE DEF f, g
<1> DEFINE c == close(f.dec)
           k == close(g.dec)
<1>5. LongerOutcome(k, c, z)
  <2>1. Longer(g.dec, f.dec, z) /\ <<>> \in Seq(Char) /\ g.dec.remaining_body = f.dec.remaining_body
    BY <1>4 DEF LongerOutcome, Longer
  <2>2. QED
    BY <2>1, DoneLonger, SeenLonger
<1>6. F = [c EXCEPT !.dec = seen(c.dec)] /\ G = [k EXCEPT !.dec = seen(k.dec)]
  OBVIOUS
<1> HIDE DEF c, k, F, G, close
<1>7. Longer(seen(k.dec), seen(c.dec), z)
  BY <1>5, SeenLonger DEF LongerOutcome
<1>8. LongerOutcome(G, F, z)
  <2> DEFINE u == seen(c.dec)
             v == seen(k.dec)
  <2>1. u \in Decoder /\ v \in Decoder /\ Longer(v, u, z)
    BY <1>7 DEF Longer
  <2> HIDE DEF u, v
  <2>2. F = [c EXCEPT !.dec = u] /\ G = [k EXCEPT !.dec = v]
    BY <1>6 DEF u, v
  <2>3. QED
    BY <1>5, <2>1, <2>2 DEF LongerOutcome, Result
<1>9. LongerOutcome([G EXCEPT !.alloc = TRUE], [F EXCEPT !.alloc = TRUE], z)
  BY <1>8 DEF LongerOutcome, Result
<1>10. g.err = f.err
  BY <1>4 DEF LongerOutcome
<1>11. QED
  BY <1>3, <1>4, <1>9, <1>10

\* A line feed is pulled as well.
LEMMA EmptyLineLFLonger ==
  ASSUME NEW d, NEW e, NEW z, Longer(e, d, z), d.rlen < Len(d.ring), Fits(d)
  PROVE  LongerOutcome(EmptyLineLF(e), EmptyLineLF(d), z)
<1> DEFINE f == finish_header_line(d)
           g == finish_header_line(e)
           new(h) == [h EXCEPT !.state = "NEW"]
           body(h) == [h EXCEPT !.state = "BODY"]
           close(h) == IF h.remaining_body = 0 THEN msg_done(new(h), <<>>) ELSE Ok(body(h))
           F == [close(f.dec) EXCEPT !.dec = pull(close(f.dec).dec, 1)]
           G == [close(g.dec) EXCEPT !.dec = pull(close(g.dec).dec, 1)]
<1>1. /\ EmptyLineLF(d) = IF f.err THEN f ELSE [F EXCEPT !.alloc = TRUE]
      /\ EmptyLineLF(e) = IF g.err THEN g ELSE [G EXCEPT !.alloc = TRUE]
  BY DEF EmptyLineLF, AndThen
<1>2. d \in Decoder /\ d.rlen \in Nat /\ d.ring \in Seq(Char) /\ Len(d.ring) \in Nat
  BY DEF Longer, Decoder
<1>3. LongerOutcome(g, f, z)
  BY <1>2, FinishLonger
<1>4. ~f.err => Len(f.dec.ring) >= 1
  <2> SUFFICES ASSUME ~f.err PROVE Len(f.dec.ring) >= 1
    OBVIOUS
  <2>1. Dropped(d, f.dec, d.rlen)
    BY <1>2, FinishEffect
  <2>2. QED
    BY <1>2, <2>1 DEF Dropped
<1> HIDE DEF f, g
<1>5. g.err = f.err /\ Longer(g.dec, f.dec, z) /\ g.dec.remaining_body = f.dec.remaining_body
  BY <1>3 DEF LongerOutcome, Longer
<1>6. CASE f.err
  BY <1>1, <1>3, <1>5, <1>6
<1>7. CASE ~f.err
  <2> DEFINE h == f.dec
             i == g.dec
             c == close(h)
             k == close(i)
  <2>1. Longer(i, h, z) /\ h \in Decoder /\ i \in Decoder /\ i.remaining_body = h.remaining_body
    BY <1>5 DEF Longer
  <2>2. F = [c EXCEPT !.dec = pull(c.dec, 1)] /\ G = [k EXCEPT !.dec = pull(k.dec, 1)]
    OBVIOUS
  <2>3. Len(h.ring) >= 1
    BY <1>4, <1>7
  <2> HIDE DEF h, i, F, G
  <2>4. Longer(new(i), new(h), z) /\ Longer(body(i), body(h), z)
    BY <2>1 DEF Longer, Decoder
  <2>5. new(h).ring = h.ring /\ body(h).ring = h.ring /\ new(h) \in Decoder
    BY <2>1 DEF Decoder
  <2> HIDE DEF new, body
  <2>6. LongerOutcome(k, c, z)
    <3>1. <<>> \in Seq(Char)
      OBVIOUS
    <3>2. LongerOutcome(msg_done(new(i), <<>>), msg_done(new(h), <<>>), z)
      BY <2>4, <3>1, DoneLonger
    <3>3. LongerOutcome(Ok(body(i)), Ok(body(h)), z)
      BY <2>4, SeenLonger
    <3>4. QED
      BY <2>1, <3>2, <3>3
  <2>7. c.dec.ring = h.ring
    <3>1. msg_done(new(h), <<>>).dec.ring = h.ring
      BY <2>5 DEF msg_done, Decoder
    <3>2. Ok(body(h)).dec.ring = h.ring
      BY <2>5 DEF Ok
    <3>3. QED
      BY <3>1, <3>2
  <2> HIDE DEF c, k, close
  <2> DEFINE u == pull(c.dec, 1)
             v == pull(k.dec, 1)
  <2>8. Longer(v, u, z)
    <3>1. Longer(k.dec, c.dec, z) /\ 1 <= Len(c.dec.ring)
      BY <2>3, <2>6, <2>7 DEF LongerOutcome
    <3>2. QED
      BY <3>1, PullLonger
  <2>9. u \in Decoder /\ v \in Decoder /\ F = [c EXCEPT !.dec = u] /\ G = [k EXCEPT !.dec = v]
    BY <2>2, <2>8 DEF Longer
  <2> HIDE DEF u, v
  <2>10. LongerOutcome(G, F, z)
    BY <2>6, <2>8, <2>9 DEF LongerOutcome, Result
  <2>11. LongerOutcome([G EXCEPT !.alloc = TRUE], [F EXCEPT !.alloc = TRUE], z)
    BY <2>10 DEF LongerOutcome, Result
  <2>12. QED
    BY <1>1, <1>5, <1>7, <2>11
<1>8. QED
  BY <1>6, <1>7

\* A character that begins the next line, or goes on with this one.
LEMMA NextLineLonger ==
  ASSUME NEW d, NEW e, NEW z, Longer(e, d, z), d.rlen <= Len(d.ring), Fits(d)
  PROVE  /\ LongerOutcome(NextLine(e, seen), NextLine(d, seen), z)
         /\ LET quote(h) == [seen(h) EXCEPT !.state = "HEADER_QUOTE", !.quoted = FALSE]
            IN  LongerOutcome(NextLine(e, quote), NextLine(d, quote), z)
<1> DEFINE quote(h) == [seen(h) EXCEPT !.state = "HEADER_QUOTE", !.quoted = FALSE]
           f == finish_header_line(d)
           g == finish_header_line(e)
           new == d.last_chr \in {CR, LF}
<1>1. ASSUME NEW a, NEW b, Longer(b, a, z)
      PROVE  Longer(seen(b), seen(a), z) /\ Longer(quote(b), quote(a), z)
  <2> DEFINE p == seen(a)
             q == seen(b)
  <2>1. Longer(q, p, z)
    BY <1>1, SeenLonger
  <2>2. quote(a) = [p EXCEPT !.state = "HEADER_QUOTE", !.quoted = FALSE]
        /\ quote(b) = [q EXCEPT !.state = "HEADER_QUOTE", !.quoted = FALSE]
    OBVIOUS
  <2> HIDE DEF p, q, quote
  <2>3. Longer(quote(b), quote(a), z)
    BY <2>1, <2>2 DEF Longer, Decoder
  <2>4. QED
    BY <2>1, <2>3 DEF p, q
<1>2. /\ NextLine(d, seen) = IF new THEN IF f.err THEN f ELSE [Ok(seen(f.dec)) EXCEPT !.alloc = TRUE]
                             ELSE Ok(seen(d))
      /\ NextLine(e, seen) = IF new THEN IF g.err THEN g ELSE [Ok(seen(g.dec)) EXCEPT !.alloc = TRUE]
                             ELSE Ok(seen(e))
  BY DEF NextLine, AndThen, Longer
<1>3. /\ NextLine(d, quote) = IF new THEN IF f.err THEN f ELSE [Ok(quote(f.dec)) EXCEPT !.alloc = TRUE]
                              ELSE Ok(quote(d))
      /\ NextLine(e, quote) = IF new THEN IF g.err THEN g ELSE [Ok(quote(g.dec)) EXCEPT !.alloc = TRUE]
                              ELSE Ok(quote(e))
  BY DEF NextLine, AndThen, Longer
<1>4. LongerOutcome(g, f, z)
  BY FinishLonger
<1> HIDE DEF f, g, new
<1>5. g.err = f.err /\ Longer(g.dec, f.dec, z)
  BY <1>4 DEF LongerOutcome
<1>6. ASSUME NEW a, NEW b, Longer(b, a, z)
      PROVE  LongerOutcome(Ok(b), Ok(a), z) /\ LongerOutcome([Ok(b) EXCEPT !.alloc = TRUE], [Ok(a) EXCEPT !.alloc = TRUE], z)
  <2>1. LongerOutcome(Ok(b), Ok(a), z)
    BY <1>6, SeenLonger
  <2> DEFINE p == Ok(a)
             q == Ok(b)
  <2> HIDE DEF p, q
  <2>2. LongerOutcome([q EXCEPT !.alloc = TRUE], [p EXCEPT !.alloc = TRUE], z)
    BY <2>1 DEF LongerOutcome, Result, p, q
  <2>3. QED
    BY <2>1, <2>2 DEF p, q
<1> HIDE DEF quote
<1>7. LongerOutcome(NextLine(e, seen), NextLine(d, seen), z)
  <2>1. Longer(seen(e), seen(d), z) /\ Longer(seen(g.dec), seen(f.dec), z)
    BY <1>1, <1>5
  <2>2. /\ LongerOutcome(Ok(seen(e)), Ok(seen(d)), z)
        /\ LongerOutcome([Ok(seen(g.dec)) EXCEPT !.alloc = TRUE], [Ok(seen(f.dec)) EXCEPT !.alloc = TRUE], z)
    BY <1>6, <2>1
  <2>3. QED
    BY <1>2, <1>4, <1>5, <2>2, Zenon
<1>8. LongerOutcome(NextLine(e, quote), NextLine(d, quote), z)
  <2>1. Longer(quote(e), quote(d), z) /\ Longer(quote(g.dec), quote(f.dec), z)
    BY <1>1, <1>5
  <2>2. /\ LongerOutcome(Ok(quote(e)), Ok(quote(d)), z)
        /\ LongerOutcome([Ok(quote(g.dec)) EXCEPT !.alloc = TRUE], [Ok(quote(f.dec)) EXCEPT !.alloc = TRUE], z)
    BY <1>6, <2>1
  <2>3. QED
    BY <1>3, <1>4, <1>5, <2>2, Zenon
<1>9. QED
  BY <1>7, <1>8 DEF quote

\* No character looks at the bytes behind it.
LEMMA CharLonger ==
  ASSUME NEW d, NEW e, NEW z, NEW ch, Longer(e, d, z), Before(d, ch)
  PROVE  LongerOutcome(feed_char(e, ch), feed_char(d, ch), z)
<1>0. /\ d.state \in States /\ e.state = d.state /\ d.rlen < Len(d.ring) /\ d.rlen <= Len(d.ring)
      /\ Fits(d) /\ e.last_chr = d.last_chr
  BY DEF Longer, Before, Decoder
<1>1. CASE d.state = "NEW"
  BY <1>0, <1>1, NewLonger DEF feed_char
<1>2. CASE d.state = "HEADER"
  <2> DEFINE quote(h) == [seen(h) EXCEPT !.state = "HEADER_QUOTE", !.quoted = FALSE]
  <2>1. feed_char(d, ch) = feed_char_header(d, ch) /\ feed_char(e, ch) = feed_char_header(e, ch)
    BY <1>0, <1>2 DEF feed_char
  <2>2. CASE ch = CR /\ d.last_chr \in {CR, LF}
    <3>1. feed_char_header(d, ch) = EmptyLineCR(d) /\ feed_char_header(e, ch) = EmptyLineCR(e)
      BY <1>0, <2>2, DistinctAssumption DEF feed_char_header
    <3>2. QED
      BY <1>0, <2>1, <3>1, EmptyLineCRLonger
  <2>3. CASE ch = LF /\ d.last_chr = LF
    <3>1. feed_char_header(d, ch) = EmptyLineLF(d) /\ feed_char_header(e, ch) = EmptyLineLF(e)
      BY <1>0, <2>3, DistinctAssumption DEF feed_char_header
    <3>2. QED
      BY <1>0, <2>1, <3>1, EmptyLineLFLonger
  <2>4. CASE ch = QUOTE
    <3>1. feed_char_header(d, ch) = NextLine(d, quote) /\ feed_char_header(e, ch) = NextLine(e, quote)
      BY <1>0, <2>4, DistinctAssumption DEF feed_char_header
    <3>2. QED
      BY <1>0, <2>1, <3>1, NextLineLonger
  <2>5. CASE ch \notin {CR, LF, SP, QUOTE}
    <3>1. feed_char_header(d, ch) = NextLine(d, seen) /\ feed_char_header(e, ch) = NextLine(e, seen)
      BY <1>0, <2>5, DistinctAssumption DEF feed_char_header
    <3>2. QED
      BY <1>0, <2>1, <3>1, NextLineLonger
  <2>6. CASE ch = SP \/ (ch = CR /\ d.last_chr \notin {CR, LF}) \/ (ch = LF /\ d.last_chr # LF)
    <3>1. feed_char_header(d, ch) = Ok(seen(d)) /\ feed_char_header(e, ch) = Ok(seen(e))
      BY <1>0, <2>6, DistinctAssumption DEF feed_char_header
    <3>2. QED
      BY <2>1, <3>1, SeenLonger
  <2>7. QED
    BY <2>2, <2>3, <2>4, <2>5, <2>6, DistinctAssumption
<1>3. CASE d.state = "HEADER_QUOTE"
  BY <1>0, <1>3, QuoteLonger DEF feed_char
<1>4. CASE d.state = "HEADER_NL"
  BY <1>0, <1>4, NlLonger DEF feed_char
<1>5. CASE d.state = "BODY"
  BY <1>0, <1>5, BodyLonger DEF feed_char
<1>6. QED
  BY <1>0, <1>1, <1>2, <1>3, <1>4, <1>5

-----------------------------------------------------------------------------
\* Induction over the naturals, for a set.
LEMMA SetInduction ==
  ASSUME NEW T, T \subseteq Nat, 0 \in T, \A n \in T : n + 1 \in T
  PROVE  Nat = T
<1> SUFFICES ASSUME Nat \ T # {} PROVE FALSE
  OBVIOUS
<1>1. PICK x \in Nat \ T : \A y \in Nat \ T : ~(<<y, x>> \in OpToRel(<, Nat))
  BY NatLessThanWellFounded, WFMin
<1>2. x \in Nat /\ x # 0 /\ x - 1 \in Nat /\ x = (x - 1) + 1
  OBVIOUS
<1>3. x - 1 \in Nat \ T
  BY <1>2
<1>4. ~(x - 1 < x)
  BY <1>1, <1>2, <1>3 DEF OpToRel
<1>5. QED
  BY <1>2, <1>4

\* The decoders f of a replay of s that began with d and the bytes s \o z in the ring.
Start(d, s) == [dec |-> [d EXCEPT !.ring = s, !.rlen = 0], out |-> <<>>]

Unwinds(f, d, s, z) ==
  f = [i \in 0 .. Len(s) |-> IF i = 0 THEN Start(d, s \o z) ELSE replay_char(f[i - 1], s[i])]

\* A replay has one outcome.
LEMMA ReplayUnwinds ==
  ASSUME NEW d, NEW s \in Seq(Char), NEW f, Unwinds(f, d, s, <<>>)
  PROVE  Replay(d, s) = f[Len(s)]
<1> DEFINE n == Len(s)
           G(g) == g = [i \in 0 .. n |-> IF i = 0 THEN Start(d, s) ELSE replay_char(g[i - 1], s[i])]
           c == CHOOSE g : G(g)
<1>1. n \in Nat /\ s \o <<>> = s
  OBVIOUS
<1>2. G(f)
  BY <1>1 DEF Unwinds
<1>3. G(c)
  BY <1>2
<1>4. Replay(d, s) = c[n]
  BY DEF Replay, Start
<1> HIDE DEF c, n
<1> DEFINE T == {i \in Nat : i <= n => f[i] = c[i]}
<1>5. 0 \in T
  BY <1>1, <1>2, <1>3
<1>6. ASSUME NEW i \in T PROVE i + 1 \in T
  <2>1. CASE i + 1 <= n
    <3>1. i + 1 \in 0 .. n /\ i + 1 # 0 /\ (i + 1) - 1 = i /\ f[i] = c[i]
      BY <1>1, <2>1
    <3>2. f[i + 1] = replay_char(f[i], s[i + 1]) /\ c[i + 1] = replay_char(c[i], s[i + 1])
      BY <1>2, <1>3, <3>1
    <3>3. QED
      BY <3>1, <3>2
  <2>2. QED
    BY <2>1
<1>7. n \in T
  <2>1. T \subseteq Nat
    OBVIOUS
  <2> HIDE DEF T
  <2>2. QED
    BY <1>1, <1>5, <1>6, <2>1, SetInduction, Zenon
<1>8. QED
  BY <1>4, <1>7 DEF n

\* The decoder d, which has delivered m, is where the replay of s has come to in a
\* ring that holds the rest z of the chunk as well.
Replayed(f, b, s, z, d, m) ==
  /\ Unwinds(f, b, s, z)
  /\ f[Len(s)] = [dec |-> d, out |-> m]
  /\ \A i \in 1 .. Len(s) : Before(f[i - 1].dec, s[i])

Reached(b, s, z, d, m) == \E f : Replayed(f, b, s, z, d, m)

\* Nothing was parsed yet.
LEMMA ReplayStart ==
  ASSUME NEW d \in Decoder, d.ring = <<>>, d.rlen = 0
  PROVE  Reached(d, <<>>, <<>>, d, <<>>)
<1> DEFINE f == [i \in 0 .. 0 |-> [dec |-> d, out |-> <<>>]]
<1>1. Len(<<>>) = 0 /\ <<>> \o <<>> = <<>>
  OBVIOUS
<1>2. [d EXCEPT !.ring = <<>>, !.rlen = 0] = d
  BY DEF Decoder
<1>3. Start(d, <<>>) = [dec |-> d, out |-> <<>>]
  BY <1>2 DEF Start
<1>4. \A i \in 0 .. 0 : i = 0
  OBVIOUS
<1>5. Unwinds(f, d, <<>>, <<>>)
  BY <1>1, <1>3, <1>4 DEF Unwinds
<1>6. f[Len(<<>>)] = [dec |-> d, out |-> <<>>]
  BY <1>1
<1> HIDE DEF f
<1>7. Replayed(f, d, <<>>, <<>>, d, <<>>)
  BY <1>1, <1>5, <1>6 DEF Replayed
<1>8. QED
  BY <1>7 DEF Reached

\* One more character, which was the first of the rest.
LEMMA ReplayChar ==
  ASSUME NEW b, NEW s \in Seq(Char), NEW z \in Seq(Char), z # <<>>, NEW d, NEW m,
         Before(d, Head(z)), Reached(b, s, z, d, m)
  PROVE  LET r == replay_char([dec |-> d, out |-> m], Head(z))
         IN  Reached(b, Append(s, Head(z)), Tail(z), r.dec, r.out)
<1> DEFINE ch == Head(z)
           n == Len(s)
           t == Append(s, ch)
           y == Tail(z)
           r == replay_char([dec |-> d, out |-> m], ch)
<1>1. PICK f : Replayed(f, b, s, z, d, m)
  BY DEF Reached
<1> DEFINE g == [i \in 0 .. n + 1 |-> IF i = n + 1 THEN r ELSE f[i]]
<1>2. /\ ch \in Char /\ n \in Nat /\ t \in Seq(Char) /\ Len(t) = n + 1 /\ y \in Seq(Char)
      /\ \A i \in 1 .. n : t[i] = s[i] 
      /\ t[n + 1] = ch
  OBVIOUS
<1>3. t \o y = s \o z
  <2>1. z = <<ch>> \o y
    OBVIOUS
  <2>2. t = s \o <<ch>>
    OBVIOUS
  <2>3. <<ch>> \in Seq(Char)
    BY <1>2
  <2> HIDE DEF ch, y, t
  <2>4. (s \o <<ch>>) \o y = s \o (<<ch>> \o y)
    BY <1>2, <2>3
  <2>5. QED
    BY <2>1, <2>2, <2>4
<1>4. r = [dec |-> r.dec, out |-> r.out]
  BY DEF replay_char
<1>5. /\ f = [i \in 0 .. n |-> IF i = 0 THEN Start(b, s \o z) ELSE replay_char(f[i - 1], s[i])]
      /\ f[n] = [dec |-> d, out |-> m]
      /\ \A i \in 1 .. n : Before(f[i - 1].dec, s[i])
  BY <1>1 DEF Replayed, Unwinds
<1> HIDE DEF r, t, y, n, ch
<1>6. ASSUME NEW i \in 0 .. n + 1
      PROVE  g[i] = IF i = 0 THEN Start(b, s \o z) ELSE replay_char(g[i - 1], t[i])
  <2>1. CASE i = n + 1
    <3>1. i # 0 /\ i - 1 = n /\ n \in 0 .. n + 1 /\ n # n + 1
      BY <1>2, <2>1
    <3>2. g[i] = r /\ g[i - 1] = f[n] /\ t[i] = ch
      BY <1>2, <2>1, <3>1
    <3>3. QED
      BY <1>5, <3>1, <3>2 DEF r
  <2>2. CASE i \in 1 .. n
    <3>1. i # 0 /\ i # n + 1 /\ i - 1 \in 0 .. n + 1 /\ i - 1 # n + 1 /\ i \in 0 .. n
      BY <1>2, <2>2
    <3>2. g[i] = f[i] /\ g[i - 1] = f[i - 1] /\ t[i] = s[i]
      BY <1>2, <2>2, <3>1
    <3> HIDE DEF g
    <3>3. QED
      BY <1>5, <3>1, <3>2
  <2>3. CASE i = 0
    <3>1. i # n + 1 /\ i \in 0 .. n
      BY <1>2, <2>3
    <3>2. g[i] = f[i]
      BY <3>1
    <3> HIDE DEF g
    <3>3. QED
      BY <1>5, <2>3, <3>1, <3>2
  <2>4. QED
    BY <1>2, <2>1, <2>2, <2>3
<1>7. Unwinds(g, b, t, y)
  <2>1. g = [i \in 0 .. n + 1 |-> g[i]]
    OBVIOUS
  <2> HIDE DEF g
  <2>2. g = [i \in 0 .. n + 1 |-> IF i = 0 THEN Start(b, s \o z) ELSE replay_char(g[i - 1], t[i])]
    BY <1>6, <2>1, Zenon
  <2>3. QED
    BY <1>2, <1>3, <2>2 DEF Unwinds
<1>8. ASSUME NEW i \in 1 .. n + 1 PROVE Before(g[i - 1].dec, t[i])
  <2>1. i - 1 \in 0 .. n + 1 /\ i - 1 # n + 1
    BY <1>2
  <2>2. g[i - 1] = f[i - 1]
    BY <2>1
  <2>3. CASE i = n + 1
    BY <1>2, <1>5, <2>2, <2>3 DEF ch
  <2>4. CASE i \in 1 .. n
    BY <1>2, <1>5, <2>2, <2>4
  <2>5. QED
    BY <1>2, <2>3, <2>4
<1>9. g[n + 1] = r
  BY <1>2
<1> HIDE DEF g
<1>10. Replayed(g, b, t, y, r.dec, r.out)
  BY <1>2, <1>4, <1>7, <1>8, <1>9 DEF Replayed
<1>11. QED
  BY <1>10 DEF Reached, r, t, y, ch

\* More bytes in the ring.
Extended(d, z) == [d EXCEPT !.ring = d.ring \o z]

\* That is what Longer says.
LEMMA ExtendedLonger ==
  ASSUME NEW d \in Decoder, NEW z \in Seq(Char)
  PROVE  Longer(Extended(d, z), d, z)
<1>1. d.ring \o z \in Seq(Char)
  BY DEF Decoder
<1>2. QED
  BY <1>1 DEF Longer, Extended, Decoder

\* A replay in a ring that holds more bytes is the same replay.
LEMMA ReplayFeed ==
  ASSUME NEW b \in Decoder, NEW s \in Seq(Char), NEW z \in Seq(Char), NEW d \in Decoder, NEW m,
         Reached(b, s, <<>>, d, m)
  PROVE  Reached(b, s, z, Extended(d, z), m)
<1> DEFINE n == Len(s)
           ext(x) == [dec |-> Extended(x.dec, z), out |-> x.out]
<1>1. PICK f : Replayed(f, b, s, <<>>, d, m)
  BY DEF Reached
<1> DEFINE g == [i \in 0 .. n |-> ext(f[i])]
<1>2. n \in Nat /\ s \o <<>> = s /\ s \o z \in Seq(Char)
  OBVIOUS
<1>3. /\ f = [i \in 0 .. n |-> IF i = 0 THEN Start(b, s) ELSE replay_char(f[i - 1], s[i])]
      /\ f[n] = [dec |-> d, out |-> m]
      /\ \A i \in 1 .. n : Before(f[i - 1].dec, s[i])
  BY <1>1, <1>2 DEF Replayed, Unwinds
<1>4. ext(Start(b, s)) = Start(b, s \o z)
  BY <1>2 DEF Start, Extended, Decoder
<1>5. ASSUME NEW x, NEW ch, Before(x.dec, ch) PROVE ext(replay_char(x, ch)) = replay_char(ext(x), ch)
  <2> DEFINE e == Extended(x.dec, z)
             r == feed_char(x.dec, ch)
             q == feed_char(e, ch)
             p == [r.dec EXCEPT !.last_chr = ch]
             u == [q.dec EXCEPT !.last_chr = ch]
  <2>1. Longer(e, x.dec, z)
    BY <1>5, ExtendedLonger DEF Before
  <2>2. ext(x).dec = e /\ ext(x).out = x.out
    OBVIOUS
  <2>3. /\ replay_char(x, ch) = [dec |-> p, out |-> x.out \o r.out]
        /\ replay_char(ext(x), ch) = [dec |-> u, out |-> x.out \o q.out]
    BY <2>2 DEF replay_char
  <2> HIDE DEF e
  <2>4. LongerOutcome(q, r, z)
    BY <1>5, <2>1, CharLonger
  <2> HIDE DEF q, r
  <2>5. ch \in Char
    BY <1>5 DEF Before
  <2>6. Longer(u, p, z)
    BY <2>4, <2>5 DEF LongerOutcome, Longer, Decoder
  <2> HIDE DEF u, p
  <2>7. Longer(Extended(p, z), p, z)
    BY <2>6, ExtendedLonger DEF Longer
  <2>8. Extended(p, z) = u
    BY <2>6, <2>7, LongerUnique
  <2>9. q.out = r.out
    BY <2>4 DEF LongerOutcome
  <2>10. QED
    BY <2>3, <2>8, <2>9
<1> HIDE DEF ext, n
<1>6. ASSUME NEW i \in 0 .. n
      PROVE  g[i] = IF i = 0 THEN Start(b, s \o z) ELSE replay_char(g[i - 1], s[i])
  <2>1. CASE i = 0
    BY <1>2, <1>3, <1>4, <2>1
  <2>2. CASE i # 0
    <3>1. i \in 1 .. n /\ i - 1 \in 0 .. n
      BY <1>2, <2>2
    <3>2. f[i] = replay_char(f[i - 1], s[i]) /\ Before(f[i - 1].dec, s[i])
      BY <1>3, <2>2, <3>1
    <3>3. g[i] = ext(f[i]) /\ g[i - 1] = ext(f[i - 1])
      BY <3>1
    <3> HIDE DEF g
    <3>4. QED
      BY <1>5, <2>2, <3>2, <3>3
  <2>3. QED
    BY <2>1, <2>2
<1>7. Unwinds(g, b, s, z)
  <2>1. g = [i \in 0 .. n |-> g[i]]
    OBVIOUS
  <2> HIDE DEF g
  <2>2. g = [i \in 0 .. n |-> IF i = 0 THEN Start(b, s \o z) ELSE replay_char(g[i - 1], s[i])]
    BY <1>6, <2>1, Zenon
  <2>3. QED
    BY <2>2 DEF Unwinds, n
<1>8. ASSUME NEW i \in 1 .. n PROVE Before(g[i - 1].dec, s[i])
  <2>1. i - 1 \in 0 .. n
    BY <1>2
  <2> DEFINE x == f[i - 1].dec
             e == Extended(x, z)
  <2>2. g[i - 1].dec = e
    BY <2>1 DEF ext
  <2>3. Before(x, s[i])
    BY <1>3
  <2> HIDE DEF x, e
  <2>4. Longer(e, x, z)
    BY <2>3, ExtendedLonger DEF Before, e
  <2>5. Before(e, s[i])
    <3>1. /\ x.ring \in Seq(Char) /\ e.ring = x.ring \o z /\ x.rlen \in Nat /\ e.rlen = x.rlen
          /\ x.rlen < Len(x.ring) /\ x.ring[x.rlen + 1] = s[i] /\ e \in Decoder
      BY <2>3, <2>4 DEF Before, Longer, Decoder
    <3>2. e.rlen < Len(e.ring) /\ e.ring[e.rlen + 1] = s[i]
      BY <3>1
    <3>3. Fits(e)
      BY <2>3, <2>4 DEF Before, Longer, Fits
    <3>4. QED
      BY <2>3, <3>1, <3>2, <3>3 DEF Before
  <2>6. QED
    BY <2>2, <2>5
<1>9. g[n] = [dec |-> Extended(d, z), out |-> m]
  BY <1>2, <1>3 DEF ext
<1> HIDE DEF g
<1>10. Replayed(g, b, s, z, Extended(d, z), m)
  BY <1>7, <1>8, <1>9 DEF Replayed, n
<1>11. QED
  BY <1>10 DEF Reached

-----------------------------------------------------------------------------
\* The decoder is where the replay of its stream has come to.
ReplayInv == base \in Decoder /\ Reached(base, stream, todo, dec, msgs)

\* A reset begins a new stream.
LEMMA ResetReplays == IInv /\ Reset => ReplayInv'
<1> SUFFICES ASSUME IInv, Reset PROVE ReplayInv'
  OBVIOUS
<1>1. <<>> \in Seq(Char)
  OBVIOUS
<1>2. dec' \in Decoder /\ dec'.ring = <<>> /\ dec'.rlen = 0
  BY <1>1 DEF IInv, Reset, owfd_rtsp_decoder_flush, Decoder
<1>3. base' = dec' /\ todo' = <<>> /\ stream' = <<>> /\ msgs' = <<>>
  BY DEF Reset
<1>4. Reached(dec', <<>>, <<>>, dec', <<>>)
  BY <1>2, ReplayStart
<1>5. QED
  BY <1>2, <1>3, <1>4 DEF ReplayInv

\* A chunk that arrives is more bytes in the ring.
LEMMA FeedReplays ==
  ASSUME IInv, ReplayInv, NEW chunk \in Seq(Char), Feed(chunk)
  PROVE  ReplayInv'
<1>1. /\ dec \in Decoder /\ dec.rlen = Len(dec.ring) /\ todo = <<>> /\ stream \in Seq(Char)
      /\ base \in Decoder /\ Reached(base, stream, <<>>, dec, msgs)
  <2>1. todo = <<>> /\ dec \in Decoder /\ stream \in Seq(Char) /\ dec.rlen + Len(todo) = Len(dec.ring)
    BY DEF IInv, Border, Feed
  <2>2. dec.rlen \in Nat
    BY <2>1 DEF Decoder
  <2>3. QED
    BY <2>1, <2>2 DEF ReplayInv
<1>2. dec' = Extended(dec, chunk)
  <2>1. dec' = [dec EXCEPT !.rlen = dec.rlen, !.ring = dec.ring \o chunk]
    BY <1>1 DEF Feed
  <2>2. QED
    BY <1>1, <2>1 DEF Extended, Decoder
<1>3. todo' = chunk /\ stream' = stream /\ base' = base /\ msgs' = msgs
  BY DEF Feed
<1>4. Reached(base, stream, chunk, Extended(dec, chunk), msgs)
  BY <1>1, ReplayFeed
<1>5. QED
  BY <1>1, <1>2, <1>3, <1>4 DEF ReplayInv

\* A character of it is the next one of the replay.
LEMMA CharReplays == IInv /\ ReplayInv /\ FeedChar => ReplayInv'
<1> SUFFICES ASSUME IInv, ReplayInv, FeedChar PROVE ReplayInv'
  OBVIOUS
<1> DEFINE ch == Head(todo)
           r == feed_char(dec, ch)
           x == replay_char([dec |-> dec, out |-> msgs], ch)
<1>1. CASE r.err
  BY <1>1, ResetReplays DEF FeedChar
<1>2. CASE ~r.err
  <2>1. /\ dec' = [r.dec EXCEPT !.last_chr = ch] /\ msgs' = msgs \o r.out
        /\ todo' = Tail(todo) /\ stream' = Append(stream, ch) /\ base' = base /\ todo # <<>>
    BY <1>2 DEF FeedChar
  <2>2. x = [dec |-> dec', out |-> msgs']
    BY <2>1 DEF replay_char
  <2>3. /\ dec \in Decoder /\ todo \in Seq(Char) /\ stream \in Seq(Char) /\ Fits(dec)
        /\ dec.rlen + Len(todo) = Len(dec.ring)
        /\ \A i \in 1 .. Len(todo) : dec.ring[dec.rlen + i] = todo[i]
    BY DEF IInv, Border
  <2>4. ch \in Char /\ ch = todo[1] /\ Len(todo) \in Nat /\ Len(todo) >= 1
    BY <2>1, <2>3
  <2>5. Before(dec, ch)
    BY <2>3, <2>4 DEF Before, Decoder
  <2>6. Reached(base, Append(stream, ch), Tail(todo), x.dec, x.out)
    BY <2>1, <2>3, <2>5, ReplayChar DEF ReplayInv
  <2> HIDE DEF x
  <2>7. x.dec = dec' /\ x.out = msgs'
    BY <2>2
  <2>8. QED
    BY <2>1, <2>6, <2>7 DEF ReplayInv
<1>3. QED
  BY <1>1, <1>2

\* What reaches the callback, and the state that is left, depend on the bytes of the
\* stream only, and not on how the peer's packets cut it.
THEOREM ChunkInvarianceHolds == Spec => []ChunkInvariance
<1>1. Init => ReplayInv
  <2> SUFFICES ASSUME Init PROVE ReplayInv
    OBVIOUS
  <2>1. NewDecoder \in Decoder /\ NewDecoder.ring = <<>> /\ NewDecoder.rlen = 0
    <3>1. <<>> \in Seq(Char) /\ <<>> \in Seq(Line)
      OBVIOUS
    <3>2. QED
      BY <3>1 DEF NewDecoder, Decoder
  <2>2. Reached(NewDecoder, <<>>, <<>>, NewDecoder, <<>>)
    BY <2>1, ReplayStart
  <2>3. QED
    BY <2>1, <2>2 DEF Init, ReplayInv
<1>2. IInv /\ ReplayInv /\ [Next]_vars => ReplayInv'
  <2> SUFFICES ASSUME IInv, ReplayInv, [Next]_vars PROVE ReplayInv'
    OBVIOUS
  <2>1. ASSUME NEW chunk \in BoundedSeq(Alphabet, MaxChunk), Feed(chunk) PROVE ReplayInv'
    <3>1. chunk \in Seq(Char)
      BY SeqDef DEF BoundedSeq, SeqOf
    <3>2. QED
      BY <2>1, <3>1, FeedReplays
  <2>2. CASE FeedChar
    BY <2>2, CharReplays
  <2>3. CASE FeedCharNoMem \/ Flush
    BY <2>3, ResetReplays DEF FeedCharNoMem, Flush
  <2>4. CASE UNCHANGED vars
    BY <2>4 DEF vars, ReplayInv
  <2>5. QED
    BY <2>1, <2>2, <2>3, <2>4 DEF Next, FeedNoMem
<1>3. IInv /\ ReplayInv => ChunkInvariance
  <2> SUFFICES ASSUME IInv, ReplayInv, todo = <<>>
               PROVE  LET whole == Replay(base, stream)
                      IN  msgs = whole.out /\ [dec EXCEPT !.rlen = 0] = [whole.dec EXCEPT !.rlen = 0]
    BY DEF ChunkInvariance
  <2>1. stream \in Seq(Char)
    BY DEF IInv
  <2>2. PICK f : Replayed(f, base, stream, <<>>, dec, msgs)
    BY DEF ReplayInv, Reached
  <2>3. Replay(base, stream) = [dec |-> dec, out |-> msgs]
    BY <2>1, <2>2, ReplayUnwinds DEF Replayed
  <2>4. QED
    BY <2>3
<1>4. QED
  BY <1>1, <1>2, <1>3, Invariance, PTL DEF Spec

=============================================================================

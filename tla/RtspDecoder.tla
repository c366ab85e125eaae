---------------------------- MODULE RtspDecoder -----------------------------
(***************************************************************************)
(* The incremental RTSP message decoder of src/rtsp_decoder.c.             *)
(*                                                                         *)
(* owfd_rtsp_decoder_feed pushes a chunk into a ring buffer and then runs  *)
(* a state machine over its characters, one step each.  "rlen" counts the  *)
(* bytes at the start of the ring that the machine has already seen; a     *)
(* finished header line or body is copied out of the ring and pulled.      *)
(* The ring is the FIFO that ShlRing implements (theorem RingRefinement).  *)
(*                                                                         *)
(* Characters are classes: TAB behaves as SP, and the text                 *)
(* "content-length:<n>" is one character with the value n.                 *)
(***************************************************************************)
EXTENDS Integers, Sequences, SequencesExt

CONSTANTS
  CR, LF, SP, QUOTE, BSLASH, NUL,
  ZERO,            \* the digit 0, the readable form of an escaped NUL
  Text,            \* the other characters
  ContentLength,   \* the texts "content-length:<n>", each with its n
  None,            \* last_chr = 0, before any character
  Alphabet,        \* the characters the peer sends
  HEADER_SIZE,     \* the initial number of slots for header lines, 8
  MaxStream,       \* bound: characters parsed between two resets
  MaxStale,        \* bound: header lines left over by resets before a feed
  MaxChunk         \* bound: characters per call of owfd_rtsp_decoder_feed

Char == {CR, LF, SP, QUOTE, BSLASH, NUL, ZERO} \cup Text \cup DOMAIN ContentLength

ASSUME ConstantsAssumption ==
  /\ HEADER_SIZE \in Nat /\ HEADER_SIZE >= 2
  /\ \A c \in DOMAIN ContentLength : ContentLength[c] \in Nat
  /\ None \notin Char
  /\ Alphabet \subseteq Char
  /\ MaxStream \in Nat /\ MaxChunk \in Nat /\ MaxStale \in Nat

ASSUME DistinctAssumption ==
  CR \notin {LF, SP, QUOTE} /\ LF \notin {SP, QUOTE} /\ SP # QUOTE

VARIABLES
  dec,       \* struct owfd_rtsp_decoder, and rlen of the running feed
  todo,      \* the characters of the chunk that are still to be parsed
  base,      \* history: the decoder as the last reset left it
  stream,    \* history: the characters parsed since then
  msgs       \* history: the messages passed to the callback since then

vars == <<dec, todo, base, stream, msgs>>

Ring == INSTANCE RingFifo WITH queue <- dec.ring, copied <- <<>>, call <- <<>>,
                               Chunks <- Seq(Char), Lengths <- Nat

States == {"NEW", "HEADER", "HEADER_QUOTE", "HEADER_NL", "BODY"}

\* owfd_rtsp_decoder_new
NewDecoder ==
  [ring |-> <<>>, rlen |-> 0, state |-> "NEW", last_chr |-> None,
   remaining_body |-> 0, quoted |-> FALSE,
   header |-> <<>>, header_size |-> HEADER_SIZE]

\* The outcome of parsing one character: the decoder, the messages handed to
\* the callback, whether memory was allocated and whether parsing failed.
Ok(d) == [dec |-> d, out |-> <<>>, alloc |-> FALSE, err |-> FALSE]

pull(d, n) == [d EXCEPT !.ring = Ring!Drop(d.ring, n)]

seen(d) == [d EXCEPT !.rlen = d.rlen + 1]

-----------------------------------------------------------------------------
owfd_rtsp_decoder_flush(d) ==
  [d EXCEPT !.ring = <<>>, !.rlen = 0, !.state = "NEW", !.last_chr = None,
            !.remaining_body = 0]

\* Hand the message to the callback and forget it.
msg_done(d, body) ==
  [dec   |-> [d EXCEPT !.header = <<>>],
   out   |-> <<[header |-> d.header, body |-> body]>>,
   alloc |-> TRUE,
   err   |-> FALSE]

\* Mutant of push_header_line: the slot of the terminating NULL is forgotten.
push_header_line_NoNull(d, line) ==
  [d EXCEPT !.header = Append(d.header, line),
            !.header_size = IF d.header_size = Len(d.header) + 1
                              THEN 2 * d.header_size ELSE d.header_size]

push_header_line(d, line) ==
  [d EXCEPT !.header = Append(d.header, line),
            !.header_size = IF d.header_size = Len(d.header) + 2
                              THEN 2 * d.header_size ELSE d.header_size]

\* The locals of sanitize_header_line: the characters kept so far, the last one
\* read, and whether it was inside a string and after a backslash.
Sanitizer == [out : Seq(Char), last : Char \cup {None},
              quoted : BOOLEAN, escaped : BOOLEAN]

\* One round of its loop.
sanitize_char[a \in Sanitizer, ch \in Char] ==
  LET blank == ch \in {CR, LF, SP}
      c     == IF blank THEN SP ELSE ch
      keep(out) == [a EXCEPT !.out = Append(a.out, out), !.last = ch]
  IN  IF a.quoted
        THEN IF a.last = BSLASH /\ ~a.escaped
               THEN [keep(IF ch = NUL THEN ZERO ELSE ch) EXCEPT !.escaped = TRUE]
             ELSE IF ch = QUOTE
               THEN [keep(ch) EXCEPT !.escaped = FALSE, !.quoted = FALSE]
             ELSE IF ch = NUL
               THEN [a EXCEPT !.escaped = FALSE, !.last = ch]
               ELSE [keep(ch) EXCEPT !.escaped = FALSE]
      ELSE IF ch = NUL \/ (blank /\ a.last = SP)
        THEN [a EXCEPT !.last = c]
      ELSE IF ch = QUOTE
        THEN [keep(c) EXCEPT !.last = c, !.quoted = TRUE, !.escaped = FALSE]
        ELSE [keep(c) EXCEPT !.last = c]

\* Without the trailing blanks.
trim[line \in Seq(Char)] ==
  LET solid == {i \in DOMAIN line : line[i] # SP}
  IN  IF solid = {} THEN <<>> ELSE SubSeq(line, 1, Max(solid))

\* Join continuation lines, squeeze blanks outside of quotes, drop binary
\* zeroes and trailing blanks.
sanitize_header_line(line) ==
  LET after[i \in 0 .. Len(line)] ==
        IF i = 0
          THEN [out |-> <<>>, last |-> None, quoted |-> FALSE, escaped |-> FALSE]
          ELSE sanitize_char[after[i - 1], line[i]]
  IN  trim[after[Len(line)].out]

IsContentLength(line) == line # <<>> /\ line[1] \in DOMAIN ContentLength

\* -EINVAL: text after the number, or a second length that differs.
parse_fails(d, line) ==
  /\ IsContentLength(line)
  /\ \/ Len(line) > 1
     \/ d.remaining_body # 0 /\ d.remaining_body # ContentLength[line[1]]

parse_header_line(d, line) ==
  IF IsContentLength(line)
    THEN [d EXCEPT !.remaining_body = ContentLength[line[1]]] ELSE d

\* The first rlen bytes of the ring are a complete header line.
finish_header_line(d) ==
  LET line == sanitize_header_line(Ring!Take(d.ring, d.rlen))
      p    == [pull(d, d.rlen) EXCEPT !.rlen = 0]
  IN  [dec   |-> IF parse_fails(p, line) THEN p
                 ELSE push_header_line(parse_header_line(p, line), line),
       out   |-> <<>>,
       alloc |-> TRUE,
       err   |-> parse_fails(p, line)]

-----------------------------------------------------------------------------
\* STATE_NEW: blanks between messages stay in the ring until a message begins.
feed_char_new(d, ch) ==
  Ok(IF ch \in {CR, LF, SP}
       THEN seen(d)
       ELSE [pull(d, d.rlen) EXCEPT !.state = "HEADER", !.remaining_body = 0,
                                    !.rlen = 1])

\* What follows a finished header line, unless finishing it failed.
AndThen(r, next(_)) ==
  IF r.err THEN r ELSE [next(r.dec) EXCEPT !.alloc = TRUE]

\* Mutant of EmptyLineCR: the '\r' becomes part of the last header line.
EmptyLineCR_InLine(d) ==
  LET close(h) == IF h.remaining_body = 0 THEN msg_done(h, <<>>) ELSE Ok(h)
  IN  AndThen(finish_header_line(seen([d EXCEPT !.state = "HEADER_NL"])), close)

\* '\r' after a line end: the empty line, possibly to be completed by '\n'.
EmptyLineCR(d) ==
  LET close(h) == IF h.remaining_body = 0 THEN msg_done(h, <<>>) ELSE Ok(h)
  IN  AndThen(finish_header_line([d EXCEPT !.state = "HEADER_NL"]),
              LAMBDA h : [close(h) EXCEPT !.dec = seen(close(h).dec)])

\* Mutant of EmptyLineLF: the '\n' stays in the ring.
EmptyLineLF_NoPull(d) ==
  LET close(h) == IF h.remaining_body = 0
                    THEN msg_done([h EXCEPT !.state = "NEW"], <<>>)
                    ELSE Ok([h EXCEPT !.state = "BODY"])
  IN  AndThen(finish_header_line(d), close)

\* '\n' after '\n': the end of the header; the '\n' itself is discarded.
EmptyLineLF(d) ==
  LET close(h) == IF h.remaining_body = 0
                    THEN msg_done([h EXCEPT !.state = "NEW"], <<>>)
                    ELSE Ok([h EXCEPT !.state = "BODY"])
  IN  AndThen(finish_header_line(d),
              LAMBDA h : [close(h) EXCEPT !.dec = pull(close(h).dec, 1)])

\* A character that is no blank after a line end: the line is not continued.
NextLine(d, next(_)) ==
  IF d.last_chr \in {CR, LF}
    THEN AndThen(finish_header_line(d), LAMBDA h : Ok(next(h)))
    ELSE Ok(next(d))

feed_char_header(d, ch) ==
  CASE ch = CR /\ d.last_chr \in {CR, LF} -> EmptyLineCR(d)
    [] ch = LF /\ d.last_chr = LF -> EmptyLineLF(d)
    [] ch = QUOTE ->
         NextLine(d, LAMBDA h : [seen(h) EXCEPT !.state = "HEADER_QUOTE",
                                                !.quoted = FALSE])
    [] ch \notin {CR, LF, SP, QUOTE} -> NextLine(d, seen)
    [] OTHER -> Ok(seen(d))

\* Inside a quoted string every character is taken as it is; "quoted" marks
\* the one after a backslash.
feed_char_header_quote(d, ch) ==
  LET escaped == d.last_chr = BSLASH /\ ~d.quoted
  IN  Ok([seen(d) EXCEPT
            !.quoted = escaped,
            !.state  = IF ch = QUOTE /\ ~escaped THEN "HEADER" ELSE d.state])

feed_char_body(d, ch) ==
  IF d.remaining_body = 0
    THEN feed_char_new([d EXCEPT !.state = "NEW"], ch)
  ELSE IF d.remaining_body > 1
    THEN Ok([seen(d) EXCEPT !.remaining_body = d.remaining_body - 1])
  ELSE LET r == msg_done([d EXCEPT !.remaining_body = 0],
                         Ring!Take(d.ring, d.rlen + 1))
       IN  [r EXCEPT !.dec = [pull(r.dec, d.rlen + 1) EXCEPT !.state = "NEW",
                                                             !.rlen = 0]]

\* Mutant of feed_char_header_nl: the '\n' of "\r\n" is taken for the body.
feed_char_header_nl_LFInBody(d, ch) ==
  feed_char_body([pull(d, d.rlen) EXCEPT !.rlen = 0, !.state = "BODY"], ch)

\* After the '\r' of the empty line: '\n' completes it, anything else is the
\* first character of the body or of the next message.
feed_char_header_nl(d, ch) ==
  IF ch = LF
    THEN Ok([pull(d, d.rlen + 1) EXCEPT
               !.rlen  = 0,
               !.state = IF d.remaining_body = 0 THEN "NEW" ELSE "BODY"])
    ELSE feed_char_body([pull(d, d.rlen) EXCEPT !.rlen = 0, !.state = "BODY"], ch)

feed_char(d, ch) ==
  CASE d.state = "NEW"          -> feed_char_new(d, ch)
    [] d.state = "HEADER"       -> feed_char_header(d, ch)
    [] d.state = "HEADER_QUOTE" -> feed_char_header_quote(d, ch)
    [] d.state = "HEADER_NL"    -> feed_char_header_nl(d, ch)
    [] d.state = "BODY"         -> feed_char_body(d, ch)

-----------------------------------------------------------------------------
Init ==
  /\ dec = NewDecoder
  /\ base = NewDecoder
  /\ todo = <<>>
  /\ msgs = <<>>
  /\ stream = <<>>

\* Mutant of Feed: the bytes left over by earlier chunks are not counted.
Feed_RlenZero(chunk) ==
  /\ todo = <<>>
  /\ dec' = [dec EXCEPT !.rlen = 0, !.ring = dec.ring \o chunk]
  /\ todo' = chunk
  /\ UNCHANGED <<base, stream, msgs>>

\* The entry of owfd_rtsp_decoder_feed: rlen is what the ring holds already.
Feed(chunk) ==
  /\ todo = <<>>
  /\ dec' = [dec EXCEPT !.rlen = Len(dec.ring), !.ring = dec.ring \o chunk]
  /\ todo' = chunk
  /\ UNCHANGED <<base, stream, msgs>>

\* shl_ring_push fails: owfd_rtsp_decoder_feed gives up before it starts.
FeedNoMem(chunk) ==
  /\ todo = <<>>
  /\ UNCHANGED vars

\* The reset that every failure ends in; the rest of the chunk is dropped.
Reset ==
  /\ dec' = owfd_rtsp_decoder_flush(dec)
  /\ base' = dec'
  /\ todo' = <<>>
  /\ stream' = <<>>
  /\ msgs' = <<>>

\* One round of the loop of owfd_rtsp_decoder_feed.
FeedChar ==
  /\ todo # <<>>
  /\ \E r \in {feed_char(dec, Head(todo))} :
         IF r.err
           THEN Reset
           ELSE /\ dec' = [r.dec EXCEPT !.last_chr = Head(todo)]
                /\ msgs' = msgs \o r.out
                /\ todo' = Tail(todo)
                /\ stream' = Append(stream, Head(todo))
                /\ UNCHANGED base

\* The allocation of a line, of a body or of the header array fails.
FeedCharNoMem ==
  /\ todo # <<>>
  /\ feed_char(dec, Head(todo)).alloc
  /\ Reset

\* owfd_rtsp_decoder_flush, called by the owner of the decoder.
Flush ==
  /\ todo = <<>>
  /\ Reset

\* What the bounds allow to be fed.
MayFeed(chunk) ==
  /\ Len(chunk) \in 1 .. MaxChunk
  /\ Len(stream) + Len(chunk) <= MaxStream
  /\ Len(base.header) <= MaxStale

Next ==
  \/ \E chunk \in BoundedSeq(Alphabet, MaxChunk) : 
       MayFeed(chunk) /\ (Feed(chunk) \/ FeedNoMem(chunk))
  \/ FeedChar
  \/ FeedCharNoMem
  \/ Flush

Spec == Init /\ [][Next]_vars

-----------------------------------------------------------------------------
\* Every field has its type.
TypeOK ==
  /\ DOMAIN dec = DOMAIN NewDecoder
  /\ dec.ring \in Seq(Char)
  /\ dec.rlen \in Nat
  /\ dec.state \in States
  /\ dec.last_chr \in Char \cup {None}
  /\ dec.remaining_body \in Nat
  /\ dec.quoted \in BOOLEAN
  /\ dec.header_size \in Nat
  /\ todo \in Seq(Char)
  /\ stream \in Seq(Char)

\* The ring holds the unfinished element followed by the unparsed rest of the
\* chunk, and rlen is the border: however a message was cut into chunks, the
\* bytes that will be copied out as a line or a body are the last rlen bytes
\* of the stream, none skipped and none taken twice.
Bookkeeping ==
  /\ TypeOK
  /\ todo # <<>> => dec.rlen + Len(todo) = Len(dec.ring)
  /\ LET n == Len(dec.ring) - Len(todo)
     IN  /\ n \in 0 .. Len(stream)
         /\ dec.ring = SubSeq(stream, Len(stream) - n + 1, Len(stream)) \o todo

\* What the states stand for, between two characters: in STATE_HEADER_NL the
\* ring holds of the empty line exactly the '\r' that feed_char_header_nl will
\* discard, in STATE_BODY there are bytes left to wait for, and in a header
\* there is a line to finish.
StateMeaning ==
  LET n == Len(dec.ring) - Len(todo)
  IN  CASE dec.state = "HEADER_NL" -> n = 1 /\ dec.ring[1] = CR
        [] dec.state = "BODY"      -> dec.remaining_body > 0
        [] dec.state = "NEW"       -> \A i \in 1 .. n : dec.ring[i] \in {CR, LF, SP}
        [] OTHER                   -> n > 0

\* The array of header lines always has a slot left for the terminating NULL,
\* also when lines of an aborted message are still in it.
HeaderFits == Len(dec.header) + 1 < dec.header_size

\* One round of the loop, without an end at an error: the decoder and what it
\* has delivered.
replay_char(x, ch) ==
  LET r == feed_char(x.dec, ch)
  IN  [dec |-> [r.dec EXCEPT !.last_chr = ch], out |-> x.out \o r.out]

\* The decoder d after the whole of s came in one chunk, and what it delivered.
Replay(d, s) ==
  LET after[i \in 0 .. Len(s)] ==
        IF i = 0
          THEN [dec |-> [d EXCEPT !.ring = s, !.rlen = 0], out |-> <<>>]
          ELSE replay_char(after[i - 1], s[i])
  IN  after[Len(s)]

\* What the decoder delivers, and the state it is left in, depends on the bytes
\* it was fed and not on how they were cut into chunks.
ChunkInvariance ==
  todo = <<>> =>
    LET whole == Replay(base, stream)
    IN  /\ msgs = whole.out
        /\ [dec EXCEPT !.rlen = 0] = [whole.dec EXCEPT !.rlen = 0]

=============================================================================

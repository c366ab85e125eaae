----------------------------- MODULE RtspStream -----------------------------
(***************************************************************************)
(* A peer that sends well-formed RTSP messages, TCP cutting the bytes into *)
(* chunks anywhere, and the decoder of src/rtsp_decoder.c at the other     *)
(* end.  The peer is external: what it may send is what the comments in    *)
(* feed_char_header and feed_char_header_nl and test/test_rtsp.c accept.   *)
(***************************************************************************)
EXTENDS RtspDecoder

CONSTANTS
  Lines,     \* header lines as they are sent, each with what is to be decoded
  Heads,     \* the sequences of lines that make up a header
  Bodies,    \* the bodies
  MaxSent    \* bound: messages sent in a row

VARIABLES
  sent,      \* the messages the peer sends
  wire       \* the bytes of them that were not yet received

svars == <<vars, sent, wire>>

Eols == {<<CR>>, <<LF>>, <<CR, LF>>}

\* The length that a header announces.
Announced(head) ==
  LET len == {i \in DOMAIN head : IsContentLength(head[i])}
  IN  IF len = {} THEN 0 ELSE ContentLength[head[CHOOSE i \in len : TRUE][1]]

\* A '\r' that ends something, followed by a '\n' that begins something, would
\* be read as one "\r\n".
Ambiguous(m) ==
  \/ m.eol = <<CR>> /\ m.blank = <<LF>>
  \/ m.blank = <<CR>> /\ m.body # <<>> /\ m.body[1] = LF

Messages ==
  {m \in [head : Heads, eol : Eols, blank : Eols, body : Bodies \cup {<<>>}] :
     Len(m.body) = Announced(m.head) /\ ~Ambiguous(m)}

Encode(m) ==
  FlattenSeq([i \in DOMAIN m.head |-> m.head[i] \o m.eol]) \o m.blank \o m.body

\* The message the receiver's callback is to see.
Meaning(m) ==
  [header |-> [i \in DOMAIN m.head |-> Lines[m.head[i]]], body |-> m.body]

EncodeAll(ms) == FlattenSeq([i \in DOMAIN ms |-> Encode(ms[i])])

\* The number of bytes after which message i of ms must have been delivered: a
\* message without body does not wait for the '\n' of its last "\r\n".
DueAt(ms, i) ==
  Len(EncodeAll(SubSeq(ms, 1, i)))
    - (IF ms[i].body = <<>> /\ ms[i].blank = <<CR, LF>> THEN 1 ELSE 0)

StreamInit ==
  /\ Init
  /\ sent \in BoundedSeq(Messages, MaxSent)
  /\ wire = EncodeAll(sent)

\* The next n bytes arrive.
Receive(n) ==
  /\ n \in 1 .. Len(wire)
  /\ Feed(SubSeq(wire, 1, n))
  /\ wire' = SubSeq(wire, n + 1, Len(wire))
  /\ UNCHANGED sent

Parse ==
  /\ FeedChar
  /\ UNCHANGED <<sent, wire>>

StreamNext == (\E n \in 1 .. MaxChunk : Receive(n)) \/ Parse

StreamSpec == StreamInit /\ [][StreamNext]_svars

-----------------------------------------------------------------------------
\* At every moment the callback has seen exactly the messages that are due, in
\* order and as they were meant, whatever line ends and whatever chunks: none
\* lost, none early, none late, no byte of one message in another.
Delivered ==
  LET due == {i \in DOMAIN sent : DueAt(sent, i) <= Len(stream)}
  IN  msgs = [i \in 1 .. Cardinality(due) |-> Meaning(sent[i])]

=============================================================================

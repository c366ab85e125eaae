------------------------------ MODULE RingFifo ------------------------------
(***************************************************************************)
(* What src/shl_ring.c promises: an unbounded FIFO of bytes.  The caller   *)
(* appends chunks, drops bytes at the front, empties the queue and takes   *)
(* copies of a prefix.  A push may fail for lack of memory, and then it    *)
(* changes nothing.  The calls are part of the state, so that a ring that  *)
(* answers one call with the effect of another is told apart.              *)
(***************************************************************************)
EXTENDS Naturals, Sequences

CONSTANTS
  Chunks,     \* the byte sequences a caller may push
  Lengths     \* the lengths a caller may ask shl_ring_pull/_copy for

VARIABLES
  queue,      \* the bytes pushed and not yet pulled
  copied,     \* the bytes handed out by the last copy
  call        \* the last call: its name and argument

vars == <<queue, copied, call>>

\* The queue without its first n bytes; asking for more than there is is safe.
Drop(q, n) == IF n >= Len(q) THEN <<>> ELSE SubSeq(q, n + 1, Len(q))

\* The first n bytes of the queue, or all of it.
Take(q, n) == IF n >= Len(q) THEN q ELSE SubSeq(q, 1, n)

Init ==
  /\ queue = <<>>
  /\ copied = <<>>
  /\ call = <<"none", 0>>

Push(data) ==
  /\ call' = <<"push", data>>
  /\ queue' = queue \o data
  /\ UNCHANGED copied

PushNoMem(data) ==
  /\ call' = <<"nomem", data>>
  /\ UNCHANGED <<queue, copied>>

Pull(n) ==
  /\ call' = <<"pull", n>>
  /\ queue' = Drop(queue, n)
  /\ UNCHANGED copied

Copy(n) ==
  /\ call' = <<"copy", n>>
  /\ copied' = Take(queue, n)
  /\ UNCHANGED queue

Empty ==
  /\ call' = <<"empty", 0>>
  /\ queue' = <<>>
  /\ UNCHANGED copied

Next ==
  \/ \E data \in Chunks : Push(data) \/ PushNoMem(data)
  \/ \E n \in Lengths : Pull(n) \/ Copy(n)
  \/ Empty

Spec == Init /\ [][Next]_vars

=============================================================================

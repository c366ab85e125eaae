------------------------------ MODULE RtspCtrl ------------------------------
(***************************************************************************)
(* The RTSP control channel of src/rtsp_ctrl.c: one TCP connection in an   *)
(* epoll set, a ring of bytes to send, and a callback that is told of the  *)
(* connection and of the data received.  While it runs the callback may    *)
(* itself send, close the channel and open it again, so a dispatch is a    *)
(* sequence of steps here, with the user's calls possible in each call of  *)
(* the callback as well as between two dispatches.                         *)
(*                                                                         *)
(* A descriptor is the number of its connection and a queued byte is the   *)
(* number of the connection it was queued for.  The ring is the queue that *)
(* ShlRing is shown to implement.                                          *)
(***************************************************************************)
EXTENDS Naturals, Sequences

CONSTANTS
  None,
  ROUNDS,       \* how often recv_all reads (128)
  MaxConn,      \* bound: connections opened in one run
  MaxQueue      \* bound: bytes in the ring

ASSUME CtrlAssumption ==
  /\ ROUNDS \in Nat \ {0} /\ MaxConn \in Nat /\ MaxQueue \in Nat
  /\ None \notin Nat

Conn == 1 .. MaxConn

VARIABLES
  fd,           \* the descriptor, None for -1
  connected,    \* the connected bit
  cb,           \* there is a callback
  out_ring,     \* the bytes to send
  epollout,     \* EPOLLOUT is among the descriptor's events
  opened,       \* number of connections so far
  pc,           \* where owfd_rtsp_ctrl_dispatch is, "idle" outside of it
  events,       \* what epoll_wait reported
  rounds,       \* of recv_all
  dispatched,   \* history: the connection that the events are of
  notified,     \* history: the connection last reported as connected
  flushed       \* history: the ring was written completely since fd was opened

channel == <<fd, connected, cb, out_ring, epollout, opened, flushed>>
vars == <<channel, pc, events, rounds, dispatched, notified>>

InCallback == {"cb_in", "cb_read", "cb_out"}

-----------------------------------------------------------------------------
is_open == fd # None

\* Mutant: the ring is left as it is.
Closed_KeepRing ==
  /\ fd' = None
  /\ connected' = FALSE /\ cb' = FALSE /\ epollout' = FALSE /\ flushed' = FALSE
  /\ UNCHANGED <<out_ring, opened>>

\* What owfd_rtsp_ctrl_close does to an open channel; closing the descriptor
\* takes it out of the epoll set.
Closed ==
  /\ fd' = None
  /\ connected' = FALSE
  /\ cb' = FALSE
  /\ out_ring' = <<>>
  /\ epollout' = FALSE
  /\ flushed' = FALSE
  /\ UNCHANGED opened

owfd_rtsp_ctrl_close ==
  /\ is_open
  /\ Closed

\* owfd_rtsp_ctrl_open_tcp_fd where all system calls succeed; where one fails
\* or the channel is open already nothing changes.
owfd_rtsp_ctrl_open_tcp_fd(withCb) ==
  /\ ~is_open
  /\ opened < MaxConn
  /\ opened' = opened + 1
  /\ fd' = opened + 1
  /\ epollout' = TRUE
  /\ connected' = FALSE
  /\ cb' = withCb
  /\ UNCHANGED <<out_ring, flushed>>

\* EPOLLOUT is asked for when the ring was empty.
owfd_rtsp_ctrl_send ==
  /\ is_open
  /\ Len(out_ring) < MaxQueue
  /\ out_ring' = Append(out_ring, fd)
  /\ epollout' = (epollout \/ out_ring = <<>>)
  /\ UNCHANGED <<fd, connected, cb, opened, flushed>>

\* The user's calls, from the main loop or from the callback.
UserCall ==
  /\ pc \in InCallback \cup {"idle"}
  /\ \/ owfd_rtsp_ctrl_close
     \/ \E withCb \in BOOLEAN : owfd_rtsp_ctrl_open_tcp_fd(withCb)
     \/ owfd_rtsp_ctrl_send
  /\ UNCHANGED <<pc, events, rounds, dispatched, notified>>

-----------------------------------------------------------------------------
\* dispatch_ctrl returned an error: owfd_rtsp_ctrl_dispatch closes the channel,
\* if it is still open.
Fail ==
  /\ pc' = "idle"
  /\ IF is_open THEN Closed ELSE UNCHANGED channel
  /\ UNCHANGED <<events, rounds, dispatched, notified>>

Goto(l) ==
  /\ pc' = l
  /\ UNCHANGED <<channel, events, rounds, dispatched, notified>>

epoll_wait(evs) ==
  /\ pc = "idle"
  /\ is_open
  /\ evs # {}
  /\ "OUT" \in evs => epollout
  /\ events' = evs
  /\ dispatched' = fd
  /\ rounds' = ROUNDS
  /\ pc' = "in"
  /\ UNCHANGED <<channel, notified>>

\* Mutant: the callback is told at every event.
connect_done_Always(back, next) ==
  /\ notified' = fd
  /\ connected' = TRUE
  /\ pc' = IF cb THEN back ELSE next
  /\ UNCHANGED <<fd, cb, out_ring, epollout, opened, flushed, events, rounds, dispatched>>

\* The first event of a connection: tell the callback, from which connect_done
\* goes on at label back; next is where it ends.
connect_done(back, next) ==
  /\ ~connected
  /\ connected' = TRUE
  /\ notified' = fd
  /\ pc' = IF cb THEN back ELSE next
  /\ UNCHANGED <<fd, cb, out_ring, epollout, opened, flushed, events, rounds, dispatched>>

\* EPOLLIN
dispatch_in ==
  /\ pc = "in"
  /\ \/ "IN" \notin events /\ Goto("out")
     \/ "IN" \in events /\ connected /\ Goto("read")
     \/ "IN" \in events /\ connect_done("cb_in", "read")

\* EPOLLOUT
dispatch_out ==
  /\ pc = "out"
  /\ \/ "OUT" \notin events /\ Goto("hup")
     \/ "OUT" \in events /\ connected /\ Goto("write")
     \/ "OUT" \in events /\ connect_done("cb_out", "write")

\* EPOLLHUP or EPOLLERR
dispatch_hup ==
  /\ pc = "hup"
  /\ \/ "HUP" \in events /\ Fail
     \/ "HUP" \notin events /\ Goto("idle")

\* The callback returns to connect_done; it "may have called *_close() and
\* *_open_*()".
connect_done_returns ==
  \/ pc = "cb_in" /\ IF connected THEN Goto("read") ELSE Fail
  \/ pc = "cb_out" /\ IF connected THEN Goto("write") ELSE Fail

\* One read of recv_all: an error, nothing (EAGAIN, EINTR or the end of the
\* stream) or data for the callback.
recv_all ==
  /\ pc = "read"
  /\ \/ Fail
     \/ Goto("out")
     \/ /\ rounds' = rounds - 1
        /\ pc' = IF cb THEN "cb_read" ELSE IF rounds > 1 THEN "read" ELSE "out"
        /\ UNCHANGED <<channel, events, dispatched, notified>>

\* Mutant: recv_all goes on reading whatever the callback did.
recv_all_returns_Open ==
  /\ pc = "cb_read"
  /\ IF rounds > 0 /\ is_open THEN Goto("read")
     ELSE IF connected THEN Goto("out") ELSE Fail

\* The callback returns to recv_all.
recv_all_returns ==
  /\ pc = "cb_read"
  /\ IF ~connected THEN Fail
     ELSE IF rounds > 0 THEN Goto("read") ELSE Goto("out")

\* Mutant: a write that sent only a part counts as done.
send_all_Partial ==
  /\ pc = "write"
  /\ epollout' = FALSE
  /\ pc' = "hup"
  /\ UNCHANGED <<fd, connected, cb, out_ring, opened, flushed, events, rounds, dispatched, notified>>

\* writev fails, takes a part or takes all; nothing is pulled from the ring.
send_all ==
  /\ pc = "write"
  /\ \/ Fail
     \/ out_ring # <<>> /\ Goto("hup")
     \/ /\ epollout' = FALSE
        /\ flushed' = (flushed \/ out_ring # <<>>)
        /\ pc' = "hup"
        /\ UNCHANGED <<fd, connected, cb, out_ring, opened, events, rounds, dispatched, notified>>

-----------------------------------------------------------------------------
\* owfd_rtsp_ctrl_new
Init ==
  /\ fd = None /\ connected = FALSE /\ cb = FALSE
  /\ out_ring = <<>> /\ epollout = FALSE /\ opened = 0
  /\ pc = "idle" /\ events = {} /\ rounds = 0
  /\ dispatched = None /\ notified = None /\ flushed = FALSE

Next ==
  \/ UserCall
  \/ \E evs \in SUBSET {"IN", "OUT", "HUP"} : epoll_wait(evs)
  \/ dispatch_in \/ dispatch_out \/ dispatch_hup
  \/ connect_done_returns \/ recv_all \/ recv_all_returns \/ send_all

Spec == Init /\ [][Next]_vars

-----------------------------------------------------------------------------
\* Every variable has its type; recv_all stays within its rounds.
TypeOK ==
  /\ fd \in Conn \cup {None}
  /\ connected \in BOOLEAN /\ cb \in BOOLEAN /\ epollout \in BOOLEAN
  /\ flushed \in BOOLEAN
  /\ out_ring \in Seq(Conn)
  /\ opened \in Nat /\ rounds \in 0 .. ROUNDS
  /\ pc \in InCallback \cup {"idle", "in", "read", "out", "write", "hup"}
  /\ events \subseteq {"IN", "OUT", "HUP"}
  /\ {dispatched, notified} \subseteq Conn \cup {None}

\* Whatever the callback closes and opens in the middle of a dispatch, no byte
\* that was queued for one connection is left in the ring for another one.
NoStaleBytes == \A i \in DOMAIN out_ring : out_ring[i] = fd

\* The dispatch uses the descriptor only while it is open: at every step of it
\* outside the callback, the channel is the connection that epoll_wait reported
\* on, even if the callback closed that one and opened another.
DispatchOnOwnConnection ==
  pc \notin InCallback \cup {"idle"} => fd = dispatched /\ fd # None

\* The callback is told of a connection once, and before any of its data.
CallbackOrder ==
  [][/\ pc' \in {"cb_in", "cb_out"} /\ pc # pc' => notified # fd
     /\ pc' = "cb_read" /\ pc # pc' => notified = fd /\ connected]_vars

\* Until the first complete write on a connection, bytes in the ring have
\* EPOLLOUT armed: neither a partial write nor a send from the callback in
\* between leaves them waiting for nothing.
QueuedIsArmed == out_ring # <<>> /\ ~flushed => epollout

\* "callback may have called *_close() and *_open_*()" (connect_done): what the
\* callback opened is still there when the dispatch ends.
ReopenSurvives ==
  [][pc' = "idle" /\ pc \in InCallback /\ fd \notin {None, dispatched} => fd' = fd]_vars

=============================================================================

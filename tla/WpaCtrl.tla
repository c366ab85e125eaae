------------------------------- MODULE WpaCtrl ------------------------------
(***************************************************************************)
(* The client of wpa_supplicant's control interface, src/wpa_ctrl.c: a     *)
(* request socket, an event socket that is attached to the supplicant, a   *)
(* timer that pings it, and requests that wait for their reply with a      *)
(* timeout.  The supplicant is external; it answers the requests of each   *)
(* socket in order, sends events while attached, and may hang or die.      *)
(*                                                                         *)
(* There is one thread: while it waits in a request only the supplicant    *)
(* and the clock move.  The event callback may issue requests and close    *)
(* and reopen the connection.  A request with timeout 0 (DETACH) takes no  *)
(* time and is part of the step that issues it.                            *)
(***************************************************************************)
EXTENDS Integers, Sequences, FiniteSets

CONSTANTS
  MAX,          \* the longest timeout ("use a maximum of 10s")
  PERIOD,       \* of the ping timer (10s)
  MaxQueue,     \* bound: messages waiting on one of our sockets
  MaxInbox      \* requests that fit the supplicant's socket

ASSUME WpaAssumption ==
  /\ MAX \in Nat /\ PERIOD \in Nat \ {0}
  /\ MaxQueue \in Nat \ {0} /\ MaxInbox \in Nat \ {0}

Socket == {"req", "ev"}

VARIABLES
  state,        \* "closed", "opening" (waiting for ATTACH) or "open"
  armed,        \* the ping timer runs
  left,         \* time until it expires next
  expired,      \* tfd is readable
  in_epoll,     \* tfd is in the epoll set
  pc,           \* where the thread is
  base,         \* where the user's call came from: "idle" or "callback"
  evs,          \* events of epoll_wait that are still to be handled
  cmd, fd,      \* the current request and its socket
  timeout,      \* *timeout of timed_send and timed_recv
  elapsed,      \* time since start was taken
  slept,        \* time spent in the current ppoll
  asked, total, \* history: the request's timeout and the time it has taken
  queue,        \* socket -> messages that wait on it
  inbox,        \* requests that wait at the supplicant
  attached,     \* the supplicant sends events
  alive,        \* the supplicant: "up", "hung" or "dead"
  gaveup,       \* history: sockets on which a request ended without its reply
  failed,       \* history: owfd_wpa_ctrl_dispatch returned an error
  got           \* history: what the last request returned

timer == <<armed, left, expired, in_epoll>>
request == <<cmd, fd, timeout, elapsed, slept, asked, total>>
supplicant == <<inbox, attached, alive>>
vars == <<state, timer, pc, base, evs, request, queue, supplicant, gaveup, failed, got>>

\* A reply is stale once the socket's next request has begun.
Reply(c, ok) == [kind |-> "reply", cmd |-> c, ok |-> ok, stale |-> FALSE]

Stale(m) == IF m.kind = "reply" THEN [m EXCEPT !.stale = TRUE] ELSE m

Event == [kind |-> "event", cmd |-> "none", ok |-> TRUE, stale |-> FALSE]

Nothing == [kind |-> "none", cmd |-> "none", ok |-> FALSE, stale |-> FALSE]

Waiting == pc \in {"send", "recv"}

-----------------------------------------------------------------------------
\* arm_timer and disarm_timer: timerfd_settime forgets an earlier expiry.
arm_timer ==
  /\ armed' = TRUE /\ left' = PERIOD /\ expired' = FALSE
  /\ UNCHANGED in_epoll

disarm_timer ==
  /\ armed' = FALSE /\ left' = PERIOD /\ expired' = FALSE
  /\ UNCHANGED in_epoll

\* Both sockets are closed; what was under way on them is lost.
close_sockets ==
  /\ state' = "closed"
  /\ queue' = [s \in Socket |-> <<>>]
  /\ inbox' = <<>>
  /\ attached' = FALSE
  /\ gaveup' = {}
  /\ UNCHANGED alive

\* wpa_request begins; replies to earlier requests of the socket become stale.
wpa_request(c, s, t) ==
  /\ cmd' = c /\ fd' = s
  /\ timeout' = t /\ asked' = t
  /\ elapsed' = 0 /\ slept' = 0 /\ total' = 0
  /\ queue' = [queue EXCEPT ![s] = [i \in DOMAIN queue[s] |-> Stale(queue[s][i])]]
  /\ inbox' = [i \in DOMAIN inbox |-> [inbox[i] EXCEPT !.stale = @ \/ inbox[i].fd = s]]
  /\ pc' = "send"
  /\ UNCHANGED <<attached, alive>>

-----------------------------------------------------------------------------
\* The user's calls.  owfd_wpa_ctrl_open gets as far as its ATTACH request.
owfd_wpa_ctrl_open ==
  /\ pc \in {"idle", "callback"}
  /\ state = "closed"
  /\ arm_timer
  /\ state' = "opening"
  /\ wpa_request("ATTACH", "ev", MAX)
  /\ base' = pc
  /\ failed' = FALSE
  /\ UNCHANGED <<evs, gaveup, got>>

owfd_wpa_ctrl_close ==
  /\ pc \in {"idle", "callback"}
  /\ state = "open"
  /\ close_sockets
  /\ disarm_timer
  /\ UNCHANGED <<pc, base, evs, request, failed, got>>

\* Any timeout; a negative one and one above the maximum mean the maximum.
owfd_wpa_ctrl_request(t) ==
  /\ pc \in {"idle", "callback"}
  /\ state = "open"
  /\ wpa_request("USER", "req", t)
  /\ base' = pc
  /\ UNCHANGED <<state, timer, evs, gaveup, failed, got>>

-----------------------------------------------------------------------------
\* The dispatch ends with an error.
DispatchFails ==
  /\ pc' = "idle"
  /\ evs' = <<>>
  /\ failed' = TRUE

\* The request ends with reply m, or with an error if m is Nothing: what the
\* caller then does.
open_returns(m) ==
  /\ cmd = "ATTACH"
  /\ pc' = base
  /\ IF m.kind = "reply" /\ m.ok
       THEN state' = "open" /\ UNCHANGED <<timer, attached>>
       ELSE state' = "closed" /\ attached' = FALSE /\ disarm_timer
  /\ UNCHANGED <<evs, failed>>

\* Mutant: the timer's descriptor stays in the epoll set and the error is lost.
read_tfd_returns_Ignore(m) ==
  /\ cmd = "PING"
  /\ pc' = "dispatch"
  /\ UNCHANGED <<state, armed, left, expired, in_epoll, evs, attached, failed>>

\* read_tfd and dispatch_tfd after the PING.
read_tfd_returns(m) ==
  /\ cmd = "PING"
  /\ IF m.kind = "reply" /\ m.cmd = "PING"
       THEN pc' = "dispatch" /\ UNCHANGED <<in_epoll, evs, failed>>
       ELSE in_epoll' = FALSE /\ DispatchFails
  /\ UNCHANGED <<state, armed, left, expired, attached>>

request_returns(m) ==
  /\ cmd = "USER"
  /\ pc' = base
  /\ UNCHANGED <<state, timer, evs, attached, failed>>

Return(m) ==
  /\ open_returns(m) \/ read_tfd_returns(m) \/ request_returns(m)
  /\ got' = m
  /\ cmd' = "none"
  /\ timeout' = 0 /\ elapsed' = 0 /\ slept' = 0 /\ asked' = 0 /\ total' = 0
  /\ UNCHANGED <<base, fd, alive>>

\* The request ends, with queue q left; if it was the ATTACH of an open that
\* fails, the sockets are closed.
Finish(m, q) ==
  /\ Return(m)
  /\ IF state' = "closed"
       THEN queue' = [s \in Socket |-> <<>>] /\ inbox' = <<>> /\ gaveup' = {}
       ELSE /\ queue' = q
            /\ gaveup' = IF m = Nothing THEN gaveup \cup {fd} ELSE gaveup
            /\ UNCHANGED inbox

\* Mutant: each round waits for the whole timeout again.
Remaining_Full(t, e) == t

\* "recalculate remaining timeout"; start is not taken again.
Remaining(t, e) == IF t - e <= 0 THEN 0 ELSE t - e

\* The loop goes round with what is left, or ends in -ETIMEDOUT.
Again(q) ==
  IF timeout - elapsed <= 0
    THEN Finish(Nothing, q)
    ELSE /\ timeout' = Remaining(timeout, elapsed)
         /\ slept' = 0
         /\ queue' = q
         /\ UNCHANGED <<state, timer, pc, base, evs, cmd, fd, elapsed, asked, total,
                        supplicant, gaveup, failed, got>>

\* timed_send: the supplicant's socket takes the request.
timed_send ==
  /\ pc = "send"
  /\ Len(inbox) < MaxInbox
  /\ inbox' = Append(inbox, [cmd |-> cmd, fd |-> fd, stale |-> FALSE])
  /\ timeout' = Remaining(timeout, elapsed)
  /\ elapsed' = 0 /\ slept' = 0
  /\ pc' = "recv"
  /\ UNCHANGED <<state, timer, base, evs, cmd, fd, asked, total, queue, attached,
                 alive, gaveup, failed, got>>

\* send fails with EAGAIN or EINTR although ppoll saw room.
timed_send_again ==
  /\ pc = "send"
  /\ Again(queue)

\* Mutant: an event counts as the reply.
timed_recv_Event ==
  /\ pc = "recv"
  /\ queue[fd] # <<>>
  /\ Finish(Head(queue[fd]), [queue EXCEPT ![fd] = Tail(@)])

\* timed_recv: a reply ends the request, an event is thrown away.
timed_recv ==
  /\ pc = "recv"
  /\ queue[fd] # <<>>
  /\ LET m == Head(queue[fd])
         rest == [queue EXCEPT ![fd] = Tail(@)]
     IN  IF m.kind = "reply" THEN Finish(m, rest) ELSE Again(rest)

\* ppoll reports nothing in time.
ppoll_timeout ==
  /\ Waiting
  /\ slept = timeout
  /\ IF pc = "send" THEN Len(inbox) >= MaxInbox ELSE queue[fd] = <<>>
  /\ Finish(Nothing, queue)

\* A signal that the mask lets through, or an error of the socket.
ppoll_error ==
  /\ Waiting
  /\ Finish(Nothing, queue)

-----------------------------------------------------------------------------
Ready(s) ==
  \/ s \in Socket /\ (queue[s] # <<>> \/ alive = "dead")
  \/ s = "tfd" /\ in_epoll /\ expired

\* epoll_wait reports up to two descriptors in any order; the socket of a dead
\* supplicant has EPOLLERR or EPOLLHUP.
owfd_wpa_ctrl_dispatch ==
  LET e(s) == [from |-> s, err |-> s \in Socket /\ alive = "dead"]
  IN  /\ pc = "idle"
      /\ state = "open"
      /\ \E s, t \in {"req", "ev", "tfd"} :
           /\ Ready(s) /\ Ready(t)
           /\ evs' = IF s = t THEN <<e(s)>> ELSE <<e(s), e(t)>>
      /\ pc' = "dispatch"
      /\ UNCHANGED <<state, timer, base, request, queue, supplicant, gaveup, failed, got>>

\* The handler of the first event is done: "handle HUP/ERR last so we drain
\* input first".
Handled ==
  IF Head(evs).err THEN DispatchFails
                   ELSE pc' = "dispatch" /\ evs' = Tail(evs) /\ UNCHANGED failed

Handling(s) == evs # <<>> /\ Head(evs).from = s

dispatch_done ==
  /\ pc = "dispatch"
  /\ evs = <<>>
  /\ pc' = "idle"
  /\ UNCHANGED <<state, timer, base, evs, request, queue, supplicant, gaveup, failed, got>>

\* read_req drains the request socket.
dispatch_req ==
  /\ pc = "dispatch"
  /\ Handling("req")
  /\ queue' = [queue EXCEPT !["req"] = <<>>]
  /\ Handled
  /\ UNCHANGED <<state, timer, base, request, supplicant, gaveup, got>>

\* Mutant: the PING goes out on the event socket.
dispatch_tfd_EventSocket ==
  /\ pc = "dispatch"
  /\ Handling("tfd") /\ expired
  /\ evs' = Tail(evs)
  /\ expired' = FALSE
  /\ wpa_request("PING", "ev", MAX)
  /\ UNCHANGED <<state, armed, left, in_epoll, base, gaveup, failed, got>>

\* read_tfd sends a PING if the timer has expired; if it was armed again
\* meanwhile, nothing is read.
dispatch_tfd ==
  /\ pc = "dispatch"
  /\ Handling("tfd")
  /\ evs' = Tail(evs)
  /\ IF expired
       THEN expired' = FALSE /\ wpa_request("PING", "req", MAX)
       ELSE UNCHANGED <<expired, pc, request, queue, supplicant>>
  /\ UNCHANGED <<state, armed, left, in_epoll, base, gaveup, failed, got>>

dispatch_ev ==
  /\ pc = "dispatch"
  /\ Handling("ev")
  /\ pc' = "read_ev"
  /\ UNCHANGED <<state, timer, base, evs, request, queue, supplicant, gaveup, failed, got>>

\* One message of the event socket: an event is for the callback.
read_ev ==
  /\ pc = "read_ev"
  /\ IF queue["ev"] = <<>>
       THEN Handled /\ UNCHANGED queue
       ELSE /\ pc' = IF Head(queue["ev"]).kind = "event" THEN "callback" ELSE "read_ev"
            /\ queue' = [queue EXCEPT !["ev"] = Tail(@)]
            /\ UNCHANGED <<evs, failed>>
  /\ UNCHANGED <<state, timer, base, request, supplicant, gaveup, got>>

\* "exit if the callback closed the connection"
callback_returns ==
  /\ pc = "callback"
  /\ IF state = "open" THEN pc' = "read_ev" /\ UNCHANGED <<evs, failed>>
                       ELSE DispatchFails
  /\ UNCHANGED <<state, timer, base, request, queue, supplicant, gaveup, got>>

-----------------------------------------------------------------------------
\* The supplicant answers the first request; ATTACH and DETACH do their work.
Answer(ok) ==
  /\ alive = "up" /\ inbox # <<>>
  /\ LET r == Head(inbox)
     IN  /\ Len(queue[r.fd]) < MaxQueue
         /\ queue' = [queue EXCEPT ![r.fd] =
                        Append(@, [Reply(r.cmd, ok) EXCEPT !.stale = r.stale])]
         /\ attached' = (attached \/ (r.cmd = "ATTACH" /\ ok))
  /\ inbox' = Tail(inbox)
  /\ UNCHANGED <<state, timer, pc, base, evs, request, alive, gaveup, failed, got>>

\* Events go to the attached socket; both timed_recv and read_req allow for
\* spurious ones on the request socket.
SendEvent(s) ==
  /\ alive = "up" /\ attached
  /\ Len(queue[s]) < MaxQueue
  /\ queue' = [queue EXCEPT ![s] = Append(@, Event)]
  /\ UNCHANGED <<state, timer, pc, base, evs, request, supplicant, gaveup, failed, got>>

\* It hangs, or it dies; p2pd never starts another one.
Stop ==
  /\ \/ alive = "up" /\ alive' = "hung"
     \/ alive # "dead" /\ alive' = "dead"
  /\ UNCHANGED <<state, timer, pc, base, evs, request, queue, inbox, attached, gaveup,
                 failed, got>>

\* Time passes where the thread waits; ppoll does not sleep past its timeout.
Tick ==
  /\ pc \in {"idle", "callback"} \/ (Waiting /\ slept < timeout)
  /\ left' = IF armed /\ left > 1 THEN left - 1 ELSE PERIOD
  /\ expired' = (expired \/ (armed /\ left = 1))
  /\ IF Waiting
       THEN elapsed' = elapsed + 1 /\ slept' = slept + 1 /\ total' = total + 1
       ELSE UNCHANGED <<elapsed, slept, total>>
  /\ UNCHANGED <<state, armed, in_epoll, pc, base, evs, cmd, fd, timeout, asked, queue,
                 supplicant, gaveup, failed, got>>

\* owfd_wpa_ctrl_new
Init ==
  /\ state = "closed"
  /\ armed = FALSE /\ left = PERIOD /\ expired = FALSE /\ in_epoll = TRUE
  /\ pc = "idle" /\ base = "idle" /\ evs = <<>>
  /\ cmd = "none" /\ fd = "req"
  /\ timeout = 0 /\ elapsed = 0 /\ slept = 0 /\ asked = 0 /\ total = 0
  /\ queue = [s \in Socket |-> <<>>]
  /\ inbox = <<>> /\ attached = FALSE /\ alive = "up"
  /\ gaveup = {} /\ failed = FALSE /\ got = Nothing

Wait == timed_send \/ timed_send_again \/ timed_recv \/ ppoll_timeout \/ ppoll_error

Dispatch ==
  \/ owfd_wpa_ctrl_dispatch \/ dispatch_done
  \/ dispatch_req \/ dispatch_tfd \/ dispatch_ev \/ read_ev

UserCall ==
  \/ owfd_wpa_ctrl_open \/ owfd_wpa_ctrl_close
  \/ \E t \in 0 .. MAX : owfd_wpa_ctrl_request(t)

Next ==
  \/ UserCall
  \/ Wait
  \/ Dispatch \/ callback_returns
  \/ (\E ok \in BOOLEAN : Answer(ok)) \/ (\E s \in Socket : SendEvent(s)) \/ Stop
  \/ Tick

Spec == Init /\ [][Next]_vars

\* The clock runs whatever the thread does, the thread does not stop inside the
\* library, the main loop dispatches again and again and the callback returns.
Fairness ==
  /\ SF_vars(Tick)
  /\ WF_vars(timed_send) /\ WF_vars(timed_recv) /\ WF_vars(ppoll_timeout)
  /\ SF_vars(Dispatch)
  /\ SF_vars(callback_returns)

FairSpec == Spec /\ Fairness

-----------------------------------------------------------------------------
Message == {Nothing, Event} \cup
  [kind : {"reply"}, cmd : {"ATTACH", "PING", "USER"}, ok : BOOLEAN, stale : BOOLEAN]

\* Every variable has its type, and a timeout is never negative or above the
\* maximum.
TypeOK ==
  /\ state \in {"closed", "opening", "open"}
  /\ {armed, expired, in_epoll, attached, failed} \subseteq BOOLEAN
  /\ left \in 1 .. PERIOD
  /\ pc \in {"idle", "send", "recv", "dispatch", "read_ev", "callback"}
  /\ base \in {"idle", "callback"}
  /\ evs \in Seq([from : {"req", "ev", "tfd"}, err : BOOLEAN])
  /\ {timeout, asked} \subseteq 0 .. MAX
  /\ {elapsed, slept, total} \subseteq Nat
  /\ \A s \in Socket : queue[s] \in Seq(Message)
  /\ gaveup \subseteq Socket
  /\ got \in Message

\* A request never takes longer than the caller allowed, however many events
\* and retries the loops of timed_send and timed_recv go through.
BoundedWait == TypeOK /\ (Waiting => total <= asked)

\* As long as every request of a connection got its reply, a request returns
\* its own reply: not an event, and not the answer to an earlier request.
OwnReply ==
  [][pc = "recv" /\ pc' # "recv" /\ got'.kind # "none" /\ fd \notin gaveup =>
       got'.kind = "reply" /\ got'.cmd = cmd /\ ~got'.stale]_vars

\* No event of an open connection is thrown away: only read_ev, which gives it
\* to the callback, takes events off the event socket until it is closed.
EventsKept ==
  [][state = "open" /\ state' = "open" =>
       LET Events(q) == Cardinality({i \in DOMAIN q : q[i].kind = "event"})
       IN  Events(queue'["ev"]) >= Events(queue["ev"]) \/ pc' = "callback"]_vars

\* "If the wpa_supplicant doesn't respond in a timely manner, return an error"
\* (read_tfd): if it stops, an open connection whose timer is watched sees an
\* error or is closed.
PingDetects ==
  (state = "open" /\ alive # "up" /\ in_epoll) ~> (failed \/ state # "open")

=============================================================================

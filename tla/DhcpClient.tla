----------------------------- MODULE DhcpClient -----------------------------
(***************************************************************************)
(* The DHCP client of src/gdhcp/client.c (type G_DHCP_IPV4) inside of the  *)
(* daemon of src/dhcp.c, which starts it, configures the leased address on *)
(* the interface and stops it at the end; and the same daemon when it is   *)
(* configured to run a server, of which it sees start and stop only.       *)
(*                                                                         *)
(* The handlers are operators on the client's record c.  One action is one *)
(* call by glib's main loop: of the timeout that is due, of the listener   *)
(* for a packet or an error, of the signalfd's watch.  Timers are punctual.*)
(***************************************************************************)
EXTENDS GlibTimeout

CONSTANTS
  Addr,                 \* the addresses that servers lease
  None,                 \* no address
  DISCOVER_TIMEOUT, DISCOVER_RETRIES,
  REQUEST_TIMEOUT, REQUEST_RETRIES,
  NAK_DELAY,            \* from a NAK to the new start (3)
  RENEW_MIN,            \* the lease time that is left, for which renewing is tried (60)
  REBIND_MIN,           \* and for which rebinding is (6)
  LEASE_LIMIT,          \* lease times are cut to 28 bits
  MIN_LEASE,            \* the shortest lease time (10)
  DEFAULT_LEASE,        \* the one of an ACK that has none (3600)
  LeaseTime,            \* the lease times that servers send
  MaxReplies            \* the packets that arrive in answer to one

ASSUME ClientAssumption ==
  /\ None \notin Addr
  /\ {DISCOVER_TIMEOUT, DISCOVER_RETRIES, REQUEST_TIMEOUT, REQUEST_RETRIES,
      NAK_DELAY, LEASE_LIMIT, MIN_LEASE, DEFAULT_LEASE} \subseteq Nat \ {0}
  /\ {RENEW_MIN, REBIND_MIN, MaxReplies} \subseteq Nat
  /\ LeaseTime \subseteq Nat
  /\ 2 <= REBIND_MIN /\ REBIND_MIN < MIN_LEASE /\ MIN_LEASE < LEASE_LIMIT
  /\ DEFAULT_LEASE < LEASE_LIMIT /\ MIN_LEASE <= DEFAULT_LEASE
  /\ REQUEST_TIMEOUT <= RENEW_MIN

VARIABLES
  client,       \* struct _GDHCPClient
  as_client,    \* dhcp->config.client
  loop,         \* the main loop: "setup", "init", "run", "quit" or "done"
  client_addr,  \* dhcp->client_addr
  server_addr,  \* dhcp->server_addr
  if_addr,      \* the address that the interface has
  up,           \* the interface is up
  replies,      \* the answers that may still arrive
  faulted,      \* history: the interface was down
  granted,      \* history: the lease time of the last ACK
  age,          \* history: the time since then
  flush_failed  \* history: the last flush did not remove the address

daemon == <<as_client, server_addr, flush_failed>>

vars == <<client, loop, client_addr, if_addr, up, replies, faulted, granted, age, daemon>>

Leased(c) == c.state \in {"BOUND", "RENEWING", "REBINDING"}

-----------------------------------------------------------------------------
\* The socket of the old mode is closed; a new one needs the interface.
switch_listening_mode(c, m) ==
  IF c.mode = m THEN c
  ELSE IF m = "L_NONE" \/ ~up THEN [c EXCEPT !.mode = "L_NONE", !.watch = FALSE]
  ELSE [c EXCEPT !.mode = m, !.watch = TRUE]

\* asked are the addresses requested under the present xid.
send_select(c) == [c EXCEPT !.sent = "SELECT", !.asked = @ \cup {c.requested_ip}]
send_renew(c) == [c EXCEPT !.sent = "RENEW"]
send_rebound(c) == [c EXCEPT !.sent = "REBIND"]

no_lease_cb(c) == [c EXCEPT !.cb = "no_lease"]

-----------------------------------------------------------------------------
Restarted(c) ==
  switch_listening_mode([c EXCEPT !.assigned_ip = None, !.state = "INIT_SELECTING"], "L2")

send_discover(c) ==
  g_timeout_add([c EXCEPT !.sent = "DISCOVER"], "discover_timeout", DISCOVER_TIMEOUT)

\* last_address is NULL: dhcp.c passes none.
g_dhcp_client_start(c) ==
  IF c.retry_times = DISCOVER_RETRIES THEN [no_lease_cb(c) EXCEPT !.retry_times = 0]
  ELSE IF c.retry_times # 0 THEN send_discover(c)
  ELSE IF Restarted(c).mode # "L2" THEN Restarted(c)
  ELSE send_discover([Restarted(c) EXCEPT !.asked = {}])

\* Mutant: the retries are not counted.
discover_timeout_NoCount(c) == g_dhcp_client_start(c)

discover_timeout(c) == g_dhcp_client_start([c EXCEPT !.retry_times = @ + 1])

start_request(c) ==
  IF c.retry_times = REQUEST_RETRIES THEN no_lease_cb(c)
  ELSE LET d == IF c.retry_times = 0
                  THEN switch_listening_mode([c EXCEPT !.state = "REQUESTING"], "L2")
                  ELSE c
       IN  g_timeout_add(send_select(d), "request_timeout", REQUEST_TIMEOUT)

request_timeout(c) == start_request([c EXCEPT !.retry_times = @ + 1])

restart_dhcp(c, n) ==
  g_dhcp_client_start(
    switch_listening_mode([g_source_remove(c) EXCEPT !.retry_times = n,
                             !.requested_ip = None, !.state = "INIT_SELECTING"], "L2"))

\* Mutant: the lease time is not halved with each attempt.
start_rebound_timeout_SameTime(c) ==
  LET d == switch_listening_mode(c, "L2")
  IN  IF d.lease_seconds <= REBIND_MIN
        THEN restart_dhcp(d, 0)
        ELSE g_timeout_add(send_rebound(d), "start_rebound_timeout", d.lease_seconds \div 2)

start_rebound_timeout(c) ==
  LET d == [switch_listening_mode(c, "L2") EXCEPT !.lease_seconds = @ \div 2]
  IN  IF d.lease_seconds <= REBIND_MIN
        THEN restart_dhcp(d, 0)
        ELSE g_timeout_add(send_rebound(d), "start_rebound_timeout", d.lease_seconds \div 2)

start_rebound(c) ==
  g_timeout_add([c EXCEPT !.state = "REBINDING"], "start_rebound_timeout", c.lease_seconds \div 2)

start_renew_request_timeout(c) == no_lease_cb(c)

\* Mutant: nobody listens for the answer.
start_renew_timeout_NotListening(c) ==
  LET d == [c EXCEPT !.state = "RENEWING", !.lease_seconds = @ \div 2]
  IN  IF d.lease_seconds <= RENEW_MIN
        THEN start_rebound(d)
        ELSE g_timeout_add(g_source_remove(send_renew(d)), "start_renew_request_timeout", REQUEST_TIMEOUT)

start_renew_timeout(c) ==
  LET d == switch_listening_mode([c EXCEPT !.state = "RENEWING", !.lease_seconds = @ \div 2], "L3")
  IN  IF d.lease_seconds <= RENEW_MIN
        THEN start_rebound(d)
        ELSE g_timeout_add(g_source_remove(send_renew(d)), "start_renew_request_timeout", REQUEST_TIMEOUT)

start_bound(c) ==
  g_timeout_add(g_source_remove([c EXCEPT !.state = "BOUND"]), "start_renew_timeout", c.lease_seconds \div 2)

restart_dhcp_timeout(c) ==
  LET d == [c EXCEPT !.ack_retry_times = @ + 1]
  IN  restart_dhcp(d, d.ack_retry_times)

\* The callback of a timeout.
Callback(fn, c) ==
  CASE fn = "discover_timeout"            -> discover_timeout(c)
    [] fn = "request_timeout"             -> request_timeout(c)
    [] fn = "start_rebound_timeout"       -> start_rebound_timeout(c)
    [] fn = "start_renew_request_timeout" -> start_renew_request_timeout(c)
    [] fn = "start_renew_timeout"         -> start_renew_timeout(c)
    [] fn = "restart_dhcp_timeout"        -> restart_dhcp_timeout(c)

-----------------------------------------------------------------------------
(* Packets: type, address and lease time, where None is none.              *)
get_lease(p) ==
  IF p.lease = None THEN DEFAULT_LEASE
  ELSE IF p.lease % LEASE_LIMIT < MIN_LEASE THEN MIN_LEASE ELSE p.lease % LEASE_LIMIT

\* Mutant: the timer of the discovery is not removed.
received_offer_KeepTimer(c, p) ==
  start_request([c EXCEPT !.retry_times = 0, !.requested_ip = p.yiaddr, !.state = "REQUESTING"])

received_offer(c, p) ==
  start_request([g_source_remove(c) EXCEPT !.retry_times = 0,
                   !.requested_ip = p.yiaddr, !.state = "REQUESTING"])

received_ack(c, p) ==
  start_bound([switch_listening_mode(g_source_remove(c), "L_NONE") EXCEPT
                 !.retry_times = 0, !.lease_seconds = get_lease(p),
                 !.assigned_ip = p.yiaddr, !.cb = "lease"])

received_nak(c) ==
  g_timeout_add(g_source_remove([c EXCEPT !.retry_times = 0]), "restart_dhcp_timeout", NAK_DELAY)

listener_event(c, p) ==
  CASE c.state = "INIT_SELECTING" /\ p.type = "OFFER" -> received_offer(c, p)
    [] c.state \in {"REQUESTING", "RENEWING", "REBINDING"} /\ p.type = "ACK" -> received_ack(c, p)
    [] c.state \in {"REQUESTING", "RENEWING", "REBINDING"} /\ p.type = "NAK" -> received_nak(c)
    [] OTHER -> c

g_dhcp_client_stop(c) ==
  [g_source_remove(switch_listening_mode(c, "L_NONE")) EXCEPT
     !.sent = IF Leased(c) THEN "RELEASE" ELSE "none",
     !.watch = FALSE, !.retry_times = 0, !.ack_retry_times = 0,
     !.requested_ip = None, !.state = "RELEASED", !.lease_seconds = 0]

-----------------------------------------------------------------------------
(* The daemon.                                                             *)

\* Mutant: an address that is set is taken for the one given.
client_lease_fn_AnySet(a) ==
  IF client_addr # None THEN UNCHANGED <<loop, client_addr, if_addr>>
  ELSE \/ loop' = "quit" /\ UNCHANGED <<client_addr, if_addr>>
       \/ client_addr' = a /\ if_addr' = a /\ UNCHANGED loop

\* flush_if_addr, then add_if_addr.  A program that reports an error may have done
\* its work all the same.
AddressSet(a) == if_addr' = a

AddressFailed(a) == if_addr' \in {if_addr, None, a}

\* There may be no memory to build the new address from.
client_lease_fn(a) ==
  \/ client_addr = a /\ UNCHANGED <<loop, client_addr, if_addr>>
  \/ client_addr # a /\ client_addr' = a /\ AddressSet(a) /\ UNCHANGED loop
  \/ client_addr # a /\ client_addr' = a /\ AddressFailed(a) /\ loop' = "quit"
  \/ loop' = "quit" /\ UNCHANGED <<client_addr, if_addr>>

client_no_lease_fn == loop' = "quit" /\ UNCHANGED <<client_addr, if_addr>>

\* The client becomes c, after what it sent and the daemon's callback; n answers
\* to what it sent before are still to come.
Becomes(c, n) ==
  /\ client' = c
  /\ replies' = IF c.sent = "none" THEN n ELSE MaxReplies
  /\ CASE c.cb = "lease"    -> client_lease_fn(c.assigned_ip)
       [] c.cb = "no_lease" -> client_no_lease_fn
       [] c.cb = "none"     -> UNCHANGED <<loop, client_addr, if_addr>>
  /\ granted' = IF c.cb = "lease" THEN c.lease_seconds ELSE IF Leased(c) THEN granted ELSE 0
  /\ age' = IF c.cb = "lease" \/ ~Leased(c) THEN 0 ELSE age

Quiet(c) == [c EXCEPT !.sent = "none", !.cb = "none"]

\* flush_if_addr at the end, whose result is ignored.
FlushAddress ==
  \/ if_addr' = None /\ flush_failed' = FALSE
  \/ UNCHANGED if_addr /\ flush_failed' = TRUE

\* The address of the server is not set; the server is not made or configured, for
\* which the interface must be up; or all is well.
owfd_dhcp_setup_server(a) ==
  /\ server_addr' = a
  /\ \/ AddressFailed(a) /\ loop' = "quit"
     \/ AddressSet(a) /\ loop' \in IF up THEN {"init", "quit"} ELSE {"quit"}

\* The interface, the signals and the client, or the memory for the address of the
\* server, are set up; each may fail, and what there is is torn down then.
owfd_dhcp_setup ==
  /\ loop = "setup"
  /\ \/ loop' = "quit" /\ UNCHANGED <<server_addr, if_addr>>
     \/ as_client /\ up /\ loop' = "init" /\ UNCHANGED <<server_addr, if_addr>>
     \/ ~as_client /\ \E a \in Addr : owfd_dhcp_setup_server(a)
  /\ UNCHANGED <<client, as_client, client_addr, up, replies, faulted, granted, age, flush_failed>>

\* A server starts, or not.
owfd_dhcp_run ==
  LET c == g_dhcp_client_start(client)
  IN  /\ loop = "init"
      /\ IF as_client
           THEN /\ client' = c
                /\ loop' = IF c.mode = "L2" THEN "run" ELSE "quit"
                /\ replies' = MaxReplies
           ELSE loop' \in {"run", "quit"} /\ UNCHANGED <<client, replies>>
      /\ UNCHANGED <<client_addr, if_addr, up, faulted, granted, age, daemon>>

\* What the loop still dispatches in the iteration in which it was told to quit
\* is allowed as well.
Running == loop \in {"run", "quit"}

TimerFires ==
  /\ Running
  /\ \E t \in Due(client) : Becomes(Callback(t.fn, Expired(Quiet(client), t)), replies)
  /\ UNCHANGED <<up, faulted, daemon>>

\* A packet whose xid and hardware address are the client's; the others do
\* nothing.  A server acknowledges only what was asked for under that xid.
Packet ==
  [type : {"OFFER"}, yiaddr : Addr, lease : {None}]
    \cup [type : {"ACK"}, yiaddr : client.asked, lease : LeaseTime \cup {None}]
    \cup [type : {"NAK"}, yiaddr : {None}, lease : {None}]

PacketArrives ==
  /\ Running
  /\ client.watch /\ client.mode \in {"L2", "L3"} /\ replies > 0
  /\ \E p \in Packet : Becomes(listener_event(Quiet(client), p), replies - 1)
  /\ UNCHANGED <<up, faulted, daemon>>

ListenerError ==
  /\ Running
  /\ client.watch /\ ~up
  /\ client' = [Quiet(client) EXCEPT !.watch = FALSE]
  /\ UNCHANGED <<loop, client_addr, if_addr, up, replies, faulted, granted, age, daemon>>

\* owfd_dhcp_sfd_fn
owfd_dhcp_sfd_fn ==
  /\ loop = "run"
  /\ loop' = "quit"
  /\ UNCHANGED <<client, client_addr, if_addr, up, replies, faulted, granted, age, daemon>>

\* Mutant: the address is removed only if there is a client.
owfd_dhcp_teardown_ClientOnly ==
  /\ loop = "quit"
  /\ loop' = "done"
  /\ client' = IF as_client THEN g_dhcp_client_stop(Quiet(client)) ELSE client
  /\ IF client_addr = None THEN UNCHANGED <<if_addr, flush_failed>> ELSE FlushAddress
  /\ client_addr' = None /\ server_addr' = None
  /\ granted' = 0 /\ age' = 0
  /\ UNCHANGED <<as_client, up, replies, faulted>>

owfd_dhcp_teardown ==
  /\ loop = "quit"
  /\ loop' = "done"
  /\ client' = IF as_client THEN g_dhcp_client_stop(Quiet(client)) ELSE client
  /\ IF client_addr = None /\ server_addr = None
       THEN UNCHANGED <<if_addr, flush_failed>>
       ELSE FlushAddress
  /\ client_addr' = None /\ server_addr' = None
  /\ granted' = 0 /\ age' = 0
  /\ UNCHANGED <<as_client, up, replies, faulted>>

IfaceDown ==
  /\ up
  /\ up' = FALSE /\ faulted' = TRUE
  /\ UNCHANGED <<client, loop, client_addr, if_addr, replies, granted, age, daemon>>

IfaceUp ==
  /\ ~up
  /\ up' = TRUE
  /\ UNCHANGED <<client, loop, client_addr, if_addr, replies, faulted, granted, age, daemon>>

\* Time passes when no timer is due.
Tick ==
  /\ loop = "run"
  /\ Due(client) = {}
  /\ client' = Aged(Quiet(client))
  /\ age' = IF Leased(client) THEN age + 1 ELSE 0
  /\ UNCHANGED <<loop, client_addr, if_addr, up, replies, faulted, granted, daemon>>

\* g_dhcp_client_new, main
Init ==
  /\ client = [state |-> "INIT_SELECTING", mode |-> "L_NONE", watch |-> FALSE,
               retry_times |-> 0, ack_retry_times |-> 0,
               requested_ip |-> None, assigned_ip |-> None, lease_seconds |-> 0,
               timer |-> NoTimer, leaked |-> {}, asked |-> {},
               sent |-> "none", cb |-> "none"]
  /\ loop = "setup" /\ as_client \in BOOLEAN
  /\ client_addr = None /\ server_addr = None /\ if_addr = None /\ flush_failed = FALSE
  /\ up \in BOOLEAN /\ faulted = ~up
  /\ replies = 0 /\ granted = 0 /\ age = 0

Handle == TimerFires \/ PacketArrives \/ ListenerError

Next ==
  \/ owfd_dhcp_setup \/ owfd_dhcp_run \/ Handle \/ owfd_dhcp_sfd_fn \/ owfd_dhcp_teardown
  \/ IfaceDown \/ IfaceUp \/ Tick

Spec == Init /\ [][Next]_vars

\* Time passes, and a timer that is due and a loop that was told to quit are
\* not held up; packets, errors and signals come or not.
Fairness ==
  /\ WF_vars(Tick) /\ WF_vars(TimerFires)
  /\ WF_vars(owfd_dhcp_setup) /\ WF_vars(owfd_dhcp_run)
  /\ WF_vars(owfd_dhcp_teardown)

FairSpec == Spec /\ Fairness
-----------------------------------------------------------------------------
States == {"INIT_SELECTING", "REQUESTING", "BOUND", "RENEWING", "REBINDING", "RELEASED"}

\* The timers that fit a state, and the modes in which its packets are heard.
Timers(s) ==
  CASE s = "INIT_SELECTING" -> {"discover_timeout"}
    [] s = "REQUESTING"     -> {"request_timeout", "restart_dhcp_timeout"}
    [] s = "BOUND"          -> {"start_renew_timeout"}
    [] s = "RENEWING"       -> {"start_renew_request_timeout", "restart_dhcp_timeout"}
    [] s = "REBINDING"      -> {"start_rebound_timeout", "restart_dhcp_timeout"}
    [] s = "RELEASED"       -> {}

Modes(s) ==
  CASE s \in {"INIT_SELECTING", "REQUESTING"} -> {"L2"}
    [] s = "RENEWING"                         -> {"L3"}
    [] s = "REBINDING"                        -> {"L2", "L3"}
    [] OTHER                                  -> {"L_NONE"}

\* Every variable has its type; retries stay within their limits.
TypeOK ==
  /\ client.state \in States
  /\ client.mode \in {"L_NONE", "L2", "L3"} /\ client.watch \in BOOLEAN
  /\ client.retry_times \in 0 .. DISCOVER_RETRIES + REQUEST_RETRIES
  /\ client.ack_retry_times \in 0 .. DISCOVER_RETRIES
  /\ client.requested_ip \in Addr \cup {None} /\ client.assigned_ip \in Addr \cup {None}
  /\ client.lease_seconds \in 0 .. LEASE_LIMIT
  /\ client.asked \subseteq Addr
  /\ loop \in {"setup", "init", "run", "quit", "done"}
  /\ {client_addr, server_addr, if_addr} \subseteq Addr \cup {None}
  /\ replies \in 0 .. MaxReplies

\* g_dhcp_client keeps one timeout: whatever packets interrupt it, no timer of a
\* state that was left is alive, and a running client always has one, so that it
\* never waits for ever (unless the interface failed).
TimerFitsState ==
  /\ TypeOK
  /\ client.leaked = {}
  /\ Live(client.timer) => client.timer.fn \in Timers(client.state)
  /\ loop = "run" /\ as_client /\ ~faulted => Live(client.timer)

\* switch_listening_mode: a client that waits for a server listens on the socket
\* on which that server's packets arrive (unless the interface failed).
Listens ==
  loop = "run" /\ as_client /\ ~faulted /\ client.state # "BOUND" =>
    client.watch /\ client.mode \in Modes(client.state)

\* start_bound, start_renew_timeout, start_rebound_timeout: halving the lease time
\* again and again, the client gives an address up before its lease has ended,
\* unless it waits to restart after a NAK.
LeaseNotOverrun ==
  loop = "run" /\ Leased(client) /\ client.timer.fn # "restart_dhcp_timeout" => age < granted

\* "Address should be set up here" (listener_event): as long as the lease is held
\* the interface has the address that was assigned by the last ACK.
ConfiguredIsAssigned ==
  loop = "run" /\ Leased(client) =>
    if_addr = client.assigned_ip /\ client_addr = if_addr

\* owfd_dhcp_teardown: wherever the setup, a lease or the loop failed, the daemon
\* leaves no address of its own on the interface, unless the flush itself fails.
LeavesNoAddress == loop = "done" /\ ~flush_failed => if_addr = None

\* Retries are bounded on every path: a client that runs gets a lease again and
\* again or the daemon ends.
Settles ==
  (loop = "run" /\ as_client) ~> (client.state = "BOUND" \/ loop # "run" \/ faulted)

=============================================================================

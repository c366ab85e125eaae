------------------------------- MODULE Ipv4ll -------------------------------
(***************************************************************************)
(* Link-local addresses: several hosts on a link, each with a client of    *)
(* src/gdhcp/client.c of type G_DHCP_IPV4LL that probes for an address,    *)
(* announces it and defends it with ARP packets.                           *)
(*                                                                         *)
(* The handlers are operators on a client's record c; r are the random     *)
(* values and the fate of the socket that a step needs.  External are the  *)
(* link, the hosts' kernels, which answer requests for an address that is  *)
(* configured, and the users, who configure an address when they are told  *)
(* that it is available.  A packet takes less time than the shortest timer.*)
(***************************************************************************)
EXTENDS GlibTimeout, FiniteSets

CONSTANTS
  Host, Addr,
  None,                 \* the address 0
  PROBE_WAIT,           \* the longest first delay
  PROBE_NUM, PROBE_MIN, PROBE_MAX,
  ANNOUNCE_WAIT, ANNOUNCE_NUM, ANNOUNCE_INTERVAL,
  MAX_CONFLICTS, DEFEND_INTERVAL,
  UINT8,                \* the values of a uint8_t
  MaxFaults             \* bound: packets lost, sockets not made or failing, links joined

ASSUME LinkAssumption ==
  /\ None \notin Addr
  /\ {PROBE_NUM, PROBE_MIN, PROBE_MAX, ANNOUNCE_WAIT, ANNOUNCE_NUM,
      ANNOUNCE_INTERVAL, MAX_CONFLICTS, DEFEND_INTERVAL, UINT8} \subseteq Nat \ {0}
  /\ PROBE_WAIT \in Nat /\ MaxFaults \in Nat /\ PROBE_MIN <= PROBE_MAX
  /\ MAX_CONFLICTS < UINT8

VARIABLES
  client,       \* struct _GDHCPClient of each host
  watch,        \* the hosts whose client has a source for its socket (listener_watch)
  inbox,        \* the packets under way to each host
  acted,        \* the hosts whose user has done something at this moment
  joined,       \* the hosts are on one link
  faults,       \* history: the number of faults
  apart,        \* history: the hosts were not on one link
  deaf          \* history: a client's socket could not be made, or has failed

vars == <<client, watch, inbox, acted, joined, faults, apart, deaf>>

Random ==
  [ip : Addr, wait : 0 .. PROBE_WAIT, interval : PROBE_MIN .. PROBE_MAX, sock : BOOLEAN]

Probe(ip) == [spa |-> None, tpa |-> ip]
Announce(ip) == [spa |-> ip, tpa |-> ip]
Silence == [spa |-> None, tpa |-> None]

\* The user has configured the address.
Configured(c) == c.state \in {"MONITOR", "DEFEND"}

\* The client was stopped, or has reported that it got no address.
Idle(c) == Sources(c) = {} /\ ~Configured(c)

-----------------------------------------------------------------------------
switch_listening_mode(c, m, sock) ==
  IF c.mode = m THEN c ELSE [c EXCEPT !.mode = IF sock THEN m ELSE "L_NONE"]

\* ipv4ll_random_ip, ipv4ll_random_delay_ms
send_probe_packet(c, r) ==
  LET ip == IF c.requested_ip = None THEN r.ip ELSE c.requested_ip
      d == IF c.retry_times = 1
             THEN switch_listening_mode([c EXCEPT !.state = "PROBE"], "L_ARP", r.sock)
             ELSE c
  IN  g_timeout_add([d EXCEPT !.requested_ip = ip, !.sent = Probe(ip)],
        "ipv4ll_probe_timeout",
        IF c.retry_times < PROBE_NUM THEN r.interval ELSE ANNOUNCE_WAIT)

send_announce_packet(c) ==
  LET d == g_source_remove([c EXCEPT !.sent = Announce(c.requested_ip)])
  IN  IF c.state = "DEFEND"
        THEN g_timeout_add(d, "ipv4ll_defend_timeout", DEFEND_INTERVAL)
        ELSE g_timeout_add(d, "ipv4ll_announce_timeout", ANNOUNCE_INTERVAL)

\* Starting with an address that depends on the hardware address.
ipv4ll_start(c, r) ==
  g_timeout_add(
    [switch_listening_mode(g_source_remove(c), "L_NONE", TRUE) EXCEPT
       !.state = "INIT_SELECTING", !.retry_times = 1, !.requested_ip = r.ip],
    "send_probe_packet", r.wait)

\* Mutant: the timeout is only forgotten.
ipv4ll_stop_KeepTimer(c) ==
  [switch_listening_mode(c, "L_NONE", TRUE) EXCEPT
     !.state = "PROBE", !.retry_times = 0, !.requested_ip = None]

ipv4ll_stop(c) ==
  [switch_listening_mode(c, "L_NONE", TRUE) EXCEPT
     !.timer = IF Live(@) THEN Stale ELSE @,
     !.state = "PROBE", !.retry_times = 0, !.requested_ip = None]

ipv4ll_defend_timeout(c) == [c EXCEPT !.conflicts = 0, !.state = "MONITOR"]

ipv4ll_announce_timeout(c) ==
  IF c.retry_times # ANNOUNCE_NUM
    THEN send_announce_packet([c EXCEPT !.retry_times = @ + 1])
    ELSE [c EXCEPT !.state = "MONITOR", !.conflicts = 0]

ipv4ll_probe_timeout(c, r) ==
  IF c.retry_times = PROBE_NUM
    THEN send_announce_packet([c EXCEPT !.state = "ANNOUNCE", !.retry_times = 1])
    ELSE send_probe_packet([c EXCEPT !.retry_times = @ + 1], r)

\* Mutant: conflicts are not limited.
GiveUp_NoLimit(c, r) ==
  g_timeout_add([ipv4ll_stop(c) EXCEPT !.retry_times = @ + 1], "send_probe_packet", r.wait)

\* Another address is tried, unless there were too many conflicts: the user
\* is told then (no_lease_cb), and the client is idle.
GiveUp(c, r) ==
  LET d == ipv4ll_stop(c)
  IN  IF d.conflicts < MAX_CONFLICTS
        THEN g_timeout_add([d EXCEPT !.retry_times = @ + 1], "send_probe_packet", r.wait)
        ELSE d

\* Mutant: only an address that is used is given up.
ipv4ll_recv_arp_packet_DefendOnly(c, p, r) ==
  IF p.spa # c.requested_ip \/ ~Configured(c) THEN c
  ELSE IF c.state = "MONITOR" THEN send_announce_packet([c EXCEPT !.state = "DEFEND"])
  ELSE GiveUp([c EXCEPT !.conflicts = (@ + 1) % UINT8], r)

\* Mutant: a probe for the address that is used counts as a conflict.
ipv4ll_recv_arp_packet_AnyConflict(c, p, r) ==
  IF c.requested_ip \notin {p.spa, p.tpa} THEN c
  ELSE IF c.state = "MONITOR" THEN send_announce_packet([c EXCEPT !.state = "DEFEND"])
  ELSE GiveUp([c EXCEPT !.conflicts = (@ + 1) % UINT8], r)

\* Mutant: an address that is used is defended again and again.
ipv4ll_recv_arp_packet_AlwaysDefend(c, p, r) ==
  IF c.requested_ip \notin {p.spa, p.tpa} \/ (Configured(c) /\ p.spa # c.requested_ip) THEN c
  ELSE IF Configured(c) THEN send_announce_packet([c EXCEPT !.state = "DEFEND"])
  ELSE GiveUp([c EXCEPT !.conflicts = (@ + 1) % UINT8], r)

\* conflicts is a uint8_t.
ipv4ll_recv_arp_packet(c, p, r) ==
  LET source == p.spa = c.requested_ip
      target == p.tpa = c.requested_ip
      d == [c EXCEPT !.conflicts = (@ + 1) % UINT8]
  IN  IF ~source /\ ~target THEN c
      ELSE IF Configured(c) /\ ~source THEN d
      ELSE IF c.state = "MONITOR" THEN send_announce_packet([d EXCEPT !.state = "DEFEND"])
      ELSE GiveUp(d, r)

g_dhcp_client_stop(c) ==
  [g_source_remove(switch_listening_mode(c, "L_NONE", TRUE)) EXCEPT
     !.retry_times = 0, !.requested_ip = None, !.state = "RELEASED"]

Callback(fn, c, r) ==
  CASE fn = "send_probe_packet"       -> send_probe_packet(c, r)
    [] fn = "ipv4ll_probe_timeout"    -> ipv4ll_probe_timeout(c, r)
    [] fn = "ipv4ll_announce_timeout" -> ipv4ll_announce_timeout(c)
    [] fn = "ipv4ll_defend_timeout"   -> ipv4ll_defend_timeout(c)

-----------------------------------------------------------------------------
(* The link.                                                               *)

Quiet(c) == [c EXCEPT !.sent = Silence]

\* The packet p of host h goes to the hosts hs; mail are the packets under way.
Sends(mail, h, p, hs) ==
  IF p = Silence \/ ~joined THEN mail
  ELSE [g \in Host |-> IF g \in hs \ {h} THEN mail[g] \cup {[from |-> h, arp |-> p]} ELSE mail[g]]

\* The kernel of h answers a request m for its address (but not one that claims
\* to come from that address).
KernelAnswers(mail, h, m) ==
  IF Configured(client[h]) /\ m.arp.tpa = client[h].requested_ip /\ m.arp.spa # m.arp.tpa
    THEN Sends(mail, h, [spa |-> m.arp.tpa, tpa |-> m.arp.spa], {m.from})
    ELSE mail

\* The first probe was sent, and nobody listens for the answer.
SocketFails(c) ==
  c.state = "PROBE" /\ c.retry_times = 1 /\ c.sent # Silence /\ c.mode = "L_NONE"

\* The socket comes and goes with the listening mode; nothing is done about it
\* when the mode stays.
Watching(h, c) ==
  IF c.mode = client[h].mode THEN watch
  ELSE IF c.mode = "L_ARP" THEN watch \cup {h} ELSE watch \ {h}

\* Host h's client becomes c.
Becomes(h, c, mail) ==
  /\ client' = [client EXCEPT ![h] = Quiet(c)]
  /\ watch' = Watching(h, c)
  /\ inbox' = Sends(mail, h, c.sent, Host)
  /\ SocketFails(c) => faults < MaxFaults
  /\ faults' = IF SocketFails(c) THEN faults + 1 ELSE faults
  /\ deaf' = (deaf \/ SocketFails(c))
  /\ UNCHANGED <<joined, apart>>

\* Users act, once at a moment, and links join between two exchanges of packets.
Calm == \A h \in Host : inbox[h] = {}

UserActs(h) == Calm /\ h \notin acted /\ acted' = acted \cup {h}

g_dhcp_client_start(h) ==
  /\ UserActs(h) /\ Idle(client[h])
  /\ \E r \in Random : Becomes(h, ipv4ll_start(client[h], r), inbox)

Stop(h) ==
  /\ UserActs(h) /\ ~Idle(client[h])
  /\ Becomes(h, g_dhcp_client_stop(client[h]), inbox)

TimerFires(h) ==
  /\ \E t \in Due(client[h]), r \in Random :
        Becomes(h, Callback(t.fn, Expired(client[h], t), r), inbox)
  /\ UNCHANGED acted

Without(h, m) == [inbox EXCEPT ![h] = @ \ {m}]

Hears(h) == client[h].mode = "L_ARP" /\ h \in watch

\* A packet arrives at h, whose client reads it if it listens.
Deliver(h) ==
  /\ \E m \in inbox[h], r \in Random :
        Becomes(h,
          IF Hears(h) THEN ipv4ll_recv_arp_packet(client[h], m.arp, r) ELSE client[h],
          KernelAnswers(Without(h, m), h, m))
  /\ UNCHANGED acted

\* listener_event: the socket fails and its source is gone.  The mode stays, so
\* that the client is deaf until it is stopped or gives its address up.
ListenerError(h) ==
  /\ h \in watch /\ faults < MaxFaults
  /\ watch' = watch \ {h}
  /\ faults' = faults + 1 /\ deaf' = TRUE
  /\ UNCHANGED <<client, inbox, acted, joined, apart>>

Lose(h) ==
  /\ faults < MaxFaults
  /\ \E m \in inbox[h] : inbox' = Without(h, m)
  /\ faults' = faults + 1
  /\ UNCHANGED <<client, watch, acted, joined, apart, deaf>>

\* Host h, which uses its address, asks for another one.
Traffic(h) ==
  /\ UserActs(h) /\ Configured(client[h])
  /\ \E a \in Addr \ {client[h].requested_ip} :
        inbox' = Sends(inbox, h, [spa |-> client[h].requested_ip, tpa |-> a], Host)
  /\ UNCHANGED <<client, watch, joined, faults, apart, deaf>>

Join ==
  /\ Calm /\ ~joined
  /\ joined' = TRUE
  /\ UNCHANGED <<client, watch, inbox, acted, faults, apart, deaf>>

\* Time passes when no packet is under way and no timer is due.
Tick ==
  /\ Calm /\ \A h \in Host : Due(client[h]) = {}
  /\ client' = [h \in Host |-> Aged(client[h])]
  /\ acted' = {}
  /\ UNCHANGED <<watch, inbox, joined, faults, apart, deaf>>

\* g_dhcp_client_new
Init ==
  /\ client = [h \in Host |->
       [state |-> "RELEASED", mode |-> "L_NONE", retry_times |-> 0, conflicts |-> 0,
        requested_ip |-> None, timer |-> NoTimer, leaked |-> {},
        sent |-> Silence]]
  /\ watch = {} /\ inbox = [h \in Host |-> {}] /\ acted = {}
  /\ joined \in BOOLEAN /\ apart = ~joined
  /\ faults = (IF joined THEN 0 ELSE 1) /\ faults <= MaxFaults /\ deaf = FALSE

Next ==
  \/ \E h \in Host : \/ g_dhcp_client_start(h) \/ Stop(h) \/ TimerFires(h)
                     \/ Deliver(h) \/ ListenerError(h) \/ Lose(h) \/ Traffic(h)
  \/ Join \/ Tick

Spec == Init /\ [][Next]_vars

\* Time passes, packets arrive, timers fire, and hosts use the addresses they have.
Fairness ==
  /\ WF_vars(Tick)
  /\ \A h \in Host : WF_vars(TimerFires(h)) /\ WF_vars(Deliver(h)) /\ WF_vars(Traffic(h))

FairSpec == Spec /\ Fairness
-----------------------------------------------------------------------------
\* One link all along, and every client that probes or has an address listens.
Reliable == ~apart /\ ~deaf

Duplicate(g, h) ==
  /\ g # h /\ Configured(client[g]) /\ Configured(client[h])
  /\ client[g].requested_ip = client[h].requested_ip

\* send_probe_packet, ipv4ll_recv_arp_packet: hosts on one link never come to use
\* the same address, whoever starts when and although MaxFaults packets are lost;
\* as long as no ARP socket was missing or has failed (listener_event), which the
\* code does not notice: such a client goes on to take an address unheard.
Unique == Reliable => \A g, h \in Host : ~Duplicate(g, h)

\* ipv4ll_recv_arp_packet: the probes and announcements of newcomers never cost
\* a host on the same link the address that it uses, as long as all of them hear
\* (no ARP socket was missing or has failed).
Incumbent ==
  [][\A h \in Host : Reliable /\ Configured(client[h]) =>
        Configured(client'[h]) \/ client'[h].state = "RELEASED"]_vars

\* g_dhcp_client keeps one timeout: no source of a state that was left is alive,
\* and a client that waits for one to go on has it.
OneTimer ==
  \A h \in Host :
    /\ client[h].leaked = {}
    /\ client[h].state \in {"INIT_SELECTING", "ANNOUNCE", "DEFEND"} => Live(client[h].timer)
    /\ client[h].state \in {"MONITOR", "RELEASED"} => ~Live(client[h].timer)

\* "restart whole state machine" (ipv4ll_recv_arp_packet): conflicts do not keep
\* a client busy for ever; it gets an address or reports failure.
ProbingEnds == \A h \in Host : []<>(Configured(client[h]) \/ Idle(client[h]))

\* "Try to defend with a single announce": when hosts that hear each other use the
\* same address, as after two links became one, one of them finds out and gives it
\* up, unless its socket fails before.
Resolves ==
  LET Contested == \E g, h \in Host : Duplicate(g, h) /\ Hears(g) /\ Hears(h)
  IN  joined /\ Contested ~> ~Contested

=============================================================================

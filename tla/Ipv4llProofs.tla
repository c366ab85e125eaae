---------------------------- MODULE Ipv4llProofs ----------------------------
(***************************************************************************)
(* Proofs about Ipv4ll, for any number of hosts and addresses.             *)
(*                                                                         *)
(* That hosts never come to use the same address is a matter of counting.  *)
(* Of two hosts that probe for the same one, each probe that reaches the   *)
(* other, or the answer to it, makes one of them give the address up.  So  *)
(* as long as both keep it, one of them has lost all the probes it has     *)
(* sent, but for the one that is still under way (ContestInv); and a host  *)
(* goes on only when no probe of its own is under way (WaitInv).  With     *)
(* fewer faults than probes no two hosts are done with probing for the     *)
(* same address.                                                           *)
(***************************************************************************)
EXTENDS Ipv4ll, TLAPS

State == {"RELEASED", "INIT_SELECTING", "PROBE", "ANNOUNCE", "MONITOR", "DEFEND"}

Fn == {"none", "stale", "send_probe_packet", "ipv4ll_probe_timeout",
       "ipv4ll_announce_timeout", "ipv4ll_defend_timeout"}

Timer == [fn : Fn, left : Nat]

Arp == [spa : Addr \cup {None}, tpa : Addr \cup {None}]

\* struct _GDHCPClient
Client ==
  [state : State, mode : {"L_NONE", "L_ARP"}, retry_times : Nat, conflicts : Nat,
   requested_ip : Addr \cup {None}, timer : Timer, leaked : SUBSET Timer, sent : Arp]

Field == {"state", "mode", "retry_times", "conflicts", "requested_ip", "timer", "leaked", "sent"}

\* The fields that two records share, but for those of F.
Same(c, d, F) == \A f \in Field \ F : d[f] = c[f]

\* The client has sent a probe for its address at least, and has not given it up.
Listening(c) == c.requested_ip # None /\ c.state \in {"PROBE", "ANNOUNCE", "MONITOR", "DEFEND"}

\* It waits after a probe.
Waits(c) == c.state = "PROBE" /\ c.timer.left > 0

\* It has sent all of its probes and has waited for the answers.
Done(c) == Listening(c) /\ (c.state = "PROBE" => c.retry_times = PROBE_NUM /\ c.timer.left = 0)

\* The probes it has sent.
Probes(c) == IF c.state = "PROBE" THEN c.retry_times ELSE PROBE_NUM

\* The timer that each state has, with the retries and the address.
Fits(c) ==
  /\ c.state = "RELEASED" => ~Live(c.timer) /\ c.requested_ip = None
  /\ c.state = "INIT_SELECTING" =>
       c.timer.fn = "send_probe_packet" /\ c.requested_ip # None /\ c.retry_times = 1
  /\ c.state = "PROBE" /\ c.requested_ip = None =>
       ~Live(c.timer) \/ (c.timer.fn = "send_probe_packet" /\ c.retry_times = 1)
  /\ c.state = "PROBE" /\ c.requested_ip # None =>
       /\ c.timer.fn = "ipv4ll_probe_timeout"
       /\ c.retry_times >= 1 /\ c.retry_times <= PROBE_NUM
  /\ c.state = "ANNOUNCE" => c.timer.fn = "ipv4ll_announce_timeout" /\ c.requested_ip # None
  /\ c.state = "MONITOR" => ~Live(c.timer) /\ c.requested_ip # None
  /\ c.state = "DEFEND" => c.timer.fn = "ipv4ll_defend_timeout" /\ c.requested_ip # None

\* What is true of each client's record, whatever the link does.
Good(c) ==
  /\ c \in Client
  /\ c.leaked = {}
  /\ Fits(c)
  /\ ~Listening(c) => c.mode = "L_NONE"

-----------------------------------------------------------------------------
(* The inductive invariant.                                                *)

\* g's answer to a probe for ip.
Answer(ip) == [spa |-> ip, tpa |-> None]

\* A probe of h for ip that goes to g, or g's answer to it, is in mail.
Under(mail, h, ip, g) ==
  \/ [from |-> h, arp |-> Probe(ip)] \in mail[g]
  \/ [from |-> g, arp |-> Answer(ip)] \in mail[h]

\* Of h's present address.
Pending(h, g) == Under(inbox, h, client[h].requested_ip, g)

\* As many packets were lost as h has sent probes, but for the one that is pending.
Missed(h, g) ==
  \/ Probes(client[h]) <= faults
  \/ Pending(h, g) /\ Probes(client[h]) <= faults + 1

\* Both have sent probes for the same address.
Rivals(g, h) ==
  /\ g # h /\ Listening(client[g]) /\ Listening(client[h])
  /\ client[g].requested_ip = client[h].requested_ip

\* Packets under way, of which none comes from the host that it goes to.
Mail ==
  {mail \in [Host -> SUBSET [from : Host, arp : Arp]] :
     \A h \in Host : \A m \in mail[h] : m.from # h}

\* The variables have their types, and the faults are counted.
LinkInv ==
  /\ client \in [Host -> Client] /\ inbox \in Mail
  /\ faults \in Nat /\ faults <= MaxFaults
  /\ apart \/ joined

\* Every client's record is good; what it had to send is sent.
HostInv == \A h \in Host : Good(client[h]) /\ client[h].sent = Silence

\* As long as every socket was made and works, who has sent a probe hears.
SocketInv == ~deaf => \A h \in Host : Listening(client[h]) => Hears(h)

\* A host waits while its probe or the answer to it is under way.
WaitInv ==
  \A g, h \in Host : Listening(client[h]) /\ Pending(h, g) => Waits(client[h])

\* A packet that claims an address reaches nobody who is done with probing for it.
ClaimInv ==
  Reliable =>
    \A g, h \in Host : \A m \in inbox[g] :
      m.arp.spa # None /\ m.from # h /\ m.arp.spa = client[h].requested_ip => ~Done(client[h])

\* Of two hosts with the same address, one has lost all of its probes so far.
ContestInv ==
  Reliable => \A g, h \in Host : Rivals(g, h) => Missed(g, h) \/ Missed(h, g)

IInv == LinkInv /\ HostInv /\ SocketInv /\ WaitInv /\ ClaimInv /\ ContestInv

-----------------------------------------------------------------------------
(* What the handlers make of a record.                                     *)

\* The assumptions on the constants, one by one.
LEMMA Constant ==
  /\ None \notin Addr /\ MaxFaults \in Nat /\ PROBE_WAIT \in Nat
  /\ {PROBE_NUM, PROBE_MIN, PROBE_MAX, ANNOUNCE_WAIT, ANNOUNCE_NUM,
      ANNOUNCE_INTERVAL, MAX_CONFLICTS, DEFEND_INTERVAL, UINT8} \subseteq Nat
  /\ PROBE_NUM > 0 /\ PROBE_MIN > 0 /\ ANNOUNCE_WAIT > 0 /\ UINT8 > 0
BY LinkAssumption

\* The random values.
LEMMA RandomRange ==
  ASSUME NEW r \in Random
  PROVE  /\ r.ip \in Addr /\ r.ip # None /\ r.wait \in Nat
         /\ r.interval \in Nat /\ r.interval > 0 /\ r.sock \in BOOLEAN
<1>1. r.ip \in Addr /\ r.wait \in 0 .. PROBE_WAIT /\ r.interval \in PROBE_MIN .. PROBE_MAX /\ r.sock \in BOOLEAN
  BY DEF Random
<1>2. QED
  BY <1>1, Constant

\* switch_listening_mode changes the mode only.
LEMMA SwitchEffect ==
  ASSUME NEW c \in Client, NEW m \in {"L_NONE", "L_ARP"}, NEW sock \in BOOLEAN
  PROVE  LET d == switch_listening_mode(c, m, sock)
         IN  /\ d \in Client /\ Same(c, d, {"mode"})
             /\ m = "L_NONE" => d.mode = "L_NONE"
<1>1. CASE c.mode = m
  BY <1>1 DEF switch_listening_mode, Same
<1>2. CASE c.mode # m
  <2> DEFINE x == IF sock THEN m ELSE "L_NONE"
             e == [c EXCEPT !.mode = x]
  <2>1. x \in {"L_NONE", "L_ARP"} /\ (m = "L_NONE" => x = "L_NONE")
    OBVIOUS
  <2>2. switch_listening_mode(c, m, sock) = e
    BY <1>2 DEF switch_listening_mode
  <2> HIDE DEF x
  <2>3. e \in Client /\ e.mode = x /\ Same(c, e, {"mode"})
    BY <2>1 DEF Client, Same, Field
  <2>4. QED
    BY <2>1, <2>2, <2>3
<1>3. QED
  BY <1>1, <1>2

\* g_timeout_add, if no timer runs that would be lost.
LEMMA TimerAdded ==
  ASSUME NEW c \in Client, ~Live(c.timer), NEW fn \in Fn, NEW t \in Nat
  PROVE  LET d == g_timeout_add(c, fn, t)
         IN  /\ d \in Client /\ Same(c, d, {"timer"})
             /\ d.timer = [fn |-> fn, left |-> t]
<1> DEFINE x == [fn |-> fn, left |-> t]
           e == [c EXCEPT !.leaked = c.leaked, !.timer = x]
<1>1. g_timeout_add(c, fn, t) = e
  BY DEF g_timeout_add
<1>2. x \in Timer
  BY DEF Timer
<1> HIDE DEF x
<1>3. e \in Client /\ e.timer = x /\ Same(c, e, {"timer"})
  BY <1>2 DEF Client, Same, Field
<1>4. QED
  BY <1>1, <1>3 DEF x

\* g_source_remove.
LEMMA TimerRemoved ==
  ASSUME NEW c \in Client
  PROVE  LET d == g_source_remove(c)
         IN  d \in Client /\ Same(c, d, {"timer"}) /\ ~Live(d.timer)
<1> DEFINE e == [c EXCEPT !.timer = NoTimer]
<1>1. NoTimer \in Timer /\ ~Live(NoTimer)
  BY DEF NoTimer, Timer, Fn, Live
<1>2. e \in Client /\ e.timer = NoTimer /\ Same(c, e, {"timer"})
  BY <1>1 DEF Client, Same, Field
<1>3. QED
  BY <1>1, <1>2 DEF g_source_remove

\* send_probe_packet, for the address that is tried or a random one.
LEMMA SendProbeEffect ==
  ASSUME NEW c \in Client, ~Live(c.timer), NEW r \in Random,
         c.retry_times # 1 => c.state = "PROBE"
  PROVE  LET d == send_probe_packet(c, r)
         IN  /\ d \in Client /\ d.state = "PROBE" /\ d.leaked = c.leaked
             /\ d.requested_ip = (IF c.requested_ip = None THEN r.ip ELSE c.requested_ip)
             /\ d.sent = Probe(d.requested_ip)
             /\ d.retry_times = c.retry_times /\ d.timer.fn = "ipv4ll_probe_timeout"
             /\ d.timer.left \in Nat /\ d.timer.left > 0
             /\ c.retry_times # 1 => d.mode = c.mode
<1> DEFINE ip == IF c.requested_ip = None THEN r.ip ELSE c.requested_ip
           b == [c EXCEPT !.state = "PROBE"]
           s == IF c.retry_times = 1 THEN switch_listening_mode(b, "L_ARP", r.sock) ELSE c
           p == Probe(ip)
           e == [s EXCEPT !.requested_ip = ip, !.sent = p]
           t == IF c.retry_times < PROBE_NUM THEN r.interval ELSE ANNOUNCE_WAIT
           d == send_probe_packet(c, r)
<1>1. d = g_timeout_add(e, "ipv4ll_probe_timeout", t)
  BY DEF send_probe_packet
<1> HIDE DEF d
<1>2. ip \in Addr \cup {None} /\ p \in Arp
  BY RandomRange DEF Client, Probe, Arp
<1>3. b \in Client /\ b.state = "PROBE" /\ Same(c, b, {"state"})
  BY DEF Client, State, Same, Field
<1> HIDE DEF b, ip, p
<1>4. /\ s \in Client /\ s.state = "PROBE" /\ Same(c, s, {"state", "mode"})
      /\ c.retry_times # 1 => s.mode = c.mode
  <2>1. CASE c.retry_times = 1
    <3>1. s \in Client /\ Same(b, s, {"mode"})
      BY <1>3, <2>1, SwitchEffect, RandomRange
    <3> HIDE DEF s
    <3>2. QED
      BY <1>3, <2>1, <3>1 DEF Same, Field
  <2>2. CASE c.retry_times # 1
    BY <2>2 DEF Same
  <2>3. QED
    BY <2>1, <2>2
<1> HIDE DEF s
<1>5. e \in Client /\ e.requested_ip = ip /\ e.sent = p /\ Same(s, e, {"requested_ip", "sent"})
  BY <1>2, <1>4 DEF Client, Same, Field
<1> HIDE DEF e
<1>6. t \in Nat /\ t > 0 /\ "ipv4ll_probe_timeout" \in Fn
  BY RandomRange, Constant DEF Fn
<1> HIDE DEF t
<1>7. ~Live(e.timer)
  BY <1>4, <1>5 DEF Same, Field
<1>8. d \in Client /\ Same(e, d, {"timer"}) /\ d.timer = [fn |-> "ipv4ll_probe_timeout", left |-> t]
  BY <1>1, <1>5, <1>6, <1>7, TimerAdded
<1>9. /\ d.state = "PROBE" /\ d.leaked = c.leaked /\ d.requested_ip = ip /\ d.sent = p
      /\ d.retry_times = c.retry_times /\ d.mode = s.mode
  BY <1>4, <1>5, <1>8 DEF Same, Field
<1>10. d.timer.fn = "ipv4ll_probe_timeout" /\ d.timer.left = t
  BY <1>8
<1>11. QED
  BY <1>4, <1>6, <1>8, <1>9, <1>10 DEF d, ip, p

\* send_announce_packet, of a client that announces or defends its address.
LEMMA SendAnnounceEffect ==
  ASSUME NEW c \in Client
  PROVE  LET d == send_announce_packet(c)
         IN  /\ d \in Client /\ Same(c, d, {"sent", "timer"}) /\ d.sent = Announce(c.requested_ip)
             /\ d.timer.fn = IF c.state = "DEFEND" THEN "ipv4ll_defend_timeout"
                                                   ELSE "ipv4ll_announce_timeout"
<1> DEFINE p == Announce(c.requested_ip)
           b == [c EXCEPT !.sent = p]
           e == g_source_remove(b)
           fn == IF c.state = "DEFEND" THEN "ipv4ll_defend_timeout" ELSE "ipv4ll_announce_timeout"
           t == IF c.state = "DEFEND" THEN DEFEND_INTERVAL ELSE ANNOUNCE_INTERVAL
           d == send_announce_packet(c)
<1>1. d = g_timeout_add(e, fn, t)
  BY DEF send_announce_packet
<1> HIDE DEF d
<1>2. p \in Arp /\ t \in Nat /\ fn \in Fn
  BY Constant DEF Announce, Arp, Client, Fn
<1> HIDE DEF p, t, fn
<1>3. b \in Client /\ b.sent = p /\ Same(c, b, {"sent"})
  BY <1>2 DEF Client, Same, Field
<1> HIDE DEF b
<1>4. e \in Client /\ Same(b, e, {"timer"}) /\ ~Live(e.timer)
  BY <1>3, TimerRemoved
<1> HIDE DEF e
<1>5. d \in Client /\ Same(e, d, {"timer"}) /\ d.timer = [fn |-> fn, left |-> t]
  BY <1>1, <1>2, <1>4, TimerAdded
<1>6. Same(c, d, {"sent", "timer"}) /\ d.sent = p /\ d.timer.fn = fn
  BY <1>3, <1>4, <1>5 DEF Same, Field
<1>7. QED
  BY <1>5, <1>6 DEF d, p, fn

\* ipv4ll_stop: no address, and no timer.
LEMMA ResetEffect ==
  ASSUME NEW c \in Client
  PROVE  LET d == ipv4ll_stop(c)
         IN  /\ d \in Client /\ d.state = "PROBE" /\ d.mode = "L_NONE" /\ d.retry_times = 0
             /\ d.requested_ip = None /\ d.leaked = c.leaked /\ ~Live(d.timer) /\ d.sent = c.sent
<1> DEFINE s == switch_listening_mode(c, "L_NONE", TRUE)
           t == IF Live(s.timer) THEN Stale ELSE s.timer
           d == [s EXCEPT !.timer = t, !.state = "PROBE", !.retry_times = 0, !.requested_ip = None]
<1>1. ipv4ll_stop(c) = d
  BY DEF ipv4ll_stop
<1>2. s \in Client /\ Same(c, s, {"mode"}) /\ s.mode = "L_NONE"
  BY SwitchEffect
<1> HIDE DEF s
<1>3. t \in Timer /\ ~Live(t)
  <2>1. Stale \in Timer /\ ~Live(Stale) /\ s.timer \in Timer
    BY <1>2 DEF Stale, Timer, Fn, Live, Client
  <2>2. QED
    BY <2>1
<1> HIDE DEF t
<1>4. /\ d \in Client /\ d.state = "PROBE" /\ d.retry_times = 0 /\ d.requested_ip = None /\ d.timer = t
      /\ Same(s, d, {"timer", "state", "retry_times", "requested_ip"})
  BY <1>2, <1>3 DEF Client, State, Same, Field
<1> HIDE DEF d
<1>5. d.mode = "L_NONE" /\ d.leaked = c.leaked /\ d.sent = c.sent
  BY <1>2, <1>4 DEF Same, Field
<1>6. QED
  BY <1>1, <1>3, <1>4, <1>5

\* A client without an address has nothing to say.
Yields(d) == Good(d) /\ ~Listening(d) /\ d.sent = Silence

\* GiveUp: the client has no address, until it tries another one.
LEMMA GiveUpEffect ==
  ASSUME NEW c \in Client, c.leaked = {}, c.sent = Silence, NEW r \in Random
  PROVE  Yields(GiveUp(c, r))
<1> DEFINE e == ipv4ll_stop(c)
           f == [e EXCEPT !.retry_times = e.retry_times + 1]
           g == g_timeout_add(f, "send_probe_packet", r.wait)
<1>1. GiveUp(c, r) = IF e.conflicts < MAX_CONFLICTS THEN g ELSE e
  BY DEF GiveUp
<1>2. /\ e \in Client /\ e.state = "PROBE" /\ e.mode = "L_NONE" /\ e.retry_times = 0
      /\ e.requested_ip = None /\ e.leaked = {} /\ ~Live(e.timer) /\ e.sent = Silence
  BY ResetEffect
<1> HIDE DEF e
<1>3. Yields(e)
  BY <1>2 DEF Yields, Good, Fits, Listening
<1>4. f \in Client /\ f.retry_times = 1 /\ Same(e, f, {"retry_times"})
  BY <1>2 DEF Client, Same, Field
<1> HIDE DEF f
<1>5. r.wait \in Nat /\ "send_probe_packet" \in Fn /\ ~Live(f.timer)
  BY <1>2, <1>4, RandomRange DEF Fn, Same, Field
<1>6. g \in Client /\ Same(f, g, {"timer"}) /\ g.timer.fn = "send_probe_packet"
  <2>1. g \in Client /\ Same(f, g, {"timer"}) /\ g.timer = [fn |-> "send_probe_packet", left |-> r.wait]
    BY <1>4, <1>5, TimerAdded
  <2> HIDE DEF g
  <2>2. QED
    BY <2>1
<1> HIDE DEF g
<1>7. /\ g.state = "PROBE" /\ g.mode = "L_NONE" /\ g.retry_times = 1
      /\ g.requested_ip = None /\ g.leaked = {} /\ g.sent = Silence
  BY <1>2, <1>4, <1>6 DEF Same, Field
<1>8. Yields(g)
  BY <1>6, <1>7 DEF Yields, Good, Fits, Listening
<1>9. QED
  BY <1>1, <1>3, <1>8

\* ipv4ll_start.
LEMMA StartEffect ==
  ASSUME NEW c, Good(c), c.sent = Silence, NEW r \in Random
  PROVE  Yields(ipv4ll_start(c, r))
<1> DEFINE q == g_source_remove(c)
           s == switch_listening_mode(q, "L_NONE", TRUE)
           e == [s EXCEPT !.state = "INIT_SELECTING", !.retry_times = 1, !.requested_ip = r.ip]
           d == g_timeout_add(e, "send_probe_packet", r.wait)
<1>0. /\ c \in Client /\ c.leaked = {} /\ r.wait \in Nat /\ r.ip \in Addr /\ r.ip # None
      /\ "send_probe_packet" \in Fn
  BY RandomRange DEF Good, Fn
<1>1. ipv4ll_start(c, r) = d
  BY DEF ipv4ll_start
<1>2. q \in Client /\ Same(c, q, {"timer"}) /\ ~Live(q.timer)
  BY <1>0, TimerRemoved
<1> HIDE DEF q
<1>3. s \in Client /\ Same(q, s, {"mode"}) /\ s.mode = "L_NONE"
  BY <1>2, SwitchEffect
<1> HIDE DEF s
<1>4. /\ e \in Client /\ e.state = "INIT_SELECTING" /\ e.retry_times = 1 /\ e.requested_ip = r.ip
      /\ Same(s, e, {"state", "retry_times", "requested_ip"})
  BY <1>0, <1>3 DEF Client, State, Same, Field
<1> HIDE DEF e
<1>5. ~Live(e.timer)
  BY <1>2, <1>3, <1>4 DEF Same, Field
<1>6. d \in Client /\ Same(e, d, {"timer"}) /\ d.timer.fn = "send_probe_packet"
  <2>1. d \in Client /\ Same(e, d, {"timer"}) /\ d.timer = [fn |-> "send_probe_packet", left |-> r.wait]
    BY <1>0, <1>4, <1>5, TimerAdded
  <2> HIDE DEF d
  <2>2. QED
    BY <2>1
<1> HIDE DEF d
<1>7. /\ d.state = "INIT_SELECTING" /\ d.mode = "L_NONE" /\ d.retry_times = 1
      /\ d.requested_ip = r.ip /\ d.leaked = {} /\ d.sent = Silence
  BY <1>0, <1>2, <1>3, <1>4, <1>6 DEF Same, Field
<1>8. Yields(d)
  BY <1>0, <1>6, <1>7 DEF Yields, Good, Fits, Listening
<1>9. QED
  BY <1>1, <1>8

\* g_dhcp_client_stop.
LEMMA StopEffect ==
  ASSUME NEW c, Good(c), c.sent = Silence
  PROVE  Yields(g_dhcp_client_stop(c)) /\ g_dhcp_client_stop(c).state = "RELEASED"
<1> DEFINE s == switch_listening_mode(c, "L_NONE", TRUE)
           q == g_source_remove(s)
           d == [q EXCEPT !.retry_times = 0, !.requested_ip = None, !.state = "RELEASED"]
<1>0. c \in Client /\ c.leaked = {}
  BY DEF Good
<1>1. g_dhcp_client_stop(c) = d
  BY DEF g_dhcp_client_stop
<1>2. s \in Client /\ Same(c, s, {"mode"}) /\ s.mode = "L_NONE"
  BY <1>0, SwitchEffect
<1> HIDE DEF s
<1>3. q \in Client /\ Same(s, q, {"timer"}) /\ ~Live(q.timer)
  BY <1>2, TimerRemoved
<1> HIDE DEF q
<1>4. /\ d \in Client /\ d.state = "RELEASED" /\ d.retry_times = 0 /\ d.requested_ip = None
      /\ Same(q, d, {"state", "retry_times", "requested_ip"})
  BY <1>3 DEF Client, State, Same, Field
<1> HIDE DEF d
<1>5. ~Live(d.timer) /\ d.mode = "L_NONE" /\ d.leaked = {} /\ d.sent = Silence
  BY <1>0, <1>2, <1>3, <1>4 DEF Same, Field
<1>6. Yields(d)
  BY <1>4, <1>5 DEF Yields, Good, Fits, Listening
<1>7. QED
  BY <1>1, <1>4, <1>6

\* The first probe for an address is sent, or the next one.
ProbeSent(c, d) ==
  /\ Good(d) /\ d.state = "PROBE" /\ d.requested_ip # None /\ d.timer.left > 0
  /\ d.sent = Probe(d.requested_ip)
  /\ \/ ~Listening(c) /\ d.retry_times = 1
     \/ /\ Listening(c) /\ c.state = "PROBE" /\ c.timer.left = 0
        /\ d.requested_ip = c.requested_ip /\ d.mode = c.mode
        /\ d.retry_times = c.retry_times + 1 /\ c.retry_times >= 1

\* A client that is done with probing goes on with its address.
Proceeds(c, d) ==
  /\ Good(d) /\ Done(c) /\ Listening(d) /\ d.state # "PROBE"
  /\ d.requested_ip = c.requested_ip /\ d.mode = c.mode
  /\ d.sent \in {Silence, Announce(c.requested_ip)}
  /\ Configured(c) => Configured(d)

\* Nothing changes but the number of conflicts.
Stays(c, d) == Good(d) /\ d.sent = Silence /\ Same(c, d, {"conflicts"})

\* The timer that is due is the one that the client knows of.
LEMMA DueEffect ==
  ASSUME NEW c, Good(c), NEW t \in Due(c)
  PROVE  LET e == Expired(c, t)
         IN  /\ t = c.timer /\ Live(t) /\ t.left = 0
             /\ e \in Client /\ Same(c, e, {"timer"}) /\ ~Live(e.timer)
<1>1. t = c.timer /\ Live(t) /\ t.left = 0
  BY DEF Due, Sources, Good
<1> DEFINE e == [c EXCEPT !.timer = Stale]
<1>2. Expired(c, t) = e
  BY <1>1 DEF Expired
<1>3. Stale \in Timer /\ ~Live(Stale)
  BY DEF Stale, Timer, Fn, Live
<1>4. e \in Client /\ e.timer = Stale /\ Same(c, e, {"timer"})
  BY <1>3 DEF Good, Client, Same, Field
<1>5. QED
  BY <1>1, <1>2, <1>3, <1>4

\* Every timer's callback.
LEMMA CallbackEffect ==
  ASSUME NEW c, Good(c), c.sent = Silence, NEW t \in Due(c), NEW r \in Random
  PROVE  LET d == Callback(t.fn, Expired(c, t), r)
         IN  ProbeSent(c, d) \/ Proceeds(c, d)
<1> DEFINE e == Expired(c, t)
           d == Callback(t.fn, e, r)
<1>1. /\ t = c.timer /\ Live(t) /\ t.left = 0
      /\ e \in Client /\ Same(c, e, {"timer"}) /\ ~Live(e.timer)
  BY DueEffect
<1> HIDE DEF e
<1>2. /\ e.state = c.state /\ e.mode = c.mode /\ e.retry_times = c.retry_times
      /\ e.requested_ip = c.requested_ip /\ e.leaked = {} /\ e.sent = Silence
      /\ c \in Client /\ c.retry_times \in Nat /\ c.state \in State /\ c.timer.left = 0
      /\ c.requested_ip \in Addr \cup {None}
  BY <1>1 DEF Same, Field, Good, Client
<1>3. Fits(c) /\ PROBE_NUM \in Nat /\ PROBE_NUM > 0
  BY Constant DEF Good
<1>4. CASE t.fn = "send_probe_packet"
  <2>1. d = send_probe_packet(e, r)
    BY <1>4 DEF Callback
  <2>2. c.retry_times = 1 /\ ~Listening(c)
    BY <1>1, <1>2, <1>3, <1>4 DEF Fits, Listening, Live, State
  <2> HIDE DEF d
  <2>3. /\ d \in Client /\ d.state = "PROBE" /\ d.leaked = {}
        /\ d.requested_ip = (IF c.requested_ip = None THEN r.ip ELSE c.requested_ip)
        /\ d.sent = Probe(d.requested_ip)
        /\ d.retry_times = 1 /\ d.timer.fn = "ipv4ll_probe_timeout" /\ d.timer.left > 0
    BY <1>1, <1>2, <2>1, <2>2, SendProbeEffect
  <2>4. d.requested_ip # None
    BY <2>3, RandomRange
  <2>5. Good(d)
    BY <1>3, <2>3, <2>4 DEF Good, Fits, Listening
  <2>6. QED
    BY <2>2, <2>3, <2>4, <2>5 DEF ProbeSent, d, e
<1>5. CASE t.fn = "ipv4ll_probe_timeout" /\ c.retry_times # PROBE_NUM
  <2> DEFINE f == [e EXCEPT !.retry_times = e.retry_times + 1]
  <2>1. d = send_probe_packet(f, r)
    BY <1>2, <1>5 DEF Callback, ipv4ll_probe_timeout
  <2>2. /\ c.state = "PROBE" /\ c.requested_ip # None /\ c.retry_times >= 1 /\ c.retry_times <= PROBE_NUM
    BY <1>1, <1>2, <1>3, <1>5 DEF Fits, Live, State
  <2>3. f \in Client /\ f.retry_times = c.retry_times + 1 /\ Same(e, f, {"retry_times"})
    BY <1>1, <1>2 DEF Client, Same, Field
  <2> HIDE DEF d, f
  <2>4. /\ ~Live(f.timer) /\ f.state = "PROBE" /\ f.requested_ip = c.requested_ip
        /\ f.leaked = {} /\ f.mode = c.mode /\ f.retry_times # 1
    BY <1>1, <1>2, <2>2, <2>3 DEF Same, Field
  <2>5. /\ d \in Client /\ d.state = "PROBE" /\ d.leaked = {}
        /\ d.requested_ip = c.requested_ip
        /\ d.sent = Probe(d.requested_ip) /\ d.mode = c.mode
        /\ d.retry_times = c.retry_times + 1 /\ d.timer.fn = "ipv4ll_probe_timeout" /\ d.timer.left > 0
    BY <2>1, <2>2, <2>3, <2>4, SendProbeEffect
  <2>6. Good(d)
    BY <1>2, <1>3, <1>5, <2>2, <2>5 DEF Good, Fits, Listening
  <2>7. QED
    BY <1>2, <2>2, <2>5, <2>6 DEF ProbeSent, Listening, d, e
<1>6. CASE t.fn = "ipv4ll_probe_timeout" /\ c.retry_times = PROBE_NUM
  <2> DEFINE f == [e EXCEPT !.state = "ANNOUNCE", !.retry_times = 1]
  <2>1. d = send_announce_packet(f)
    BY <1>2, <1>6 DEF Callback, ipv4ll_probe_timeout
  <2>2. c.state = "PROBE" /\ c.requested_ip # None
    BY <1>1, <1>2, <1>3, <1>6 DEF Fits, Live, State
  <2>3. f \in Client /\ f.state = "ANNOUNCE" /\ Same(e, f, {"state", "retry_times"})
    BY <1>1, <1>2 DEF Client, State, Same, Field
  <2> HIDE DEF d, f
  <2>4. f.requested_ip = c.requested_ip /\ f.leaked = {} /\ f.mode = c.mode
    BY <1>2, <2>3 DEF Same, Field
  <2>5. /\ d \in Client /\ d.state = "ANNOUNCE" /\ d.leaked = {} /\ d.requested_ip = c.requested_ip
        /\ d.mode = c.mode /\ d.sent = Announce(c.requested_ip)
        /\ d.timer.fn = "ipv4ll_announce_timeout"
    BY <2>1, <2>3, <2>4, SendAnnounceEffect DEF Same, Field
  <2>6. Good(d) /\ Listening(d)
    BY <2>2, <2>5 DEF Good, Fits, Listening
  <2>7. Done(c) /\ ~Configured(c)
    BY <1>2, <1>6, <2>2 DEF Done, Listening, Configured
  <2>8. QED
    BY <2>5, <2>6, <2>7 DEF Proceeds, d, e
<1>7. CASE t.fn = "ipv4ll_announce_timeout" /\ c.retry_times # ANNOUNCE_NUM
  <2> DEFINE f == [e EXCEPT !.retry_times = e.retry_times + 1]
  <2>1. d = send_announce_packet(f)
    BY <1>2, <1>7 DEF Callback, ipv4ll_announce_timeout
  <2>2. c.state = "ANNOUNCE" /\ c.requested_ip # None
    BY <1>1, <1>2, <1>3, <1>7 DEF Fits, Live, State
  <2>3. f \in Client /\ Same(e, f, {"retry_times"})
    BY <1>1, <1>2 DEF Client, Same, Field
  <2> HIDE DEF d, f
  <2>4. f.requested_ip = c.requested_ip /\ f.leaked = {} /\ f.mode = c.mode /\ f.state = "ANNOUNCE"
    BY <1>2, <2>2, <2>3 DEF Same, Field
  <2>5. /\ d \in Client /\ d.state = "ANNOUNCE" /\ d.leaked = {} /\ d.requested_ip = c.requested_ip
        /\ d.mode = c.mode /\ d.sent = Announce(c.requested_ip)
        /\ d.timer.fn = "ipv4ll_announce_timeout"
    BY <2>1, <2>3, <2>4, SendAnnounceEffect DEF Same, Field
  <2>6. Good(d) /\ Listening(d)
    BY <2>2, <2>5 DEF Good, Fits, Listening
  <2>7. Done(c) /\ ~Configured(c)
    BY <2>2 DEF Done, Listening, Configured
  <2>8. QED
    BY <2>5, <2>6, <2>7 DEF Proceeds, d, e
<1>8. CASE \/ t.fn = "ipv4ll_announce_timeout" /\ c.retry_times = ANNOUNCE_NUM
           \/ t.fn = "ipv4ll_defend_timeout"
  <2> DEFINE f == [e EXCEPT !.state = "MONITOR", !.conflicts = 0]
  <2>1. d = f
    <3>1. [e EXCEPT !.conflicts = 0, !.state = "MONITOR"] = f
      BY <1>1 DEF Client
    <3>2. QED
      BY <1>2, <1>8, <3>1 DEF Callback, ipv4ll_announce_timeout, ipv4ll_defend_timeout
  <2>2. c.state \in {"ANNOUNCE", "DEFEND"} /\ c.requested_ip # None
    BY <1>1, <1>2, <1>3, <1>8 DEF Fits, Live, State
  <2>3. f \in Client /\ f.state = "MONITOR" /\ Same(e, f, {"state", "conflicts"})
    BY <1>1 DEF Client, State, Same, Field
  <2> HIDE DEF d, f
  <2>4. /\ f.requested_ip = c.requested_ip /\ f.leaked = {} /\ f.mode = c.mode /\ ~Live(f.timer)
        /\ f.sent = Silence
    BY <1>1, <1>2, <2>3 DEF Same, Field
  <2>5. Good(f) /\ Listening(f) /\ Configured(f)
    BY <2>2, <2>3, <2>4 DEF Good, Fits, Listening, Configured
  <2>6. Done(c)
    BY <2>2 DEF Done, Listening
  <2>7. QED
    BY <2>1, <2>3, <2>4, <2>5, <2>6 DEF Proceeds, d, e
<1>9. t.fn \in Fn \ {"none", "stale"}
  BY <1>1, <1>2 DEF Client, Timer, Live
<1>10. QED
  BY <1>4, <1>5, <1>6, <1>7, <1>8, <1>9 DEF Fn

\* Every packet that a client reads.
LEMMA ReceiveEffect ==
  ASSUME NEW c, Good(c), c.sent = Silence, c.mode = "L_ARP", NEW p, NEW r \in Random
  PROVE  LET d == ipv4ll_recv_arp_packet(c, p, r)
         IN  \/ /\ Stays(c, d) /\ p.spa # c.requested_ip
                /\ p.tpa = c.requested_ip => Configured(c)
             \/ Proceeds(c, d) /\ c.state = "MONITOR" /\ p.spa = c.requested_ip
             \/ Yields(d) /\ (p.spa = c.requested_ip \/ ~Configured(c))
<1> DEFINE n == (c.conflicts + 1) % UINT8
           e == [c EXCEPT !.conflicts = n]
           source == p.spa = c.requested_ip
           target == p.tpa = c.requested_ip
           d == ipv4ll_recv_arp_packet(c, p, r)
<1>0. /\ c \in Client /\ c.leaked = {} /\ c.conflicts \in Nat /\ Listening(c) /\ c.requested_ip # None
      /\ UINT8 \in Nat /\ UINT8 > 0
  BY Constant DEF Good, Client, Listening
<1>1. d = IF ~source /\ ~target THEN c
          ELSE IF Configured(c) /\ ~source THEN e
          ELSE IF c.state = "MONITOR" THEN send_announce_packet([e EXCEPT !.state = "DEFEND"])
          ELSE GiveUp(e, r)
  BY DEF ipv4ll_recv_arp_packet
<1> HIDE DEF d
<1>2. n \in Nat
  BY <1>0
<1> HIDE DEF n
<1>3. e \in Client /\ Same(c, e, {"conflicts"})
  BY <1>0, <1>2 DEF Client, Same, Field
<1> HIDE DEF e
<1>4. /\ e.state = c.state /\ e.mode = c.mode /\ e.requested_ip = c.requested_ip /\ e.sent = Silence
      /\ e.leaked = {} /\ e.timer = c.timer /\ e.retry_times = c.retry_times
  BY <1>0, <1>3 DEF Same, Field
<1>5. CASE ~source /\ ~target
  BY <1>1, <1>5 DEF Stays, Same, d
<1>6. CASE (source \/ target) /\ Configured(c) /\ ~source
  <2>1. d = e
    BY <1>1, <1>6
  <2>2. Good(e)
    BY <1>3, <1>4 DEF Good, Fits, Listening
  <2>3. QED
    BY <1>3, <1>4, <1>6, <2>1, <2>2 DEF Stays, d
<1>7. CASE ~(Configured(c) /\ ~source) /\ c.state = "MONITOR"
  <2> DEFINE f == [e EXCEPT !.state = "DEFEND"]
  <2>1. source /\ Configured(c)
    BY <1>7 DEF Configured
  <2>2. d = send_announce_packet(f)
    BY <1>1, <1>7, <2>1
  <2>3. f \in Client /\ f.state = "DEFEND" /\ Same(e, f, {"state"})
    BY <1>3 DEF Client, State, Same, Field
  <2> HIDE DEF f
  <2>4. /\ d \in Client /\ Same(f, d, {"sent", "timer"}) /\ d.sent = Announce(f.requested_ip)
        /\ d.timer.fn = "ipv4ll_defend_timeout"
    BY <2>2, <2>3, SendAnnounceEffect
  <2>5. /\ d.state = "DEFEND" /\ d.requested_ip = c.requested_ip /\ d.mode = c.mode /\ d.leaked = {}
        /\ d.sent = Announce(c.requested_ip)
    BY <1>4, <2>3, <2>4 DEF Same, Field
  <2>6. Good(d) /\ Listening(d) /\ Configured(d)
    BY <1>0, <2>4, <2>5 DEF Good, Fits, Listening, Configured
  <2>7. Done(c)
    BY <1>0, <1>7 DEF Done
  <2>8. QED
    BY <1>7, <2>1, <2>5, <2>6, <2>7 DEF Proceeds, d
<1>8. CASE (source \/ target) /\ ~(Configured(c) /\ ~source) /\ c.state # "MONITOR"
  <2>1. d = GiveUp(e, r)
    BY <1>1, <1>8
  <2>2. Yields(d)
    BY <1>3, <1>4, <2>1, GiveUpEffect
  <2>3. QED
    BY <1>8, <2>2 DEF d
<1>9. QED
  BY <1>5, <1>6, <1>7, <1>8

-----------------------------------------------------------------------------
(* Packets.                                                                *)

\* A packet is a probe, an answer to one, or neither, in one way only.
LEMMA Packets ==
  ASSUME NEW ip \in Addr, NEW q \in Addr \cup {None}
  PROVE  /\ Probe(q) \in Arp /\ Announce(q) \in Arp /\ Silence \in Arp
         /\ Probe(ip) # Silence /\ Announce(q) # Probe(ip)
         /\ Answer(ip) \notin {Probe(q), Announce(q), Silence}
         /\ Probe(q).spa = None /\ Silence.spa = None /\ Announce(q).spa = q
BY Constant DEF Probe, Announce, Silence, Answer, Arp

\* Sends adds the packet for the hosts of hs, if it is one.
LEMMA SendsEffect ==
  ASSUME NEW mail \in Mail, NEW h \in Host, NEW p \in Arp, NEW hs \in SUBSET Host
  PROVE  LET s == Sends(mail, h, p, hs)
         IN  /\ s \in Mail
             /\ \A g \in Host : mail[g] \subseteq s[g]
             /\ \A g \in Host : \A m \in s[g] :
                  m \in mail[g] \/ (m = [from |-> h, arp |-> p] /\ p # Silence /\ g \in hs)
             /\ joined /\ p # Silence => \A g \in hs \ {h} : [from |-> h, arp |-> p] \in s[g]
<1> DEFINE s == Sends(mail, h, p, hs)
           x == [from |-> h, arp |-> p]
<1>0. mail \in [Host -> SUBSET [from : Host, arp : Arp]] /\ \A g \in Host : \A m \in mail[g] : m.from # g
  BY DEF Mail
<1>1. CASE p = Silence \/ ~joined
  BY <1>1 DEF Sends
<1>2. CASE ~(p = Silence \/ ~joined)
  <2>1. s = [g \in Host |-> IF g \in hs \ {h} THEN mail[g] \cup {x} ELSE mail[g]]
    BY <1>2 DEF Sends
  <2>2. x \in [from : Host, arp : Arp] /\ x.from = h
    OBVIOUS
  <2> HIDE DEF s, x
  <2>3. s \in [Host -> SUBSET [from : Host, arp : Arp]]
    BY <1>0, <2>1, <2>2
  <2>4. \A g \in Host : \A m \in s[g] : m.from # g
    BY <1>0, <2>1, <2>2
  <2>5. s \in Mail
    BY <2>3, <2>4 DEF Mail
  <2>6. QED
    BY <1>2, <2>1, <2>5 DEF s, x
<1>3. QED
  BY <1>1, <1>2

\* A packet less.
LEMMA WithoutEffect ==
  ASSUME inbox \in Mail, NEW h \in Host, NEW m
  PROVE  /\ Without(h, m) \in Mail
         /\ \A g \in Host : Without(h, m)[g] \subseteq inbox[g]
         /\ \A g \in Host : \A x \in inbox[g] : x \in Without(h, m)[g] \/ (g = h /\ x = m)
<1> DEFINE w == Without(h, m)
<1>0. inbox \in [Host -> SUBSET [from : Host, arp : Arp]] /\ \A g \in Host : \A x \in inbox[g] : x.from # g
  BY DEF Mail
<1>1. w = [inbox EXCEPT ![h] = inbox[h] \ {m}]
  BY DEF Without
<1> HIDE DEF w
<1>2. w \in [Host -> SUBSET [from : Host, arp : Arp]]
  BY <1>0, <1>1
<1>3. \A g \in Host : w[g] = IF g = h THEN inbox[h] \ {m} ELSE inbox[g]
  BY <1>0, <1>1
<1>4. w \in Mail
  BY <1>0, <1>2, <1>3 DEF Mail
<1>5. QED
  BY <1>3, <1>4 DEF w

-----------------------------------------------------------------------------
(* A step of one host.                                                     *)

\* A client's record c becomes d.
Acts(c, d) == ProbeSent(c, d) \/ Proceeds(c, d) \/ Yields(d) \/ Stays(c, d)

\* What is known of a record that is made quiet.
LEMMA QuietEffect ==
  ASSUME NEW d, Good(d)
  PROVE  LET q == Quiet(d)
         IN  /\ Good(q) /\ q.sent = Silence /\ q \in Client
             /\ q.state = d.state /\ q.mode = d.mode /\ q.retry_times = d.retry_times
             /\ q.requested_ip = d.requested_ip /\ q.timer = d.timer
             /\ (Listening(q) <=> Listening(d)) /\ (Done(q) <=> Done(d))
             /\ (Waits(q) <=> Waits(d)) /\ Probes(q) = Probes(d)
             /\ (Configured(q) <=> Configured(d))
<1> DEFINE q == [d EXCEPT !.sent = Silence]
<1>1. Quiet(d) = q
  BY DEF Quiet
<1>2. Silence \in Arp
  BY DEF Silence, Arp
<1>3. q \in Client /\ q.sent = Silence /\ Same(d, q, {"sent"})
  BY <1>2 DEF Good, Client, Same, Field
<1> HIDE DEF q
<1>4. /\ q.state = d.state /\ q.mode = d.mode /\ q.retry_times = d.retry_times
      /\ q.requested_ip = d.requested_ip /\ q.timer = d.timer /\ q.leaked = d.leaked
  BY <1>3 DEF Same, Field
<1>5. Good(q)
  BY <1>3, <1>4 DEF Good, Fits, Listening
<1>6. QED
  BY <1>1, <1>3, <1>4, <1>5 DEF Listening, Done, Waits, Probes, Configured

\* Types, and what each record says of itself.
LEMMA BaseStep ==
  ASSUME LinkInv, HostInv, NEW h \in Host, NEW d, Good(d), NEW mail \in Mail, Becomes(h, d, mail)
  PROVE  LinkInv' /\ HostInv'
<1> DEFINE q == Quiet(d)
<1>1. Good(q) /\ q \in Client /\ q.sent = Silence /\ d.sent \in Arp
  BY QuietEffect DEF Good, Client
<1>2. client' = [client EXCEPT ![h] = q] /\ client \in [Host -> Client]
  BY DEF Becomes, LinkInv
<1> HIDE DEF q
<1>3. client' \in [Host -> Client]
  BY <1>1, <1>2
<1>4. HostInv'
  BY <1>1, <1>2 DEF HostInv
<1>5. inbox' \in Mail
  BY <1>1, SendsEffect DEF Becomes
<1>6. faults' \in Nat /\ faults' <= MaxFaults
  BY Constant DEF Becomes, LinkInv
<1>7. apart' \/ joined'
  BY DEF Becomes, LinkInv
<1>8. QED
  BY <1>3, <1>4, <1>5, <1>6, <1>7 DEF LinkInv

\* There are fewer faults (lost packets, missing or failing sockets) than probes.
FewFaults == MaxFaults < PROBE_NUM

\* No two hosts are done with probing for the same address.
LEMMA DoneUnique ==
  ASSUME IInv, FewFaults, Reliable, NEW x \in Host, NEW y \in Host, x # y,
         Done(client[x]), Done(client[y]), client[x].requested_ip = client[y].requested_ip
  PROVE  FALSE
<1>1. Rivals(x, y)
  BY DEF Rivals, Done
<1>2. /\ Probes(client[x]) = PROBE_NUM /\ Probes(client[y]) = PROBE_NUM
      /\ Listening(client[x]) /\ Listening(client[y])
  BY DEF Probes, Done
<1>3. client[x].timer.left \in Nat /\ client[y].timer.left \in Nat
  BY DEF IInv, LinkInv, Client, Timer
<1>4. ~Waits(client[x]) /\ ~Waits(client[y])
  BY <1>3 DEF Waits, Done
<1>5. ~Pending(x, y) /\ ~Pending(y, x)
  BY <1>2, <1>4 DEF IInv, WaitInv
<1>6. Missed(x, y) \/ Missed(y, x)
  BY <1>1 DEF IInv, ContestInv
<1>7. PROBE_NUM <= faults
  BY <1>2, <1>5, <1>6 DEF Missed
<1>8. QED
  BY <1>7, Constant DEF FewFaults, IInv, LinkInv

\* What becomes of the packets under way when host h's client becomes d, before
\* it sends one: claims are added only for the address that h is done with, probes
\* and answers to them are not added, and are taken away only from who heeds them.
Passes(h, d, mail) ==
  /\ mail \in Mail
  /\ \A g \in Host : \A m \in mail[g] : m.arp.spa # None =>
       \/ m \in inbox[g]
       \/ m.from = h /\ m.arp.spa = client[h].requested_ip /\ Done(client[h])
  /\ \A x, y \in Host : \A a \in Addr : Under(mail, x, a, y) => Under(inbox, x, a, y)
  /\ \A x, y \in Host : Reliable /\ Rivals(x, y) /\ Pending(x, y) =>
       Under(mail, x, client[x].requested_ip, y) \/ (h \in {x, y} /\ ~Listening(d))

\* A host's step keeps the invariant.
LEMMA HostStep ==
  ASSUME IInv, FewFaults, NEW h \in Host, NEW d, Acts(client[h], d),
         NEW mail, Passes(h, d, mail), Becomes(h, d, mail)
  PROVE  IInv'
<1> DEFINE c == client[h]
           q == Quiet(d)
<1>1. /\ Good(d) /\ Good(c) /\ mail \in Mail /\ c \in Client /\ c.requested_ip \in Addr \cup {None}
      /\ d.sent \in Arp /\ client \in [Host -> Client] /\ d.requested_ip \in Addr \cup {None}
      /\ c.timer.left \in Nat /\ c.retry_times \in Nat /\ faults \in Nat
  <2>1. Good(d)
    BY DEF Acts, ProbeSent, Proceeds, Yields, Stays
  <2>2. QED
    BY <2>1 DEF IInv, HostInv, LinkInv, Passes, Good, Client, Timer
<1>2. LinkInv' /\ HostInv'
  BY <1>1, BaseStep DEF IInv
<1>3. /\ Good(q) /\ q.sent = Silence
      /\ q.state = d.state /\ q.mode = d.mode /\ q.retry_times = d.retry_times
      /\ q.requested_ip = d.requested_ip /\ q.timer = d.timer
      /\ (Listening(q) <=> Listening(d)) /\ (Done(q) <=> Done(d))
      /\ (Waits(q) <=> Waits(d)) /\ Probes(q) = Probes(d)
  BY <1>1, QuietEffect
<1>4. /\ client'[h] = q /\ \A g \in Host \ {h} : client'[g] = client[g]
      /\ deaf' = (deaf \/ SocketFails(d)) /\ apart' = apart /\ joined' = joined
      /\ Reliable' => Reliable /\ ~SocketFails(d) /\ faults' = faults
  BY <1>1 DEF Becomes, Reliable
<1>5. /\ \A g \in Host : mail[g] \subseteq inbox'[g]
      /\ \A g \in Host : \A m \in inbox'[g] :
           m \in mail[g] \/ (m = [from |-> h, arp |-> d.sent] /\ d.sent # Silence)
      /\ joined /\ d.sent # Silence => \A g \in Host \ {h} : [from |-> h, arp |-> d.sent] \in inbox'[g]
  <2>1. inbox' = Sends(mail, h, d.sent, Host)
    BY DEF Becomes
  <2>2. QED
    BY <1>1, <2>1, SendsEffect
<1> HIDE DEF q
\* The three ways of being on the link after the step.
<1>6. ASSUME Listening(d)
      PROVE  \/ /\ ProbeSent(c, d) /\ Waits(d) /\ ~Done(d)
             \/ /\ Proceeds(c, d) /\ Listening(c) /\ Done(c) /\ ~Waits(d)
                /\ d.requested_ip = c.requested_ip /\ Probes(d) = Probes(c)
             \/ /\ Stays(c, d) /\ Listening(c) /\ (Waits(d) <=> Waits(c)) /\ (Done(d) <=> Done(c))
                /\ d.requested_ip = c.requested_ip /\ Probes(d) = Probes(c)
  <2>1. CASE ProbeSent(c, d)
    BY <2>1 DEF ProbeSent, Waits, Done
  <2>2. CASE Proceeds(c, d)
    BY <2>2 DEF Proceeds, Waits, Done, Probes
  <2>3. CASE Stays(c, d)
    <3>1. /\ d.state = c.state /\ d.requested_ip = c.requested_ip /\ d.retry_times = c.retry_times
          /\ d.timer = c.timer
      BY <2>3 DEF Stays, Same, Field
    <3>2. QED
      BY <1>6, <2>3, <3>1 DEF Waits, Done, Probes, Listening
  <2>4. QED
    BY <1>6, <2>1, <2>2, <2>3 DEF Acts, Yields
\* What the host sends is a probe for its address or a claim of it.
<1>7. \/ d.sent = Silence
      \/ ProbeSent(c, d) /\ d.sent = Probe(d.requested_ip)
      \/ Proceeds(c, d) /\ d.sent = Announce(d.requested_ip) /\ Done(c) /\ d.requested_ip = c.requested_ip
  BY DEF Acts, ProbeSent, Proceeds, Yields, Stays
<1>8. SocketInv'
  <2>1. SUFFICES ASSUME ~deaf', NEW x \in Host, Listening(client'[x])
                 PROVE  client'[x].mode = "L_ARP" /\ x \in watch'
    BY DEF SocketInv, Hears
  <2>2. ~deaf /\ ~SocketFails(d) /\ watch' = Watching(h, d)
    BY <1>4, <2>1 DEF Becomes
  <2>3. CASE x # h
    <3>1. client[x].mode = "L_ARP" /\ x \in watch
      BY <1>4, <2>1, <2>2, <2>3 DEF IInv, SocketInv, Hears
    <3>2. QED
      BY <1>4, <2>2, <2>3, <3>1 DEF Watching
  <2>4. CASE x = h /\ Listening(c)
    <3>1. Listening(d) /\ client'[x].mode = d.mode
      BY <1>3, <1>4, <2>1, <2>4
    <3>2. d.mode = c.mode
      BY <2>4, <3>1 DEF Acts, ProbeSent, Proceeds, Yields, Stays, Same, Field
    <3>3. c.mode = "L_ARP" /\ h \in watch
      BY <2>2, <2>4 DEF IInv, SocketInv, Hears
    <3>4. QED
      BY <2>2, <2>4, <3>1, <3>2, <3>3 DEF Watching
  <2>5. CASE x = h /\ ~Listening(c)
    <3>1. Listening(d) /\ client'[x].mode = d.mode
      BY <1>3, <1>4, <2>1, <2>5
    <3>2. ProbeSent(c, d)
      BY <1>6, <2>5, <3>1
    <3>3. d.state = "PROBE" /\ d.retry_times = 1 /\ d.requested_ip \in Addr /\ d.sent = Probe(d.requested_ip)
      BY <1>1, <2>5, <3>2 DEF ProbeSent
    <3>4. d.sent # Silence
      BY <3>3, Packets
    <3>5. d.mode \in {"L_NONE", "L_ARP"} /\ c.mode = "L_NONE"
      BY <1>1, <2>5 DEF Good, Client
    <3>6. d.mode = "L_ARP"
      BY <2>2, <3>3, <3>4, <3>5 DEF SocketFails
    <3>7. QED
      BY <2>2, <2>5, <3>1, <3>5, <3>6 DEF Watching
  <2>6. QED
    BY <2>3, <2>4, <2>5
<1>9. ASSUME NEW x \in Host, NEW y \in Host, x # h, Listening(client[x]), Pending(x, y)'
      PROVE  Pending(x, y)
  <2> DEFINE a == client[x].requested_ip
  <2>1. a \in Addr /\ client'[x] = client[x]
    BY <1>1, <1>4, <1>9 DEF Listening, Client
  <2> HIDE DEF a
  <2>2. Under(inbox', x, a, y)
    BY <1>9, <2>1 DEF Pending, Under, a
  <2>3. Answer(a) # d.sent
    BY <1>1, <1>7, <2>1, Packets
  <2>4. Under(mail, x, a, y)
    BY <1>5, <1>9, <2>2, <2>3 DEF Under
  <2>5. QED
    BY <2>1, <2>4 DEF Passes, Pending, a
<1>10. ASSUME NEW y \in Host, Listening(c), d.requested_ip = c.requested_ip, ~ProbeSent(c, d), Pending(h, y)'
       PROVE  Pending(h, y)
  <2> DEFINE a == c.requested_ip
  <2>1. a \in Addr /\ client'[h].requested_ip = a
    BY <1>1, <1>3, <1>4, <1>10 DEF Listening
  <2> HIDE DEF a
  <2>2. Under(inbox', h, a, y)
    BY <1>10, <2>1 DEF Pending, Under
  <2>3. Answer(a) # d.sent /\ Probe(a) # d.sent
    BY <1>1, <1>7, <1>10, <2>1, Packets
  <2>4. Under(mail, h, a, y)
    BY <1>5, <2>2, <2>3 DEF Under
  <2>5. QED
    BY <2>1, <2>4 DEF Passes, Pending, a
<1>11. WaitInv'
  <2>1. SUFFICES ASSUME NEW y \in Host, NEW x \in Host, Listening(client'[x]), Pending(x, y)'
                 PROVE  Waits(client'[x])
    BY DEF WaitInv
  <2>2. CASE x # h
    <3>1. client'[x] = client[x]
      BY <1>4, <2>2
    <3>2. Pending(x, y)
      BY <1>9, <2>1, <2>2, <3>1
    <3>3. QED
      BY <2>1, <3>1, <3>2 DEF IInv, WaitInv
  <2>3. CASE x = h
    <3>1. Listening(d) /\ client'[x] = q
      BY <1>3, <1>4, <2>1, <2>3
    <3>2. CASE ProbeSent(c, d)
      BY <1>3, <3>1, <3>2 DEF ProbeSent, Waits
    <3>3. CASE ~ProbeSent(c, d)
      <4>1. Listening(c) /\ d.requested_ip = c.requested_ip
        BY <1>6, <3>1, <3>3
      <4>2. Waits(c)
        BY <1>10, <2>1, <2>3, <3>3, <4>1 DEF IInv, WaitInv
      <4>3. ~Done(c)
        BY <1>1, <4>2 DEF Waits, Done
      <4>4. QED
        BY <1>3, <1>6, <3>1, <3>3, <4>2, <4>3
    <3>4. QED
      BY <3>2, <3>3
  <2>4. QED
    BY <2>2, <2>3
<1>12. ClaimInv'
  <2>1. SUFFICES ASSUME Reliable', NEW g \in Host, NEW x \in Host, NEW m \in inbox'[g],
                        m.arp.spa # None, m.from # x, m.arp.spa = client'[x].requested_ip,
                        Done(client'[x])
                 PROVE  FALSE
    BY DEF ClaimInv
  <2>2. Reliable
    BY <1>4, <2>1
  <2>3. \/ m \in inbox[g]
        \/ m.from = h /\ m.arp.spa = c.requested_ip /\ Done(c)
    <3>1. CASE m \in mail[g]
      BY <2>1, <3>1 DEF Passes
    <3>2. CASE m = [from |-> h, arp |-> d.sent] /\ d.sent # Silence
      <4>1. m.from = h /\ m.arp = d.sent
        BY <3>2
      <4>2. Probe(d.requested_ip).spa = None /\ Announce(d.requested_ip).spa = d.requested_ip
        BY DEF Probe, Announce
      <4>3. QED
        BY <1>7, <2>1, <3>2, <4>1, <4>2
    <3>3. QED
      BY <1>5, <3>1, <3>2
  <2>4. CASE x # h
    <3>1. client'[x] = client[x]
      BY <1>4, <2>4
    <3>2. m \notin inbox[g]
      BY <2>1, <2>2, <3>1 DEF IInv, ClaimInv
    <3>3. m.arp.spa = c.requested_ip /\ Done(c)
      BY <2>3, <3>2
    <3>4. QED
      BY <2>1, <2>2, <2>4, <3>1, <3>3, DoneUnique
  <2>5. CASE x = h
    <3>1. Done(d) /\ Listening(d) /\ m \in inbox[g] /\ client'[x].requested_ip = d.requested_ip
      BY <1>3, <1>4, <2>1, <2>3, <2>5 DEF Done
    <3>2. Done(c) /\ d.requested_ip = c.requested_ip
      BY <1>6, <3>1
    <3>3. QED
      BY <2>1, <2>2, <2>5, <3>1, <3>2 DEF IInv, ClaimInv
  <2>6. QED
    BY <2>4, <2>5
<1>13. ASSUME Reliable', NEW x \in Host, NEW y \in Host, Rivals(x, y), Missed(x, y),
              Listening(client'[x]), Listening(client'[y]),
              client'[x].requested_ip = client[x].requested_ip,
              Probes(client'[x]) = Probes(client[x])
       PROVE  Missed(x, y)'
  <2> DEFINE n == Probes(client[x])
             a == client[x].requested_ip
  <2>1. faults' = faults /\ Reliable /\ (h \in {x, y} => Listening(d))
    BY <1>3, <1>4, <1>13
  <2>2. Pending(x, y) => Under(mail, x, a, y)
    BY <1>13, <2>1 DEF Passes
  <2>3. Under(mail, x, a, y) => Under(inbox', x, a, y)
    BY <1>5 DEF Under
  <2>4. Under(inbox', x, a, y) => Pending(x, y)'
    BY <1>13 DEF Pending, Under
  <2>5. n <= faults \/ (Pending(x, y) /\ n <= faults + 1)
    BY <1>13 DEF Missed
  <2> HIDE DEF n, a
  <2>6. Probes(client'[x]) = n
    BY <1>13 DEF n
  <2>7. QED
    BY <2>1, <2>2, <2>3, <2>4, <2>5, <2>6 DEF Missed
\* The host that steps misses the probes that it has missed, and the one it sends.
<1>14. ASSUME Reliable', NEW y \in Host, Rivals(h, y)'
       PROVE  \/ Missed(h, y)'
              \/ Rivals(h, y) /\ Missed(y, h)
  <2>1. /\ y # h /\ Listening(d) /\ Listening(client[y]) /\ client'[y] = client[y]
        /\ d.requested_ip = client[y].requested_ip /\ joined /\ faults' = faults /\ Reliable
    <3>1. y # h /\ Listening(client'[h]) /\ Listening(client'[y])
          /\ client'[h].requested_ip = client'[y].requested_ip
      BY <1>14 DEF Rivals
    <3>2. client'[y] = client[y]
      BY <1>4, <3>1
    <3>3. joined
      BY <1>4, <1>14 DEF Reliable, IInv, LinkInv
    <3>4. QED
      BY <1>3, <1>4, <1>14, <3>1, <3>2, <3>3
  <2>2. ASSUME ProbeSent(c, d), Probes(d) <= faults + 1
        PROVE  Missed(h, y)'
    <3> DEFINE a == d.requested_ip
    <3>1. a \in Addr /\ d.sent = Probe(a) /\ d.sent # Silence
      BY <1>1, <2>2, Packets DEF ProbeSent
    <3>2. [from |-> h, arp |-> Probe(a)] \in inbox'[y]
      BY <1>5, <2>1, <3>1
    <3>3. Pending(h, y)'
      BY <1>3, <1>4, <3>2 DEF Pending, Under
    <3>4. QED
      BY <1>3, <1>4, <2>1, <2>2, <3>3 DEF Missed
  <2>3. CASE ProbeSent(c, d) /\ ~Listening(c)
    <3>1. Probes(d) = 1
      BY <2>3 DEF ProbeSent, Probes
    <3>2. QED
      BY <1>1, <2>2, <2>3, <3>1
  <2>4. CASE Listening(c)
    <3>1. d.requested_ip = c.requested_ip
      BY <1>6, <2>1, <2>4 DEF ProbeSent
    <3>2. Rivals(h, y)
      BY <2>1, <2>4, <3>1 DEF Rivals
    <3>3. Missed(h, y) \/ Missed(y, h)
      BY <2>1, <3>2 DEF IInv, ContestInv
    <3>4. CASE Missed(h, y) /\ ProbeSent(c, d)
      <4>1. /\ c.timer.left = 0 /\ Probes(c) = c.retry_times /\ Probes(d) = c.retry_times + 1
        BY <2>4, <3>4 DEF ProbeSent, Probes
      <4>2. ~Pending(h, y)
        BY <2>4, <4>1 DEF IInv, WaitInv, Waits
      <4>3. Probes(c) <= faults
        BY <3>4, <4>2 DEF Missed
      <4>4. QED
        BY <1>1, <2>2, <3>4, <4>1, <4>3
    <3>5. CASE Missed(h, y) /\ ~ProbeSent(c, d)
      <4>1. Probes(client'[h]) = Probes(client[h]) /\ client'[h].requested_ip = client[h].requested_ip
        BY <1>3, <1>4, <1>6, <2>1, <3>1, <3>5
      <4>2. QED
        BY <1>3, <1>4, <1>13, <1>14, <2>1, <3>2, <3>5, <4>1
    <3>6. QED
      BY <3>2, <3>3, <3>4, <3>5
  <2>5. QED
    BY <1>6, <2>1, <2>3, <2>4
<1>15. ContestInv'
  <2>1. SUFFICES ASSUME Reliable', NEW x \in Host, NEW y \in Host, Rivals(x, y)'
                 PROVE  (Missed(x, y) \/ Missed(y, x))'
    BY DEF ContestInv
  <2>2. Listening(client'[x]) /\ Listening(client'[y]) /\ x # y /\ Rivals(y, x)'
    BY <2>1 DEF Rivals
  <2>3. CASE x # h /\ y # h
    <3>1. client'[x] = client[x] /\ client'[y] = client[y]
      BY <1>4, <2>3
    <3>2. Rivals(x, y) /\ Rivals(y, x) /\ Reliable
      BY <1>4, <2>1, <3>1 DEF Rivals
    <3>3. Missed(x, y) \/ Missed(y, x)
      BY <3>2 DEF IInv, ContestInv
    <3>4. QED
      BY <1>13, <2>1, <2>2, <3>1, <3>2, <3>3
  <2>4. CASE x = h
    <3>1. client'[y] = client[y]
      BY <1>4, <2>2, <2>4
    <3>2. Rivals(h, y) /\ Missed(y, h) => Missed(y, h)'
      <4>1. Rivals(h, y) => Rivals(y, h)
        BY DEF Rivals
      <4>2. QED
        BY <1>13, <2>1, <2>2, <2>4, <3>1, <4>1
    <3>3. QED
      BY <1>14, <2>1, <2>4, <3>2
  <2>5. CASE y = h
    <3>1. client'[x] = client[x]
      BY <1>4, <2>2, <2>5
    <3>2. Rivals(h, x) /\ Missed(x, h) => Missed(x, h)'
      <4>1. Rivals(h, x) => Rivals(x, h)
        BY DEF Rivals
      <4>2. QED
        BY <1>13, <2>1, <2>2, <2>5, <3>1, <4>1
    <3>3. QED
      BY <1>14, <2>1, <2>2, <2>5, <3>2
  <2>6. QED
    BY <2>3, <2>4, <2>5
<1>16. QED
  BY <1>2, <1>8, <1>11, <1>12, <1>15 DEF IInv

\* A step in which no packet is taken from the link.
LEMMA InboxPasses ==
  ASSUME IInv, NEW h \in Host, NEW d
  PROVE  Passes(h, d, inbox)
BY DEF Passes, IInv, LinkInv, Pending

\* The user starts the client, or stops it.
LEMMA UserStep ==
  ASSUME IInv, FewFaults, NEW h \in Host, g_dhcp_client_start(h) \/ Stop(h)
  PROVE  IInv'
<1> DEFINE c == client[h]
<1>1. Good(c) /\ c.sent = Silence
  BY DEF IInv, HostInv
<1>2. CASE g_dhcp_client_start(h)
  <2>1. PICK r \in Random : Becomes(h, ipv4ll_start(c, r), inbox)
    BY <1>2 DEF g_dhcp_client_start
  <2>2. Acts(c, ipv4ll_start(c, r))
    BY <1>1, StartEffect DEF Acts
  <2>3. QED
    BY <2>1, <2>2, InboxPasses, HostStep
<1>3. CASE Stop(h)
  <2>1. Becomes(h, g_dhcp_client_stop(c), inbox)
    BY <1>3 DEF Stop
  <2>2. Acts(c, g_dhcp_client_stop(c))
    BY <1>1, StopEffect DEF Acts
  <2>3. QED
    BY <2>1, <2>2, InboxPasses, HostStep
<1>4. QED
  BY <1>2, <1>3

\* A timer fires.
LEMMA TimerStep ==
  ASSUME IInv, FewFaults, NEW h \in Host, TimerFires(h)
  PROVE  IInv'
<1>1. Good(client[h]) /\ client[h].sent = Silence
  BY DEF IInv, HostInv
<1>2. PICK t \in Due(client[h]), r \in Random :
        Becomes(h, Callback(t.fn, Expired(client[h], t), r), inbox)
  BY DEF TimerFires
<1>3. Acts(client[h], Callback(t.fn, Expired(client[h], t), r))
  BY <1>1, CallbackEffect DEF Acts
<1>4. QED
  BY <1>2, <1>3, InboxPasses, HostStep

\* What a packet does to a client, whether it listens or not.
LEMMA DeliverEffect ==
  ASSUME IInv, NEW h \in Host, NEW m \in inbox[h], NEW r \in Random
  PROVE  LET c == client[h]
             d == IF Hears(h) THEN ipv4ll_recv_arp_packet(c, m.arp, r) ELSE c
         IN  /\ Acts(c, d)
             /\ ~deaf /\ Listening(c) =>
                  /\ m.arp.tpa = c.requested_ip => Configured(c) \/ ~Listening(d)
                  /\ m.arp.spa = c.requested_ip => c.state = "MONITOR" \/ ~Listening(d)
                  /\ Configured(c) /\ m.arp.spa # c.requested_ip => Configured(d)
<1> DEFINE c == client[h]
           d == IF Hears(h) THEN ipv4ll_recv_arp_packet(c, m.arp, r) ELSE c
<1>1. Good(c) /\ c.sent = Silence
  BY DEF IInv, HostInv
<1>2. CASE Hears(h)
  <2>1. d = ipv4ll_recv_arp_packet(c, m.arp, r) /\ c.mode = "L_ARP"
    BY <1>2 DEF Hears
  <2> HIDE DEF d
  <2>2. \/ /\ Stays(c, d) /\ m.arp.spa # c.requested_ip
           /\ m.arp.tpa = c.requested_ip => Configured(c)
        \/ Proceeds(c, d) /\ c.state = "MONITOR" /\ m.arp.spa = c.requested_ip
        \/ Yields(d) /\ (m.arp.spa = c.requested_ip \/ ~Configured(c))
    BY <1>1, <2>1, ReceiveEffect
  <2>3. Stays(c, d) => (Configured(d) <=> Configured(c))
    BY DEF Stays, Same, Field, Configured
  <2>4. c.state = "MONITOR" => Configured(c)
    BY DEF Configured
  <2>5. QED
    BY <2>2, <2>3, <2>4 DEF Acts, Yields, d
<1>3. CASE ~Hears(h)
  <2>1. d = c /\ Stays(c, c)
    BY <1>1, <1>3 DEF Stays, Same
  <2>2. ~deaf => ~Listening(c)
    BY <1>3 DEF IInv, SocketInv
  <2>3. QED
    BY <2>1, <2>2 DEF Acts
<1>4. QED
  BY <1>2, <1>3

\* What the host's kernel answers.
LEMMA DeliverPasses ==
  ASSUME IInv, NEW h \in Host, NEW m \in inbox[h], NEW d,
         ~deaf /\ Listening(client[h]) =>
           /\ m.arp.tpa = client[h].requested_ip => Configured(client[h]) \/ ~Listening(d)
           /\ m.arp.spa = client[h].requested_ip => client[h].state = "MONITOR" \/ ~Listening(d)
  PROVE  Passes(h, d, KernelAnswers(Without(h, m), h, m))
<1> DEFINE c == client[h]
           w == Without(h, m)
           k == KernelAnswers(w, h, m)
           a == m.arp.tpa
           p == [spa |-> a, tpa |-> m.arp.spa]
           x == [from |-> h, arp |-> p]
           asks == Configured(c) /\ a = c.requested_ip /\ m.arp.spa # a
<1>1. /\ inbox \in Mail /\ m.from \in Host /\ m.arp \in Arp /\ m.from # h
      /\ a \in Addr \cup {None} /\ m.arp.spa \in Addr \cup {None} /\ Good(c)
      /\ m = [from |-> m.from, arp |-> m.arp] /\ m.arp = [spa |-> m.arp.spa, tpa |-> a]
  BY DEF IInv, LinkInv, HostInv, Mail, Arp
<1>2. /\ w \in Mail
      /\ \A g \in Host : w[g] \subseteq inbox[g]
      /\ \A g \in Host : \A y \in inbox[g] : y \in w[g] \/ (g = h /\ y = m)
  BY <1>1, WithoutEffect
<1>3. Configured(c) => Done(c) /\ Listening(c)
  BY <1>1 DEF Good, Fits, Configured, Done, Listening
<1>4. k = IF asks THEN Sends(w, h, p, {m.from}) ELSE w
  BY DEF KernelAnswers
<1> HIDE DEF w, k
<1>5. /\ k \in Mail
      /\ \A g \in Host : w[g] \subseteq k[g]
      /\ \A g \in Host : \A y \in k[g] : y \in w[g] \/ (asks /\ y = x /\ g = m.from)
      /\ asks /\ joined => x \in k[m.from]
  <2>1. CASE asks
    <3>1. p \in Arp /\ {m.from} \in SUBSET Host
      BY <1>1 DEF Arp
    <3>2. a # None
      BY <1>3, <2>1 DEF Listening
    <3>3. p # Silence
      BY <3>2 DEF Silence
    <3>4. k = Sends(w, h, p, {m.from})
      BY <1>4, <2>1
    <3> HIDE DEF p
    <3>5. QED
      BY <1>1, <1>2, <2>1, <3>1, <3>3, <3>4, SendsEffect
  <2>2. CASE ~asks
    BY <1>2, <1>4, <2>2
  <2>3. QED
    BY <2>1, <2>2
<1>6. ASSUME NEW g \in Host, NEW y \in k[g], y.arp.spa # None
      PROVE  \/ y \in inbox[g]
             \/ y.from = h /\ y.arp.spa = c.requested_ip /\ Done(c)
  <2>1. CASE y \in w[g]
    BY <1>2, <2>1
  <2>2. CASE asks /\ y = x
    BY <1>3, <2>2
  <2>3. QED
    BY <1>5, <2>1, <2>2
<1>7. ASSUME NEW u \in Host, NEW v \in Host, NEW b \in Addr, Under(k, u, b, v)
      PROVE  Under(inbox, u, b, v)
  <2>1. CASE [from |-> u, arp |-> Probe(b)] \in k[v]
    <3> DEFINE y == [from |-> u, arp |-> Probe(b)]
    <3>1. y.arp.spa = None
      BY DEF Probe
    <3>2. CASE y \in w[v]
      BY <1>2, <3>2 DEF Under
    <3>3. CASE asks /\ y = x
      <4>1. x.arp.spa = a
        OBVIOUS
      <4>2. a # None
        BY <1>3, <3>3 DEF Listening
      <4>3. QED
        BY <3>1, <3>3, <4>1, <4>2
    <3>4. QED
      BY <1>5, <2>1, <3>2, <3>3
  <2>2. CASE [from |-> v, arp |-> Answer(b)] \in k[u]
    <3> DEFINE y == [from |-> v, arp |-> Answer(b)]
    <3>1. CASE y \in w[u]
      BY <1>2, <3>1 DEF Under
    <3>2. CASE asks /\ y = x /\ u = m.from
      <4>1. y.from = v /\ y.arp.spa = b /\ y.arp.tpa = None
        BY DEF Answer
      <4>2. x.from = h /\ x.arp.spa = a /\ x.arp.tpa = m.arp.spa
        OBVIOUS
      <4>3. v = h /\ b = a /\ m.arp.spa = None
        BY <3>2, <4>1, <4>2
      <4>4. m = [from |-> u, arp |-> Probe(b)]
        BY <1>1, <3>2, <4>3 DEF Probe
      <4>5. QED
        BY <4>3, <4>4 DEF Under
    <3>3. QED
      BY <1>5, <2>2, <3>1, <3>2
  <2>3. QED
    BY <1>7, <2>1, <2>2 DEF Under
<1>8. ASSUME NEW u \in Host, NEW v \in Host, Reliable, Rivals(u, v), Pending(u, v)
      PROVE  Under(k, u, client[u].requested_ip, v) \/ (h \in {u, v} /\ ~Listening(d))
  <2> DEFINE b == client[u].requested_ip
  <2>1. /\ b # None /\ joined /\ ~deaf /\ client[v].requested_ip = b
        /\ Listening(client[u]) /\ Listening(client[v])
    BY <1>8 DEF Rivals, Listening, Reliable, IInv, LinkInv
  <2> HIDE DEF b
  <2>2. CASE [from |-> u, arp |-> Probe(b)] \in inbox[v]
    <3> DEFINE y == [from |-> u, arp |-> Probe(b)]
    <3>1. CASE y \in w[v]
      BY <1>5, <3>1 DEF Under, b
    <3>2. CASE v = h /\ y = m
      <4>1. m.from = u /\ a = b /\ m.arp.spa = None
        BY <3>2 DEF Probe
      <4>2. Configured(c) \/ ~Listening(d)
        BY <2>1, <3>2, <4>1
      <4>3. CASE Configured(c)
        <5>1. asks
          BY <2>1, <3>2, <4>1, <4>3
        <5>2. x = [from |-> v, arp |-> Answer(b)]
          BY <3>2, <4>1 DEF Answer
        <5>3. QED
          BY <1>5, <2>1, <4>1, <5>1, <5>2 DEF Under, b
      <4>4. QED
        BY <3>2, <4>2, <4>3
    <3>3. QED
      BY <1>2, <2>2, <3>1, <3>2
  <2>3. CASE [from |-> v, arp |-> Answer(b)] \in inbox[u]
    <3> DEFINE y == [from |-> v, arp |-> Answer(b)]
    <3>1. CASE y \in w[u]
      BY <1>5, <3>1 DEF Under, b
    <3>2. CASE u = h /\ y = m
      <4>1. m.arp.spa = b
        BY <3>2 DEF Answer
      <4>2. c.state = "MONITOR" \/ ~Listening(d)
        BY <2>1, <3>2, <4>1 DEF b
      <4>3. c.state # "MONITOR"
        BY <1>8, <2>1, <3>2 DEF IInv, WaitInv, Waits
      <4>4. QED
        BY <3>2, <4>2, <4>3
    <3>3. QED
      BY <1>2, <2>3, <3>1, <3>2
  <2>4. QED
    BY <1>8, <2>2, <2>3 DEF Pending, Under, b
<1>9. Passes(h, d, k)
  BY <1>5, <1>6, <1>7, <1>8 DEF Passes
<1>10. QED
  BY <1>9 DEF k, w

\* A packet arrives.
LEMMA DeliverStep ==
  ASSUME IInv, FewFaults, NEW h \in Host, Deliver(h)
  PROVE  IInv'
<1> DEFINE c == client[h]
<1>1. PICK m \in inbox[h], r \in Random :
        Becomes(h,
          IF Hears(h) THEN ipv4ll_recv_arp_packet(c, m.arp, r) ELSE c,
          KernelAnswers(Without(h, m), h, m))
  BY DEF Deliver
<1> DEFINE d == IF Hears(h) THEN ipv4ll_recv_arp_packet(c, m.arp, r) ELSE c
           k == KernelAnswers(Without(h, m), h, m)
<1>2. /\ Acts(c, d)
      /\ ~deaf /\ Listening(c) =>
           /\ m.arp.tpa = c.requested_ip => Configured(c) \/ ~Listening(d)
           /\ m.arp.spa = c.requested_ip => c.state = "MONITOR" \/ ~Listening(d)
  BY DeliverEffect
<1>3. Becomes(h, d, k)
  BY <1>1
<1> HIDE DEF d
<1>4. Passes(h, d, k)
  BY <1>2, DeliverPasses
<1> HIDE DEF k
<1>5. QED
  BY <1>2, <1>3, <1>4, HostStep

\* A socket fails: its host is excepted from then on.
LEMMA ListenerStep ==
  ASSUME IInv, NEW h \in Host, ListenerError(h)
  PROVE  IInv'
<1>1. /\ client' = client /\ inbox' = inbox /\ joined' = joined /\ apart' = apart /\ deaf'
      /\ faults' \in Nat /\ faults' <= MaxFaults
  BY Constant DEF ListenerError, IInv, LinkInv
<1>2. LinkInv' /\ HostInv' /\ SocketInv'
  BY <1>1 DEF IInv, LinkInv, HostInv, SocketInv
<1>3. WaitInv'
  BY <1>1 DEF IInv, WaitInv, Pending, Under
<1>4. ClaimInv' /\ ContestInv'
  BY <1>1 DEF ClaimInv, ContestInv, Reliable
<1>5. QED
  BY <1>2, <1>3, <1>4 DEF IInv

\* A packet is lost.
LEMMA LoseStep ==
  ASSUME IInv, NEW h \in Host, Lose(h)
  PROVE  IInv'
<1>1. PICK m \in inbox[h] : inbox' = Without(h, m)
  BY DEF Lose
<1>2. /\ client' = client /\ watch' = watch /\ joined' = joined /\ apart' = apart /\ deaf' = deaf
      /\ faults < MaxFaults /\ faults' = faults + 1 /\ faults \in Nat /\ inbox \in Mail
  BY DEF Lose, IInv, LinkInv
<1>3. inbox' \in Mail /\ \A g \in Host : inbox'[g] \subseteq inbox[g]
  BY <1>1, <1>2, WithoutEffect
<1>4. LinkInv' /\ HostInv' /\ SocketInv'
  <2>1. faults' \in Nat /\ faults' <= MaxFaults
    BY <1>2, Constant
  <2>2. QED
    BY <1>2, <1>3, <2>1 DEF IInv, LinkInv, HostInv, SocketInv, Hears
<1>5. WaitInv'
  <2>1. \A x, y \in Host : Pending(x, y)' => Pending(x, y)
    BY <1>2, <1>3 DEF Pending, Under
  <2>2. QED
    BY <1>2, <2>1 DEF IInv, WaitInv
<1>6. ClaimInv'
  BY <1>2, <1>3 DEF IInv, ClaimInv, Reliable
<1>7. ContestInv'
  <2>1. ASSUME NEW x \in Host, NEW y \in Host, Missed(x, y)
        PROVE  Missed(x, y)'
    <3> DEFINE n == Probes(client[x])
    <3>1. n \in Nat
      BY Constant DEF Probes, IInv, LinkInv, Client
    <3>2. n <= faults + 1
      BY <1>2, <2>1, <3>1 DEF Missed
    <3>3. QED
      BY <1>2, <3>2 DEF Missed
  <2>2. \A x, y \in Host : Rivals(x, y)' => Rivals(x, y)
    BY <1>2 DEF Rivals
  <2>3. Reliable' => Reliable
    BY <1>2 DEF Reliable
  <2>4. QED
    BY <2>1, <2>2, <2>3 DEF IInv, ContestInv
<1>8. QED
  BY <1>4, <1>5, <1>6, <1>7 DEF IInv

\* A host that uses its address asks for another one.
LEMMA TrafficStep ==
  ASSUME IInv, FewFaults, NEW h \in Host, Traffic(h)
  PROVE  IInv'
<1> DEFINE ip == client[h].requested_ip
<1>1. PICK a \in Addr \ {ip} : inbox' = Sends(inbox, h, [spa |-> ip, tpa |-> a], Host)
  BY DEF Traffic
<1> DEFINE p == [spa |-> ip, tpa |-> a]
<1>2. /\ client' = client /\ watch' = watch /\ joined' = joined /\ apart' = apart /\ deaf' = deaf /\ faults' = faults
      /\ inbox \in Mail /\ Done(client[h]) /\ ip \in Addr
  <2>1. Done(client[h]) /\ ip # None
    BY DEF Traffic, IInv, HostInv, Good, Fits, Configured, Done, Listening
  <2>2. QED
    BY <2>1 DEF Traffic, IInv, LinkInv, Client
<1>3. p \in Arp /\ p.spa = ip /\ p.tpa = a /\ a # None /\ ip # None
  BY <1>2, Constant DEF Arp
<1> HIDE DEF p
<1>4. /\ inbox' \in Mail /\ \A g \in Host : inbox[g] \subseteq inbox'[g]
      /\ \A g \in Host : \A m \in inbox'[g] : m \in inbox[g] \/ m = [from |-> h, arp |-> p]
  <2>1. inbox' = Sends(inbox, h, p, Host)
    BY <1>1 DEF p
  <2>2. Host \in SUBSET Host
    OBVIOUS
  <2>3. /\ Sends(inbox, h, p, Host) \in Mail
        /\ \A g \in Host : inbox[g] \subseteq Sends(inbox, h, p, Host)[g]
        /\ \A g \in Host : \A m \in Sends(inbox, h, p, Host)[g] :
             m \in inbox[g] \/ (m = [from |-> h, arp |-> p] /\ p # Silence /\ g \in Host)
    BY <1>2, <1>3, <2>2, SendsEffect
  <2>4. QED
    BY <2>1, <2>3
<1>5. LinkInv' /\ HostInv' /\ SocketInv'
  BY <1>2, <1>4 DEF IInv, LinkInv, HostInv, SocketInv, Hears
<1>6. \A x, y \in Host : Pending(x, y)' <=> Pending(x, y)
  <2>1. TAKE x, y \in Host
  <2> DEFINE b == client[x].requested_ip
  <2>2. p # Probe(b) /\ p # Answer(b)
    BY <1>3 DEF Probe, Answer
  <2> HIDE DEF b
  <2>3. Under(inbox', x, b, y) <=> Under(inbox, x, b, y)
    BY <1>4, <2>2 DEF Under
  <2>4. QED
    BY <1>2, <2>3 DEF Pending, Under, b
<1>7. WaitInv'
  BY <1>2, <1>6 DEF IInv, WaitInv
<1>8. ClaimInv'
  <2>1. SUFFICES ASSUME Reliable, NEW g \in Host, NEW x \in Host, NEW m \in inbox'[g],
                        m.arp.spa # None, m.from # x, m.arp.spa = client[x].requested_ip,
                        Done(client[x])
                 PROVE  FALSE
    BY <1>2 DEF ClaimInv, Reliable
  <2>2. m \notin inbox[g]
    BY <2>1 DEF IInv, ClaimInv
  <2>3. m.from = h /\ m.arp = p
    BY <1>4, <2>2
  <2>4. x # h /\ client[x].requested_ip = ip
    BY <1>3, <2>1, <2>3
  <2>5. QED
    BY <1>2, <2>1, <2>4, DoneUnique
<1>9. ContestInv'
  <2>1. \A x, y \in Host : (Missed(x, y)' <=> Missed(x, y)) /\ (Rivals(x, y)' <=> Rivals(x, y))
    BY <1>2, <1>6 DEF Missed, Rivals
  <2>2. Reliable' <=> Reliable
    BY <1>2 DEF Reliable
  <2>3. QED
    BY <2>1, <2>2 DEF IInv, ContestInv
<1>10. QED
  BY <1>5, <1>7, <1>8, <1>9 DEF IInv

\* Two links become one.
LEMMA JoinStep ==
  ASSUME IInv, Join \/ UNCHANGED vars
  PROVE  IInv'
<1>1. /\ client' = client /\ inbox' = inbox /\ faults' = faults /\ apart' = apart /\ deaf' = deaf
      /\ watch' = watch /\ (joined => joined')
  BY DEF Join, vars
<1>2. LinkInv' /\ HostInv' /\ SocketInv'
  BY <1>1 DEF IInv, LinkInv, HostInv, SocketInv, Hears
<1>3. WaitInv' /\ ClaimInv'
  BY <1>1 DEF IInv, WaitInv, ClaimInv, Pending, Under, Reliable
<1>4. ContestInv'
  BY <1>1 DEF IInv, ContestInv, Rivals, Missed, Pending, Under, Reliable
<1>5. QED
  BY <1>2, <1>3, <1>4 DEF IInv

\* One unit of time, in which no timer is due.
LEMMA AgedEffect ==
  ASSUME NEW c, Good(c), c.sent = Silence, Due(c) = {}
  PROVE  LET d == Aged(c)
         IN  /\ Good(d) /\ d.sent = Silence /\ d \in Client
             /\ d.state = c.state /\ d.mode = c.mode /\ d.retry_times = c.retry_times
             /\ d.requested_ip = c.requested_ip
<1> DEFINE t == Later(c.timer)
           d == [c EXCEPT !.timer = t, !.leaked = {}]
<1>1. c \in Client /\ c.timer \in Timer /\ c.timer.left \in Nat /\ c.leaked = {}
  BY DEF Good, Client, Timer
<1>2. Aged(c) = d
  <2>1. {Later(x) : x \in c.leaked} = {}
    BY <1>1
  <2>2. QED
    BY <1>1, <2>1 DEF Aged
<1>3. Live(c.timer) => c.timer.left > 0
  <2>1. SUFFICES ASSUME Live(c.timer), c.timer.left = 0
                 PROVE  FALSE
    BY <1>1
  <2>2. c.timer \in Due(c)
    BY <2>1 DEF Due, Sources
  <2>3. QED
    BY <2>2
<1>4. t \in Timer /\ t.fn = c.timer.fn
  BY <1>1, <1>3 DEF Later, Timer
<1> HIDE DEF t
<1>5. d \in Client /\ d.timer = t /\ d.leaked = {} /\ Same(c, d, {"timer", "leaked"})
  BY <1>1, <1>4 DEF Client, Same, Field
<1> HIDE DEF d
<1>6. /\ d.state = c.state /\ d.mode = c.mode /\ d.retry_times = c.retry_times
      /\ d.requested_ip = c.requested_ip /\ d.sent = Silence
  BY <1>5 DEF Same, Field
<1>7. Good(d)
  BY <1>4, <1>5, <1>6 DEF Good, Fits, Listening, Live
<1>8. QED
  BY <1>2, <1>5, <1>6, <1>7

\* Time passes on a link without packets.
LEMMA TickBase ==
  ASSUME LinkInv, HostInv, Tick
  PROVE  LinkInv' /\ HostInv'
<1>1. /\ client' = [h \in Host |-> Aged(client[h])] /\ \A h \in Host : Due(client[h]) = {}
      /\ inbox' = inbox /\ joined' = joined /\ faults' = faults /\ apart' = apart
  BY DEF Tick
<1>2. \A h \in Host : /\ Good(client'[h]) /\ client'[h].sent = Silence /\ client'[h] \in Client
  BY <1>1, AgedEffect DEF HostInv
<1>3. client' \in [Host -> Client]
  BY <1>1, <1>2
<1>4. QED
  BY <1>1, <1>2, <1>3 DEF LinkInv, HostInv

\* Time that passes keeps the invariant.
LEMMA TickStep ==
  ASSUME IInv, Tick
  PROVE  IInv'
<1>1. /\ client' = [h \in Host |-> Aged(client[h])] /\ \A h \in Host : Due(client[h]) = {}
      /\ \A h \in Host : inbox[h] = {} /\ watch' = watch
      /\ inbox' = inbox /\ joined' = joined /\ faults' = faults /\ apart' = apart /\ deaf' = deaf
  BY DEF Tick, Calm
<1>2. LinkInv' /\ HostInv'
  BY TickBase DEF IInv
<1>3. \A h \in Host : /\ client'[h].state = client[h].state /\ client'[h].mode = client[h].mode
                      /\ client'[h].retry_times = client[h].retry_times
                      /\ client'[h].requested_ip = client[h].requested_ip
  BY <1>1, AgedEffect DEF IInv, HostInv
<1>4. \A h \in Host : /\ Listening(client'[h]) <=> Listening(client[h])
                      /\ Probes(client'[h]) = Probes(client[h])
  BY <1>3 DEF Listening, Probes
<1>5. SocketInv'
  BY <1>1, <1>3, <1>4 DEF IInv, SocketInv, Hears
<1>6. \A x, y \in Host : ~Pending(x, y) /\ ~Pending(x, y)'
  BY <1>1 DEF Pending, Under
<1>7. WaitInv'
  BY <1>6 DEF WaitInv
<1>8. ClaimInv'
  BY <1>1 DEF ClaimInv
<1>9. ContestInv'
  <2>1. \A x, y \in Host : (Missed(x, y) => Missed(x, y)') /\ (Rivals(x, y)' => Rivals(x, y))
    BY <1>1, <1>3, <1>4, <1>6 DEF Missed, Rivals
  <2>2. Reliable' => Reliable
    BY <1>1 DEF Reliable
  <2>3. QED
    BY <2>1, <2>2 DEF IInv, ContestInv
<1>10. QED
  BY <1>2, <1>5, <1>7, <1>8, <1>9 DEF IInv

-----------------------------------------------------------------------------
\* The invariant holds at first: nobody has an address.
LEMMA Initial == Init => IInv
<1> SUFFICES ASSUME Init
             PROVE  IInv
  OBVIOUS
<1>1. NoTimer \in Timer /\ ~Live(NoTimer) /\ Silence \in Arp
  BY DEF NoTimer, Timer, Fn, Live, Silence, Arp
<1> DEFINE c == [state |-> "RELEASED", mode |-> "L_NONE", retry_times |-> 0, conflicts |-> 0,
                 requested_ip |-> None, timer |-> NoTimer, leaked |-> {}, sent |-> Silence]
<1>2. c \in Client
  BY <1>1 DEF Client, State
<1>3. /\ c.state = "RELEASED" /\ c.mode = "L_NONE" /\ c.requested_ip = None /\ c.timer = NoTimer
      /\ c.leaked = {} /\ c.sent = Silence
  OBVIOUS
<1>4. client = [h \in Host |-> c] /\ inbox = [h \in Host |-> {}]
  BY DEF Init
<1> HIDE DEF c
<1>5. Good(c) /\ ~Listening(c)
  BY <1>1, <1>2, <1>3 DEF Good, Fits, Listening
<1>6. \A h \in Host : client[h] = c /\ inbox[h] = {}
  BY <1>4
<1>7. inbox \in Mail
  BY <1>4 DEF Mail
<1>8. LinkInv
  <2>1. faults \in Nat /\ faults <= MaxFaults /\ (apart \/ joined)
    BY DEF Init
  <2>2. client \in [Host -> Client]
    BY <1>2, <1>4
  <2>3. QED
    BY <1>7, <2>1, <2>2 DEF LinkInv
<1>9. HostInv /\ SocketInv
  BY <1>3, <1>5, <1>6 DEF HostInv, SocketInv
<1>10. WaitInv /\ ClaimInv /\ ContestInv
  BY <1>5, <1>6 DEF WaitInv, ClaimInv, ContestInv, Rivals
<1>11. QED
  BY <1>8, <1>9, <1>10 DEF IInv

\* Every step keeps the invariant.
LEMMA Inductive ==
  ASSUME FewFaults, IInv, [Next]_vars
  PROVE  IInv'
BY UserStep, TimerStep, DeliverStep, ListenerStep, LoseStep, TrafficStep, JoinStep, TickStep DEF Next

\* An address in use is given up only by its user, or to who claims it.
LEMMA IncumbentStep ==
  ASSUME FewFaults, IInv, [Next]_vars, NEW h \in Host, Reliable, Configured(client[h])
  PROVE  Configured(client'[h]) \/ client'[h].state = "RELEASED"
<1> DEFINE c == client[h]
<1>1. /\ Good(c) /\ c.sent = Silence /\ client \in [Host -> Client] /\ ~deaf
      /\ Done(c) /\ Listening(c) /\ c.requested_ip # None /\ ~Idle(c)
  BY DEF IInv, HostInv, LinkInv, Good, Fits, Configured, Done, Listening, Reliable, Idle
<1>2. ASSUME NEW d, NEW mail, Good(d), Becomes(h, d, mail), Configured(d) \/ d.state = "RELEASED"
      PROVE  Configured(client'[h]) \/ client'[h].state = "RELEASED"
  <2>1. client'[h] = Quiet(d)
    BY <1>1, <1>2 DEF Becomes
  <2>2. QED
    BY <1>2, <2>1, QuietEffect
<1>3. ASSUME NEW g \in Host \ {h}, NEW d, NEW mail, Becomes(g, d, mail)
      PROVE  client'[h] = c
  BY <1>1, <1>3 DEF Becomes
<1>4. ASSUME NEW g \in Host \ {h}, g_dhcp_client_start(g) \/ Stop(g) \/ TimerFires(g) \/ Deliver(g)
      PROVE  client'[h] = c
  BY <1>3, <1>4 DEF g_dhcp_client_start, Stop, TimerFires, Deliver
<1>5. CASE g_dhcp_client_start(h)
  BY <1>1, <1>5 DEF g_dhcp_client_start
<1>6. CASE Stop(h)
  <2>1. Becomes(h, g_dhcp_client_stop(c), inbox)
    BY <1>6 DEF Stop
  <2>2. Good(g_dhcp_client_stop(c)) /\ g_dhcp_client_stop(c).state = "RELEASED"
    BY <1>1, StopEffect DEF Yields
  <2>3. QED
    BY <1>2, <2>1, <2>2
<1>7. CASE TimerFires(h)
  <2>1. PICK t \in Due(c), r \in Random : Becomes(h, Callback(t.fn, Expired(c, t), r), inbox)
    BY <1>7 DEF TimerFires
  <2> DEFINE d == Callback(t.fn, Expired(c, t), r)
  <2>2. ProbeSent(c, d) \/ Proceeds(c, d)
    BY <1>1, CallbackEffect
  <2> HIDE DEF d
  <2>3. ~ProbeSent(c, d)
    BY <1>1 DEF ProbeSent, Configured
  <2>4. Good(d) /\ Configured(d)
    BY <2>2, <2>3 DEF Proceeds
  <2>5. Becomes(h, d, inbox)
    BY <2>1 DEF d
  <2>6. QED
    BY <1>2, <2>4, <2>5
<1>8. CASE Deliver(h)
  <2>1. PICK m \in inbox[h], r \in Random :
          Becomes(h,
            IF Hears(h) THEN ipv4ll_recv_arp_packet(c, m.arp, r) ELSE c,
            KernelAnswers(Without(h, m), h, m))
    BY <1>8 DEF Deliver
  <2> DEFINE d == IF Hears(h) THEN ipv4ll_recv_arp_packet(c, m.arp, r) ELSE c
             k == KernelAnswers(Without(h, m), h, m)
  <2>2. m.from # h
    BY DEF IInv, LinkInv, Mail
  <2>3. m.arp.spa # c.requested_ip
    BY <1>1, <2>2 DEF IInv, ClaimInv
  <2>4. Acts(c, d) /\ (Configured(c) /\ m.arp.spa # c.requested_ip => Configured(d))
    BY <1>1, DeliverEffect
  <2>5. Becomes(h, d, k)
    BY <2>1
  <2> HIDE DEF d, k
  <2>6. Good(d) /\ Configured(d)
    BY <2>3, <2>4 DEF Acts, ProbeSent, Proceeds, Yields, Stays
  <2>7. QED
    BY <1>2, <2>5, <2>6
<1>9. CASE Tick
  <2>1. client'[h] = Aged(c) /\ Due(c) = {}
    BY <1>9 DEF Tick
  <2>2. client'[h].state = c.state
    BY <1>1, <2>1, AgedEffect
  <2>3. QED
    BY <2>2 DEF Configured
<1>10. CASE (\E g \in Host : ListenerError(g) \/ Lose(g) \/ Traffic(g)) \/ Join \/ UNCHANGED vars
  BY <1>10 DEF ListenerError, Lose, Traffic, Join, vars
<1>11. QED
  BY <1>4, <1>5, <1>6, <1>7, <1>8, <1>9, <1>10 DEF Next

\* Types and records, however many packets are lost.
LEMMA BaseInductive ==
  ASSUME LinkInv, HostInv, [Next]_vars
  PROVE  LinkInv' /\ HostInv'
<1>0. inbox \in Mail /\ \A h \in Host : Good(client[h]) /\ client[h].sent = Silence
  BY DEF LinkInv, HostInv
<1>1. ASSUME NEW h \in Host, g_dhcp_client_start(h)
      PROVE  LinkInv' /\ HostInv'
  <2>1. PICK r \in Random : Becomes(h, ipv4ll_start(client[h], r), inbox)
    BY <1>1 DEF g_dhcp_client_start
  <2>2. Good(ipv4ll_start(client[h], r))
    BY <1>0, StartEffect DEF Yields
  <2>3. QED
    BY <1>0, <2>1, <2>2, BaseStep
<1>2. ASSUME NEW h \in Host, Stop(h)
      PROVE  LinkInv' /\ HostInv'
  <2>1. Becomes(h, g_dhcp_client_stop(client[h]), inbox)
    BY <1>2 DEF Stop
  <2>2. Good(g_dhcp_client_stop(client[h]))
    BY <1>0, StopEffect DEF Yields
  <2>3. QED
    BY <1>0, <2>1, <2>2, BaseStep
<1>3. ASSUME NEW h \in Host, TimerFires(h)
      PROVE  LinkInv' /\ HostInv'
  <2>1. PICK t \in Due(client[h]), r \in Random :
          Becomes(h, Callback(t.fn, Expired(client[h], t), r), inbox)
    BY <1>3 DEF TimerFires
  <2>2. Good(Callback(t.fn, Expired(client[h], t), r))
    BY <1>0, CallbackEffect DEF ProbeSent, Proceeds
  <2>3. QED
    BY <1>0, <2>1, <2>2, BaseStep
<1>4. ASSUME NEW h \in Host, Deliver(h)
      PROVE  LinkInv' /\ HostInv'
  <2> DEFINE c == client[h]
  <2>1. PICK m \in inbox[h], r \in Random :
          Becomes(h,
            IF Hears(h) THEN ipv4ll_recv_arp_packet(c, m.arp, r) ELSE c,
            KernelAnswers(Without(h, m), h, m))
    BY <1>4 DEF Deliver
  <2> DEFINE d == IF Hears(h) THEN ipv4ll_recv_arp_packet(c, m.arp, r) ELSE c
             k == KernelAnswers(Without(h, m), h, m)
             w == Without(h, m)
             p == [spa |-> m.arp.tpa, tpa |-> m.arp.spa]
  <2>2. Good(d)
    BY <1>0, ReceiveEffect DEF Stays, Proceeds, Yields, Hears
  <2>3. p \in Arp /\ {m.from} \in SUBSET Host /\ w \in Mail
    BY <1>0, WithoutEffect DEF Mail, Arp
  <2>4. k \in {w, Sends(w, h, p, {m.from})}
    BY DEF KernelAnswers
  <2> HIDE DEF d, p, w
  <2>5. k \in Mail
    <3>1. Sends(w, h, p, {m.from}) \in Mail
      BY <2>3, SendsEffect
    <3>2. QED
      BY <2>3, <2>4, <3>1
  <2>6. Becomes(h, d, k)
    BY <2>1 DEF d
  <2> HIDE DEF k
  <2>7. QED
    BY <2>2, <2>5, <2>6, BaseStep
<1>5. ASSUME NEW h \in Host, Lose(h)
      PROVE  LinkInv' /\ HostInv'
  <2>1. inbox' \in Mail
    BY <1>0, <1>5, WithoutEffect DEF Lose
  <2>2. faults' \in Nat /\ faults' <= MaxFaults
    BY <1>5, Constant DEF Lose, LinkInv
  <2>3. QED
    BY <1>5, <2>1, <2>2 DEF Lose, LinkInv, HostInv
<1>6. ASSUME NEW h \in Host, Traffic(h)
      PROVE  LinkInv' /\ HostInv'
  <2>1. PICK a \in Addr : inbox' = Sends(inbox, h, [spa |-> client[h].requested_ip, tpa |-> a], Host)
    BY <1>6 DEF Traffic
  <2> DEFINE p == [spa |-> client[h].requested_ip, tpa |-> a]
  <2>2. p \in Arp /\ Host \in SUBSET Host
    BY DEF LinkInv, Client, Arp
  <2> HIDE DEF p
  <2>3. Sends(inbox, h, p, Host) \in Mail
    BY <1>0, <2>2, SendsEffect
  <2>4. QED
    BY <1>6, <2>1, <2>3 DEF p, Traffic, LinkInv, HostInv
<1>7. CASE Join \/ UNCHANGED vars
  BY <1>7 DEF Join, vars, LinkInv, HostInv
<1>8. ASSUME NEW h \in Host, ListenerError(h)
      PROVE  LinkInv' /\ HostInv'
  <2>1. faults' \in Nat /\ faults' <= MaxFaults
    BY <1>8, Constant DEF ListenerError, LinkInv
  <2>2. QED
    BY <1>8, <2>1 DEF ListenerError, LinkInv, HostInv
<1>9. QED
  BY <1>1, <1>2, <1>3, <1>4, <1>5, <1>6, <1>7, <1>8, TickBase DEF Next

-----------------------------------------------------------------------------
\* g_timeout_add and g_source_remove: a client keeps the timer of its state and
\* no other, however many packets are lost and sockets not made or failing.
THEOREM OneTimerHolds == Spec => []OneTimer
<1>1. Init => LinkInv /\ HostInv
  BY Initial DEF IInv
<1>2. LinkInv /\ HostInv /\ [Next]_vars => LinkInv' /\ HostInv'
  BY BaseInductive
<1>3. LinkInv /\ HostInv => OneTimer
  BY DEF LinkInv, HostInv, Good, Fits, OneTimer, Live
<1>4. QED
  BY <1>1, <1>2, <1>3, PTL DEF Spec

\* The invariant holds of every state that the hosts reach.
THEOREM Invariant ==
  ASSUME FewFaults
  PROVE  Spec => []IInv
<1>1. Init => IInv
  BY Initial
<1>2. IInv /\ [Next]_vars => IInv'
  BY Inductive
<1>3. QED
  BY <1>1, <1>2, PTL DEF Spec

\* ipv4ll_probe_timeout: PROBE_NUM probes are enough for any number of hosts that
\* start, stop and collide in any order, if fewer packets are lost, as long as no
\* client was without its ARP socket.
THEOREM UniqueHolds ==
  ASSUME FewFaults
  PROVE  Spec => []Unique
<1>1. IInv => Unique
  <2> SUFFICES ASSUME IInv, Reliable, NEW g \in Host, NEW h \in Host, Duplicate(g, h)
               PROVE  FALSE
    BY DEF Unique
  <2>1. Done(client[g]) /\ Done(client[h])
    BY DEF IInv, HostInv, Good, Fits, Duplicate, Configured, Done, Listening
  <2>2. QED
    BY <2>1, DoneUnique DEF Duplicate
<1>2. QED
  BY Invariant, <1>1, PTL

\* ipv4ll_recv_arp_packet: nobody takes an address from the host that uses it, as
\* long as no client was without its ARP socket.
THEOREM IncumbentHolds ==
  ASSUME FewFaults
  PROVE  Spec => Incumbent
<1> DEFINE Keeps == \A h \in Host : Reliable /\ Configured(client[h]) =>
                      Configured(client'[h]) \/ client'[h].state = "RELEASED"
<1>1. IInv /\ [Next]_vars => [Keeps]_vars
  BY IncumbentStep
<1>2. Incumbent <=> [][Keeps]_vars
  BY DEF Incumbent
<1> HIDE DEF Keeps
<1>3. QED
  BY Invariant, <1>1, <1>2, PTL DEF Spec

=============================================================================

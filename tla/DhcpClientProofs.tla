-------------------------- MODULE DhcpClientProofs --------------------------
(***************************************************************************)
(* Proofs about DhcpClient.  The handlers of client.c call each other, so  *)
(* each has a lemma that says what it makes of the client's record; those  *)
(* of a timer's callback and of a packet have the form Handled(c, d).  The *)
(* inductive invariant IInv then needs one step per action.  It adds to    *)
(* the properties what they rest on: the retries that a timer may still    *)
(* count, and for the lease the time until the timer is due and what is    *)
(* left of the lease then.                                                 *)
(***************************************************************************)
EXTENDS DhcpClient, TLAPS

Fn == {"none", "stale", "discover_timeout", "request_timeout", "start_rebound_timeout",
       "start_renew_request_timeout", "start_renew_timeout", "restart_dhcp_timeout"}

Timer == [fn : Fn, left : Nat]

Mode == {"L_NONE", "L2", "L3"}

\* struct _GDHCPClient
Client ==
  [state : States, mode : Mode, watch : BOOLEAN, retry_times : Nat, ack_retry_times : Nat,
   requested_ip : Addr \cup {None}, assigned_ip : Addr \cup {None}, lease_seconds : Nat,
   timer : Timer, leaked : SUBSET Timer, asked : SUBSET Addr,
   sent : {"none", "DISCOVER", "SELECT", "RENEW", "REBIND", "RELEASE"},
   cb : {"none", "lease", "no_lease"}]

Field == {"state", "mode", "watch", "retry_times", "ack_retry_times", "requested_ip", "assigned_ip",
          "lease_seconds", "timer", "leaked", "asked", "sent", "cb"}

\* The fields that two records share, but for those of F.
Same(c, d, F) == \A f \in Field \ F : d[f] = c[f]

\* What Listens says of a client in any state.
Hears(c) == c.mode \in Modes(c.state) /\ (c.state # "BOUND" => c.watch = TRUE)

\* What is true of the client's record whatever the daemon does: one timer, of
\* this state, with the retries and the lease time that its callback relies on.
Good(c) ==
  /\ c \in Client
  /\ c.leaked = {}
  /\ Live(c.timer) => c.timer.fn \in Timers(c.state)
  /\ c.state = "REQUESTING" => c.requested_ip \in Addr
  /\ c.retry_times <= DISCOVER_RETRIES + REQUEST_RETRIES
  /\ c.timer.fn = "discover_timeout" => c.retry_times < DISCOVER_RETRIES
  /\ c.timer.fn = "request_timeout" => c.retry_times < REQUEST_RETRIES
  /\ c.ack_retry_times <= DISCOVER_RETRIES
  /\ c.lease_seconds <= LEASE_LIMIT
  /\ c.state = "BOUND" => c.lease_seconds >= MIN_LEASE
  /\ c.state = "REBINDING" => c.lease_seconds >= 1
  /\ Leased(c) => c.assigned_ip \in Addr

-----------------------------------------------------------------------------
\* The assumptions on the constants, one by one.
LEMMA Constant ==
  /\ {DISCOVER_TIMEOUT, DISCOVER_RETRIES, REQUEST_TIMEOUT, REQUEST_RETRIES,
      NAK_DELAY, LEASE_LIMIT, MIN_LEASE, DEFAULT_LEASE, RENEW_MIN, REBIND_MIN} \subseteq Nat
  /\ DISCOVER_RETRIES > 0 /\ REQUEST_RETRIES > 0 /\ NAK_DELAY > 0
  /\ 2 <= REBIND_MIN /\ REBIND_MIN < MIN_LEASE /\ MIN_LEASE < LEASE_LIMIT
  /\ DEFAULT_LEASE < LEASE_LIMIT /\ MIN_LEASE <= DEFAULT_LEASE
  /\ REQUEST_TIMEOUT <= RENEW_MIN
BY ClientAssumption

\* switch_listening_mode changes the socket only, and opens it if the interface is up.
LEMMA SwitchEffect ==
  ASSUME NEW c \in Client, NEW m \in Mode
  PROVE  LET d == switch_listening_mode(c, m)
         IN  /\ d \in Client /\ Same(c, d, {"mode", "watch"})
             /\ m = "L_NONE" \/ up => d.mode = m
             /\ up /\ m # "L_NONE" /\ (c.mode = m => c.watch = TRUE) => d.watch = TRUE
<1> DEFINE d == switch_listening_mode(c, m)
<1>1. CASE c.mode = m
  <2>1. d = c
    BY <1>1 DEF switch_listening_mode
  <2>2. QED
    BY <1>1, <2>1 DEF Same
<1>2. CASE c.mode # m /\ (m = "L_NONE" \/ ~up)
  <2> DEFINE e == [c EXCEPT !.mode = "L_NONE", !.watch = FALSE]
  <2>1. d = e
    BY <1>2 DEF switch_listening_mode
  <2>2. e \in Client /\ e.mode = "L_NONE" /\ Same(c, e, {"mode", "watch"})
    BY DEF Client, Mode, Same, Field
  <2>3. QED
    BY <1>2, <2>1, <2>2
<1>3. CASE c.mode # m /\ ~(m = "L_NONE" \/ ~up)
  <2> DEFINE e == [c EXCEPT !.mode = m, !.watch = TRUE]
  <2>1. d = e
    BY <1>3 DEF switch_listening_mode
  <2>2. e \in Client /\ e.mode = m /\ e.watch = TRUE /\ Same(c, e, {"mode", "watch"})
    BY DEF Client, Same, Field
  <2>3. QED
    BY <1>3, <2>1, <2>2
<1>4. QED
  BY <1>1, <1>2, <1>3

\* g_timeout_add, if no timer runs that would be lost.
LEMMA TimerAdded ==
  ASSUME NEW c \in Client, ~Live(c.timer), NEW fn \in Fn, NEW t \in Nat
  PROVE  LET d == g_timeout_add(c, fn, t)
         IN  /\ d \in Client /\ Same(c, d, {"timer"})
             /\ d.timer = [fn |-> fn, left |-> t]
<1> DEFINE e == [c EXCEPT !.leaked = c.leaked, !.timer = [fn |-> fn, left |-> t]]
<1>1. g_timeout_add(c, fn, t) = e
  BY DEF g_timeout_add
<1>2. e \in Client /\ e.timer = [fn |-> fn, left |-> t] /\ Same(c, e, {"timer"})
  BY DEF Client, Timer, Same, Field
<1>3. QED
  BY <1>1, <1>2

\* g_source_remove.
LEMMA TimerRemoved ==
  ASSUME NEW c \in Client
  PROVE  LET d == g_source_remove(c)
         IN  d \in Client /\ Same(c, d, {"timer"}) /\ d.timer = NoTimer /\ ~Live(d.timer)
<1> DEFINE e == [c EXCEPT !.timer = NoTimer]
<1>1. NoTimer \in Timer /\ ~Live(NoTimer)
  BY DEF NoTimer, Timer, Fn, Live
<1>2. e \in Client /\ e.timer = NoTimer /\ Same(c, e, {"timer"})
  BY <1>1 DEF Client, Same, Field
<1>3. QED
  BY <1>1, <1>2 DEF g_source_remove

-----------------------------------------------------------------------------
\* A client that begins to look for a server, or has tried often enough.
LEMMA StartEffect ==
  ASSUME NEW c, Good(c), ~Live(c.timer), c.state = "INIT_SELECTING",
         c.retry_times <= DISCOVER_RETRIES, c.cb = "none"
  PROVE  LET d == g_dhcp_client_start(c)
         IN  /\ Good(d) /\ d.state = "INIT_SELECTING"
             /\ d.ack_retry_times = c.ack_retry_times
             /\ d.cb = IF c.retry_times = DISCOVER_RETRIES THEN "no_lease" ELSE "none"
             /\ Live(d.timer) => d.timer.fn = "discover_timeout"
             /\ up /\ d.cb = "none" /\ (Hears(c) \/ (c.retry_times = 0 /\ c.mode = "L_NONE")) =>
                  Live(d.timer) /\ Hears(d)
<1> DEFINE d == g_dhcp_client_start(c)
           t == [fn |-> "discover_timeout", left |-> DISCOVER_TIMEOUT]
<1>0. /\ c \in Client /\ c.retry_times \in Nat /\ DISCOVER_TIMEOUT \in Nat
      /\ DISCOVER_RETRIES \in Nat /\ DISCOVER_RETRIES > 0 /\ REQUEST_RETRIES \in Nat
      /\ "discover_timeout" \in Fn
  BY Constant DEF Good, Client, Fn
<1>t. Live(t) /\ t.fn = "discover_timeout" /\ t.fn \in Timers("INIT_SELECTING")
  BY DEF Live, Timers
<1> HIDE DEF t
<1>1. CASE c.retry_times = DISCOVER_RETRIES
  <2> DEFINE e == [c EXCEPT !.cb = "no_lease", !.retry_times = 0]
  <2>1. d = e
    BY <1>1 DEF g_dhcp_client_start, no_lease_cb
  <2>2. e \in Client /\ e.cb = "no_lease" /\ e.retry_times = 0 /\ Same(c, e, {"cb", "retry_times"})
    BY <1>0 DEF Client, Same, Field
  <2> HIDE DEF e
  <2>3. Good(e)
    BY <1>0, <2>2 DEF Good, Same, Field, Leased, Live
  <2>4. QED
    BY <1>1, <2>1, <2>2, <2>3 DEF Same, Field
<1>2. CASE c.retry_times # DISCOVER_RETRIES /\ c.retry_times # 0
  <2> DEFINE e == [c EXCEPT !.sent = "DISCOVER"]
  <2>1. e \in Client /\ Same(c, e, {"sent"})
    BY <1>0 DEF Client, Same, Field
  <2>2. d = g_timeout_add(e, "discover_timeout", DISCOVER_TIMEOUT)
    BY <1>2 DEF g_dhcp_client_start, send_discover
  <2> HIDE DEF e, d
  <2>3. d \in Client /\ Same(e, d, {"timer"}) /\ d.timer = t
    <3>1. ~Live(e.timer)
      BY <2>1 DEF Same, Field
    <3>2. QED
      BY <1>0, <2>1, <2>2, <3>1, TimerAdded DEF t
  <2>4. Same(c, d, {"timer", "sent"})
    BY <2>1, <2>3 DEF Same, Field
  <2>5. Good(d)
    BY <1>0, <1>t, <1>2, <2>3, <2>4 DEF Good, Same, Field, Leased
  <2>6. QED
    BY <1>t, <1>2, <2>3, <2>4, <2>5 DEF Same, Field, Hears, Modes, d
<1>3. CASE c.retry_times # DISCOVER_RETRIES /\ c.retry_times = 0
  <2> DEFINE e == [c EXCEPT !.assigned_ip = None, !.state = "INIT_SELECTING"]
             r == switch_listening_mode(e, "L2")
             f == [r EXCEPT !.asked = {}]
             g == [f EXCEPT !.sent = "DISCOVER"]
  <2>1. e \in Client /\ e.state = "INIT_SELECTING" /\ Same(c, e, {"assigned_ip", "state"})
    BY <1>0 DEF Client, Same, Field, States
  <2>2. d = IF r.mode # "L2" THEN r ELSE g_timeout_add(g, "discover_timeout", DISCOVER_TIMEOUT)
    BY <1>3 DEF g_dhcp_client_start, send_discover, Restarted
  <2> HIDE DEF e
  <2>3. /\ r \in Client /\ Same(e, r, {"mode", "watch"})
        /\ up => r.mode = "L2"
        /\ up /\ (e.mode = "L2" => e.watch = TRUE) => r.watch = TRUE
    <3>1. "L2" \in Mode /\ "L2" # "L_NONE"
      BY DEF Mode
    <3>2. QED
      BY <2>1, <3>1, SwitchEffect
  <2> HIDE DEF r, d
  <2>4. /\ Same(c, r, {"mode", "watch", "assigned_ip", "state"}) /\ r.state = "INIT_SELECTING"
        /\ (e.mode = "L2" => e.watch = TRUE) <=> (c.mode = "L2" => c.watch = TRUE)
    BY <2>1, <2>3 DEF Same, Field
  <2>5. Good(r)
    BY <1>0, <2>3, <2>4 DEF Good, Same, Field, Leased
  <2>6. (Hears(c) \/ c.mode = "L_NONE") => (c.mode = "L2" => c.watch = TRUE)
    BY DEF Hears
  <2>7. CASE r.mode # "L2"
    <3>1. d = r /\ ~up
      BY <2>2, <2>3, <2>7
    <3>2. ~Live(d.timer) /\ d.ack_retry_times = c.ack_retry_times /\ d.cb = "none"
      BY <2>4, <3>1 DEF Same, Field
    <3>3. QED
      BY <1>3, <2>4, <2>5, <3>1, <3>2 DEF d
  <2>8. CASE r.mode = "L2"
    <3>1. f \in Client /\ Same(r, f, {"asked"})
      BY <2>3 DEF Client, Same, Field
    <3> HIDE DEF f
    <3>2. g \in Client /\ Same(f, g, {"sent"})
      BY <3>1 DEF Client, Same, Field
    <3> HIDE DEF g
    <3>3. ~Live(g.timer)
      BY <2>4, <3>1, <3>2 DEF Same, Field
    <3>4. d \in Client /\ Same(g, d, {"timer"}) /\ d.timer = t
      BY <1>0, <2>2, <2>8, <3>2, <3>3, TimerAdded DEF t
    <3>5. Same(r, d, {"asked", "sent", "timer"})
      BY <3>1, <3>2, <3>4 DEF Same, Field
    <3>6. Good(d)
      BY <1>0, <1>t, <1>3, <2>4, <2>5, <3>4, <3>5 DEF Good, Same, Field, Leased
    <3>7. d.state = "INIT_SELECTING" /\ d.ack_retry_times = c.ack_retry_times /\ d.cb = "none"
      BY <2>4, <3>5 DEF Same, Field
    <3>8. d.mode = "L2" /\ d.watch = r.watch
      BY <2>8, <3>5 DEF Same, Field
    <3>9. d.watch = TRUE => Hears(d)
      BY <3>7, <3>8 DEF Hears, Modes
    <3>10. QED
      BY <1>t, <1>3, <2>3, <2>4, <2>6, <3>4, <3>6, <3>7, <3>8, <3>9 DEF d
  <2>9. QED
    BY <2>7, <2>8
<1>4. QED
  BY <1>1, <1>2, <1>3

\* The part of the lease that is left when the timer fires.
Rest(c) == IF c.state = "RENEWING" THEN 1 ELSE c.lease_seconds - c.lease_seconds \div 2

\* What a handler makes of the record c, of which the timer has ended or is
\* replaced: as long as it does not give up it has a timer and listens, and the
\* timer leaves part of what was left of the lease.
Handled(c, d) ==
  /\ Good(d)
  /\ d.cb = "no_lease" \/ (Leased(d) => Live(d.timer))
  /\ up /\ Hears(c) => d.cb = "no_lease" \/ (Live(d.timer) /\ Hears(d))
  /\ d.timer.fn = "restart_dhcp_timeout" => d.timer.left > 0
  /\ Leased(d) /\ d.cb = "none" =>
       /\ Leased(c) /\ d.assigned_ip = c.assigned_ip
       /\ d.timer.fn # "restart_dhcp_timeout" => d.timer.left + Rest(d) <= Rest(c)
  /\ d.cb = "lease" => /\ d.state = "BOUND"
                       /\ d.timer.fn = "start_renew_timeout"
                       /\ d.timer.left + Rest(d) = d.lease_seconds

\* A record of which no lease is claimed.
LEMMA HandledUnleased ==
  ASSUME NEW c, NEW d, Good(d), ~Leased(d), d.cb \in {"none", "no_lease"},
         d.timer.fn # "restart_dhcp_timeout",
         up /\ Hears(c) => d.cb = "no_lease" \/ (Live(d.timer) /\ Hears(d))
  PROVE  Handled(c, d)
BY DEF Handled

\* discover_timeout: once more, or the end.
LEMMA DiscoverTimeoutEffect ==
  ASSUME NEW c, Good(c), ~Live(c.timer), c.state = "INIT_SELECTING",
         c.retry_times < DISCOVER_RETRIES, c.cb = "none"
  PROVE  LET d == discover_timeout(c)
         IN  Handled(c, d) /\ d.ack_retry_times = c.ack_retry_times
<1> DEFINE e == [c EXCEPT !.retry_times = c.retry_times + 1]
           d == g_dhcp_client_start(e)
<1>0. c.retry_times \in Nat /\ DISCOVER_RETRIES \in Nat /\ REQUEST_RETRIES \in Nat /\ c \in Client
  BY Constant DEF Good, Client
<1>1. e \in Client /\ e.retry_times = c.retry_times + 1 /\ Same(c, e, {"retry_times"})
  BY <1>0 DEF Client, Same, Field
<1>2. discover_timeout(c) = d
  BY DEF discover_timeout
<1> HIDE DEF e
<1>3. Good(e)
  BY <1>0, <1>1 DEF Good, Same, Field, Leased, Live
<1>4. /\ ~Live(e.timer) /\ e.state = "INIT_SELECTING" /\ e.retry_times <= DISCOVER_RETRIES
      /\ e.cb = "none" /\ (Hears(c) => Hears(e)) /\ e.ack_retry_times = c.ack_retry_times
  BY <1>0, <1>1 DEF Same, Field, Hears
<1>5. /\ Good(d) /\ d.state = "INIT_SELECTING"
      /\ d.ack_retry_times = e.ack_retry_times
      /\ d.cb \in {"none", "no_lease"}
      /\ Live(d.timer) => d.timer.fn = "discover_timeout"
      /\ up /\ d.cb = "none" /\ Hears(e) => Live(d.timer) /\ Hears(d)
  BY <1>3, <1>4, StartEffect
<1> HIDE DEF d
<1>6. Handled(c, d)
  <2>1. ~Leased(d) /\ d.timer.fn # "restart_dhcp_timeout"
    BY <1>5 DEF Leased, Live
  <2>2. QED
    BY <1>4, <1>5, <2>1, HandledUnleased
<1>7. QED
  BY <1>2, <1>4, <1>5, <1>6

\* What restart_dhcp needs of the record.
Restartable(c) ==
  /\ c \in Client
  /\ c.leaked = {}
  /\ c.ack_retry_times <= DISCOVER_RETRIES
  /\ c.lease_seconds <= LEASE_LIMIT

\* restart_dhcp, after a NAK or at the end of a lease.
LEMMA RestartEffect ==
  ASSUME NEW c, Restartable(c), c.cb = "none", NEW n \in Nat, n <= DISCOVER_RETRIES,
         NEW h, h = TRUE => (c.mode = "L2" => c.watch = TRUE)
  PROVE  LET d == restart_dhcp(c, n)
         IN  /\ Good(d) /\ d.state = "INIT_SELECTING"
             /\ d.ack_retry_times = c.ack_retry_times
             /\ d.cb = IF n = DISCOVER_RETRIES THEN "no_lease" ELSE "none"
             /\ Live(d.timer) => d.timer.fn = "discover_timeout"
             /\ up /\ d.cb = "none" /\ h = TRUE => Live(d.timer) /\ Hears(d)
<1> DEFINE q == g_source_remove(c)
           e == [q EXCEPT !.retry_times = n, !.requested_ip = None, !.state = "INIT_SELECTING"]
           r == switch_listening_mode(e, "L2")
           d == g_dhcp_client_start(r)
<1>0. c \in Client /\ DISCOVER_RETRIES \in Nat /\ REQUEST_RETRIES \in Nat
  BY Constant DEF Restartable
<1>1. q \in Client /\ Same(c, q, {"timer"}) /\ ~Live(q.timer) /\ q.timer.fn = "none"
  BY <1>0, TimerRemoved DEF NoTimer
<1>2. restart_dhcp(c, n) = d
  BY DEF restart_dhcp
<1> HIDE DEF q
<1>3. /\ e \in Client /\ e.retry_times = n /\ e.state = "INIT_SELECTING"
      /\ Same(q, e, {"retry_times", "requested_ip", "state"})
  BY <1>1 DEF Client, Same, Field, States
<1> HIDE DEF e
<1>4. /\ r \in Client /\ Same(e, r, {"mode", "watch"})
      /\ up => r.mode = "L2"
      /\ up /\ (e.mode = "L2" => e.watch = TRUE) => r.watch = TRUE
  <2>1. "L2" \in Mode /\ "L2" # "L_NONE"
    BY DEF Mode
  <2>2. QED
    BY <1>3, <2>1, SwitchEffect
<1> HIDE DEF r
<1>5. /\ Same(c, r, {"timer", "retry_times", "requested_ip", "state", "mode", "watch"})
      /\ r.retry_times = n /\ r.state = "INIT_SELECTING" /\ ~Live(r.timer) /\ r.timer.fn = "none"
      /\ e.mode = c.mode /\ e.watch = c.watch
  BY <1>1, <1>3, <1>4 DEF Same, Field
<1>6. Good(r)
  BY <1>0, <1>4, <1>5 DEF Restartable, Good, Same, Field, Leased
<1>7. up /\ h = TRUE => Hears(r)
  BY <1>4, <1>5 DEF Hears, Modes
<1>8. r.cb = "none" /\ r.ack_retry_times = c.ack_retry_times
  BY <1>5 DEF Same, Field
<1>9. /\ Good(d) /\ d.state = "INIT_SELECTING"
      /\ d.ack_retry_times = r.ack_retry_times
      /\ d.cb = IF r.retry_times = DISCOVER_RETRIES THEN "no_lease" ELSE "none"
      /\ Live(d.timer) => d.timer.fn = "discover_timeout"
      /\ up /\ d.cb = "none" /\ Hears(r) => Live(d.timer) /\ Hears(d)
  BY <1>5, <1>6, <1>8, StartEffect
<1>10. QED
  BY <1>2, <1>5, <1>7, <1>8, <1>9

\* restart_dhcp_timeout: the start after a NAK, of which there may be so many.
LEMMA RestartTimeoutEffect ==
  ASSUME NEW c, Good(c), ~Live(c.timer), c.cb = "none", c.ack_retry_times < DISCOVER_RETRIES,
         c.state \in {"REQUESTING", "RENEWING", "REBINDING"}
  PROVE  LET d == restart_dhcp_timeout(c)
         IN  /\ Handled(c, d) /\ ~Leased(d)
             /\ d.cb = "no_lease" \/ d.ack_retry_times < DISCOVER_RETRIES
<1> DEFINE n == c.ack_retry_times + 1
           e == [c EXCEPT !.ack_retry_times = n]
           d == restart_dhcp(e, n)
           h == Hears(c)
<1>0. c.ack_retry_times \in Nat /\ DISCOVER_RETRIES \in Nat /\ REQUEST_RETRIES \in Nat /\ c \in Client
  BY Constant DEF Good, Client
<1>1. n \in Nat /\ n <= DISCOVER_RETRIES
  BY <1>0
<1>2. e \in Client /\ e.ack_retry_times = n /\ Same(c, e, {"ack_retry_times"})
  BY <1>0, <1>1 DEF Client, Same, Field
<1>3. restart_dhcp_timeout(c) = d
  BY <1>2 DEF restart_dhcp_timeout
<1> HIDE DEF e, n
<1>4. Restartable(e) /\ e.cb = "none"
  BY <1>0, <1>1, <1>2 DEF Restartable, Good, Same, Field
<1>5. Hears(c) => e.watch = TRUE
  BY <1>2 DEF Hears, Same, Field
<1>6. /\ Good(d) /\ d.state = "INIT_SELECTING"
      /\ d.ack_retry_times = e.ack_retry_times
      /\ d.cb = IF n = DISCOVER_RETRIES THEN "no_lease" ELSE "none"
      /\ Live(d.timer) => d.timer.fn = "discover_timeout"
      /\ up /\ d.cb = "none" /\ Hears(c) => Live(d.timer) /\ Hears(d)
  BY <1>1, <1>4, <1>5, RestartEffect
<1> HIDE DEF d
<1>7. ~Leased(d) /\ d.timer.fn # "restart_dhcp_timeout"
  BY <1>6 DEF Leased, Live
<1>8. Handled(c, d)
  BY <1>6, <1>7, HandledUnleased
<1>9. QED
  BY <1>1, <1>0, <1>2, <1>3, <1>6, <1>7, <1>8

\* start_request, for the address of an offer.
LEMMA RequestEffect ==
  ASSUME NEW c, Good(c), ~Live(c.timer), c.cb = "none", c.state = "REQUESTING",
         c.retry_times <= REQUEST_RETRIES
  PROVE  LET d == start_request(c)
         IN  /\ Good(d) /\ d.state = "REQUESTING" /\ d.cb \in {"none", "no_lease"}
             /\ d.ack_retry_times = c.ack_retry_times
             /\ d.timer.fn # "restart_dhcp_timeout"
             /\ up /\ Hears(c) => d.cb = "no_lease" \/ (Live(d.timer) /\ Hears(d))
<1> DEFINE d == start_request(c)
           t == [fn |-> "request_timeout", left |-> REQUEST_TIMEOUT]
<1>0. /\ c \in Client /\ c.retry_times \in Nat /\ REQUEST_TIMEOUT \in Nat
      /\ DISCOVER_RETRIES \in Nat /\ REQUEST_RETRIES \in Nat /\ "request_timeout" \in Fn
      /\ c.requested_ip \in Addr
  BY Constant DEF Good, Client, Fn
<1>t. Live(t) /\ t.fn = "request_timeout" /\ t.fn \in Timers("REQUESTING")
  BY DEF Live, Timers
<1> HIDE DEF t
<1>1. CASE c.retry_times = REQUEST_RETRIES
  <2> DEFINE e == [c EXCEPT !.cb = "no_lease"]
  <2>1. d = e
    BY <1>1 DEF start_request, no_lease_cb
  <2>2. e \in Client /\ e.cb = "no_lease" /\ Same(c, e, {"cb"})
    BY <1>0 DEF Client, Same, Field
  <2> HIDE DEF e
  <2>3. Good(e)
    BY <1>0, <2>2 DEF Good, Same, Field, Leased, Live
  <2>4. QED
    BY <2>1, <2>2, <2>3 DEF Same, Field, Live
<1>2. CASE c.retry_times # REQUEST_RETRIES
  <2> DEFINE e == [c EXCEPT !.state = "REQUESTING"]
             q == IF c.retry_times = 0 THEN switch_listening_mode(e, "L2") ELSE c
             f == send_select(q)
  <2>1. e = c
    BY <1>0 DEF Client
  <2>2. d = g_timeout_add(f, "request_timeout", REQUEST_TIMEOUT)
    BY <1>2 DEF start_request
  <2> HIDE DEF e, d
  <2>3. /\ q \in Client /\ Same(c, q, {"mode", "watch"})
        /\ up /\ Hears(c) => q.mode = "L2" /\ q.watch = TRUE
    <3>1. Hears(c) => c.mode = "L2" /\ c.watch = TRUE
      BY DEF Hears, Modes
    <3>2. "L2" \in Mode /\ "L2" # "L_NONE"
      BY DEF Mode
    <3>3. CASE c.retry_times = 0
      BY <1>0, <2>1, <3>1, <3>2, <3>3, SwitchEffect
    <3>4. CASE c.retry_times # 0
      BY <1>0, <3>1, <3>4 DEF Same
    <3>5. QED
      BY <3>3, <3>4
  <2> HIDE DEF q
  <2>4. f \in Client /\ Same(q, f, {"sent", "asked"})
    <3> DEFINE a == q.asked \cup {q.requested_ip}
    <3>1. a \in SUBSET Addr
      BY <1>0, <2>3 DEF Client, Same, Field
    <3>2. f = [q EXCEPT !.sent = "SELECT", !.asked = a]
      BY <2>3 DEF send_select, Client
    <3> HIDE DEF a, f
    <3>3. QED
      BY <2>3, <3>1, <3>2 DEF Client, Same, Field
  <2> HIDE DEF f
  <2>5. ~Live(f.timer)
    BY <2>3, <2>4 DEF Same, Field
  <2>6. d \in Client /\ Same(f, d, {"timer"}) /\ d.timer = t
    BY <1>0, <2>2, <2>4, <2>5, TimerAdded DEF t
  <2>7. Same(c, d, {"mode", "watch", "sent", "asked", "timer"}) /\ d.mode = q.mode /\ d.watch = q.watch
    BY <2>3, <2>4, <2>6 DEF Same, Field
  <2>8. Good(d)
    BY <1>0, <1>t, <1>2, <2>6, <2>7 DEF Good, Same, Field, Leased
  <2>9. d.state = "REQUESTING" /\ d.cb = "none" /\ d.ack_retry_times = c.ack_retry_times
    BY <2>7 DEF Same, Field
  <2>10. up /\ Hears(c) => Hears(d)
    BY <2>3, <2>7, <2>9 DEF Hears, Modes
  <2>11. QED
    BY <1>t, <2>6, <2>8, <2>9, <2>10 DEF d
<1>3. QED
  BY <1>1, <1>2

\* request_timeout: once more, or the end.
LEMMA RequestTimeoutEffect ==
  ASSUME NEW c, Good(c), ~Live(c.timer), c.cb = "none", c.state = "REQUESTING",
         c.retry_times < REQUEST_RETRIES
  PROVE  LET d == request_timeout(c)
         IN  Handled(c, d) /\ d.ack_retry_times = c.ack_retry_times
<1> DEFINE e == [c EXCEPT !.retry_times = c.retry_times + 1]
           d == start_request(e)
<1>0. c.retry_times \in Nat /\ DISCOVER_RETRIES \in Nat /\ REQUEST_RETRIES \in Nat /\ c \in Client
  BY Constant DEF Good, Client
<1>1. e \in Client /\ e.retry_times = c.retry_times + 1 /\ Same(c, e, {"retry_times"})
  BY <1>0 DEF Client, Same, Field
<1>2. request_timeout(c) = d
  BY DEF request_timeout
<1> HIDE DEF e
<1>3. Good(e)
  BY <1>0, <1>1 DEF Good, Same, Field, Leased, Live
<1>4. /\ ~Live(e.timer) /\ e.state = "REQUESTING" /\ e.retry_times <= REQUEST_RETRIES
      /\ e.cb = "none" /\ (Hears(c) => Hears(e)) /\ e.ack_retry_times = c.ack_retry_times
  BY <1>0, <1>1 DEF Same, Field, Hears
<1>5. /\ Good(d) /\ d.state = "REQUESTING" /\ d.cb \in {"none", "no_lease"}
      /\ d.ack_retry_times = e.ack_retry_times
      /\ d.timer.fn # "restart_dhcp_timeout"
      /\ up /\ Hears(e) => d.cb = "no_lease" \/ (Live(d.timer) /\ Hears(d))
  BY <1>3, <1>4, RequestEffect
<1> HIDE DEF d
<1>6. Handled(c, d)
  <2>1. ~Leased(d)
    BY <1>5 DEF Leased
  <2>2. QED
    BY <1>4, <1>5, <2>1, HandledUnleased
<1>7. QED
  BY <1>2, <1>4, <1>5, <1>6

\* received_offer: the first offer ends the discovery.
LEMMA OfferEffect ==
  ASSUME NEW c, Good(c), c.cb = "none", c.state = "INIT_SELECTING", NEW p, p.yiaddr \in Addr
  PROVE  LET d == received_offer(c, p)
         IN  Handled(c, d) /\ d.ack_retry_times = c.ack_retry_times
<1> DEFINE q == g_source_remove(c)
           e == [q EXCEPT !.retry_times = 0, !.requested_ip = p.yiaddr, !.state = "REQUESTING"]
           d == start_request(e)
<1>0. c \in Client /\ DISCOVER_RETRIES \in Nat /\ REQUEST_RETRIES \in Nat
  BY Constant DEF Good
<1>1. q \in Client /\ Same(c, q, {"timer"}) /\ ~Live(q.timer) /\ q.timer.fn = "none"
  BY <1>0, TimerRemoved DEF NoTimer
<1>2. received_offer(c, p) = d
  BY DEF received_offer
<1> HIDE DEF q
<1>3. /\ e \in Client /\ e.retry_times = 0 /\ e.state = "REQUESTING" /\ e.requested_ip \in Addr
      /\ Same(q, e, {"retry_times", "requested_ip", "state"})
  BY <1>1 DEF Client, Same, Field, States
<1> HIDE DEF e
<1>4. /\ Same(c, e, {"timer", "retry_times", "requested_ip", "state"})
      /\ ~Live(e.timer) /\ e.timer.fn = "none"
  BY <1>1, <1>3 DEF Same, Field
<1>5. Good(e)
  BY <1>0, <1>3, <1>4 DEF Good, Same, Field, Leased
<1>6. /\ e.cb = "none" /\ (Hears(c) => Hears(e)) /\ e.ack_retry_times = c.ack_retry_times
  BY <1>3, <1>4 DEF Same, Field, Hears, Modes
<1>7. /\ Good(d) /\ d.state = "REQUESTING" /\ d.cb \in {"none", "no_lease"}
      /\ d.ack_retry_times = e.ack_retry_times
      /\ d.timer.fn # "restart_dhcp_timeout"
      /\ up /\ Hears(e) => d.cb = "no_lease" \/ (Live(d.timer) /\ Hears(d))
  BY <1>0, <1>3, <1>4, <1>5, <1>6, RequestEffect
<1> HIDE DEF d
<1>8. Handled(c, d)
  <2>1. ~Leased(d)
    BY <1>7 DEF Leased
  <2>2. QED
    BY <1>6, <1>7, <2>1, HandledUnleased
<1>9. QED
  BY <1>2, <1>6, <1>7, <1>8

\* Halves, as the lease times are halved.
LEMMA Halves ==
  ASSUME NEW n \in Nat
  PROVE  /\ n \div 2 \in Nat /\ n - n \div 2 \in Nat /\ n \div 2 <= n - n \div 2
         /\ n \div 2 + (n - n \div 2) = n
         /\ n \div 2 <= n /\ (n >= 2 => n \div 2 >= 1) /\ (n >= 1 => n - n \div 2 >= 1)
OBVIOUS

\* A handler that goes on with the lease the client has.
LEMMA HandledLeased ==
  ASSUME NEW c, NEW d, Good(d), Leased(c), d.assigned_ip = c.assigned_ip, d.cb = "none",
         Live(d.timer), d.timer.fn # "restart_dhcp_timeout",
         d.timer.left + Rest(d) <= Rest(c), up /\ Hears(c) => Hears(d)
  PROVE  Handled(c, d)
BY DEF Handled

\* start_rebound_timeout: half of the lease that is left, or a restart.
LEMMA ReboundTimeoutEffect ==
  ASSUME NEW c, Good(c), ~Live(c.timer), c.cb = "none", c.state = "REBINDING"
  PROVE  LET d == start_rebound_timeout(c)
         IN  Handled(c, d) /\ d.ack_retry_times = c.ack_retry_times
<1> DEFINE n == c.lease_seconds
           s == switch_listening_mode(c, "L2")
           e == [s EXCEPT !.lease_seconds = s.lease_seconds \div 2]
           d == start_rebound_timeout(c)
<1>0. /\ c \in Client /\ n \in Nat /\ n >= 1 /\ n <= LEASE_LIMIT
      /\ {DISCOVER_RETRIES, REQUEST_RETRIES, LEASE_LIMIT, REBIND_MIN} \subseteq Nat
      /\ DISCOVER_RETRIES > 0 /\ 2 <= REBIND_MIN
      /\ "start_rebound_timeout" \in Fn
  BY Constant DEF Good, Client, Fn
<1>1. /\ s \in Client /\ Same(c, s, {"mode", "watch"})
      /\ up => s.mode = "L2"
      /\ up /\ (c.mode = "L2" => c.watch = TRUE) => s.watch = TRUE
  <2>1. "L2" \in Mode /\ "L2" # "L_NONE"
    BY DEF Mode
  <2>2. QED
    BY <1>0, <2>1, SwitchEffect
<1>2. d = IF e.lease_seconds <= REBIND_MIN THEN restart_dhcp(e, 0)
          ELSE g_timeout_add(send_rebound(e), "start_rebound_timeout", e.lease_seconds \div 2)
  BY DEF start_rebound_timeout
<1> HIDE DEF s, d
<1>3. e \in Client /\ e.lease_seconds = n \div 2 /\ Same(s, e, {"lease_seconds"})
  <2> DEFINE m == n \div 2
  <2>1. m \in Nat
    BY <1>0, Halves
  <2>2. e = [s EXCEPT !.lease_seconds = m]
    BY <1>1 DEF Same, Field
  <2> HIDE DEF m
  <2>3. e \in Client /\ e.lease_seconds = m /\ Same(s, e, {"lease_seconds"})
    BY <1>1, <2>1, <2>2 DEF Client, Same, Field
  <2>4. QED
    BY <2>3 DEF m
<1> HIDE DEF e
<1>4. Same(c, e, {"mode", "watch", "lease_seconds"}) /\ e.mode = s.mode /\ e.watch = s.watch
  BY <1>1, <1>3 DEF Same, Field
<1>5. Hears(c) => c.watch = TRUE
  BY DEF Hears
<1>6. e.state = "REBINDING" /\ e.cb = "none" /\ ~Live(e.timer) /\ e.ack_retry_times = c.ack_retry_times
      /\ e.assigned_ip = c.assigned_ip /\ e.timer.fn = c.timer.fn
  BY <1>4 DEF Same, Field
<1>h. n \div 2 \in Nat /\ n \div 2 <= LEASE_LIMIT
  BY <1>0, Halves
<1>7. CASE e.lease_seconds <= REBIND_MIN
  <2>1. d = restart_dhcp(e, 0)
    BY <1>2, <1>7
  <2>2. /\ Good(d) /\ d.state = "INIT_SELECTING"
        /\ d.ack_retry_times = e.ack_retry_times
        /\ d.cb = "none"
        /\ Live(d.timer) => d.timer.fn = "discover_timeout"
        /\ up /\ Hears(c) => Live(d.timer) /\ Hears(d)
    <3>1. Restartable(e)
      BY <1>0, <1>h, <1>3, <1>4 DEF Restartable, Good, Same, Field
    <3>2. up /\ Hears(c) => e.watch = TRUE
      BY <1>1, <1>4, <1>5
    <3>3. 0 \in Nat /\ 0 <= DISCOVER_RETRIES /\ 0 # DISCOVER_RETRIES
      BY <1>0
    <3> HIDE DEF n
    <3>4. QED
      BY <1>6, <2>1, <3>1, <3>2, <3>3, RestartEffect
  <2>3. ~Leased(d) /\ d.timer.fn # "restart_dhcp_timeout"
    BY <2>2 DEF Leased, Live
  <2>4. Handled(c, d)
    BY <2>2, <2>3, HandledUnleased
  <2>5. QED
    BY <1>6, <2>2, <2>4 DEF d
<1>8. CASE ~(e.lease_seconds <= REBIND_MIN)
  <2> DEFINE f == send_rebound(e)
             k == n \div 2
             t == [fn |-> "start_rebound_timeout", left |-> k \div 2]
  <2>1. f \in Client /\ Same(e, f, {"sent"})
    BY <1>3 DEF send_rebound, Client, Same, Field
  <2>2. d = g_timeout_add(f, "start_rebound_timeout", k \div 2)
    BY <1>2, <1>3, <1>8
  <2> HIDE DEF f
  <2>3. k \in Nat /\ k >= 1 /\ k \div 2 \in Nat /\ k \div 2 + (k - k \div 2) = k /\ k <= n - n \div 2
    <3>1. k \in Nat /\ k <= n - n \div 2 /\ k > REBIND_MIN
      BY <1>0, <1>3, <1>8, Halves
    <3> HIDE DEF k
    <3>2. k >= 1
      BY <1>0, <3>1
    <3>3. k \div 2 \in Nat /\ k \div 2 + (k - k \div 2) = k
      BY <3>1, Halves
    <3>4. QED
      BY <3>1, <3>2, <3>3
  <2>4. d \in Client /\ Same(f, d, {"timer"}) /\ d.timer = t
    <3>1. ~Live(f.timer)
      BY <1>6, <2>1 DEF Same, Field
    <3>2. QED
      BY <1>0, <2>1, <2>2, <2>3, <3>1, TimerAdded
  <2>5. /\ Same(c, d, {"mode", "watch", "lease_seconds", "sent", "timer"})
        /\ d.lease_seconds = k /\ d.mode = e.mode /\ d.watch = e.watch
    BY <1>3, <1>4, <2>1, <2>4 DEF Same, Field
  <2>6. Live(t) /\ t.fn = "start_rebound_timeout" /\ t.fn \in Timers("REBINDING") /\ t.left = k \div 2
    BY DEF Live, Timers
  <2>7. d.state = "REBINDING" /\ d.cb = "none" /\ d.assigned_ip = c.assigned_ip
        /\ d.ack_retry_times = c.ack_retry_times
    BY <2>5 DEF Same, Field
  <2> HIDE DEF t, k
  <2>8. k <= LEASE_LIMIT
    BY <1>h DEF k
  <2>9. Good(d)
    BY <1>0, <2>3, <2>4, <2>5, <2>6, <2>7, <2>8 DEF Good, Same, Field, Leased
  <2>10. d.timer.left + Rest(d) <= Rest(c)
    <3>1. Rest(d) = k - k \div 2 /\ Rest(c) = n - n \div 2
      BY <2>5, <2>7 DEF Rest
    <3>2. QED
      BY <1>0, <2>3, <2>4, <2>6, <3>1
  <2>11. up /\ Hears(c) => Hears(d)
    BY <1>1, <1>4, <1>5, <2>5, <2>7 DEF Hears, Modes
  <2>12. Handled(c, d)
    <3>1. Leased(c) /\ Live(d.timer) /\ d.timer.fn # "restart_dhcp_timeout"
      BY <2>4, <2>6 DEF Leased
    <3>2. QED
      BY <2>7, <2>9, <2>10, <2>11, <3>1, HandledLeased
  <2>13. QED
    BY <2>7, <2>12 DEF d
<1>9. QED
  BY <1>7, <1>8

\* start_renew_timeout: the lease is renewed, or rebound if too little of it is left.
LEMMA RenewTimeoutEffect ==
  ASSUME NEW c, Good(c), ~Live(c.timer), c.cb = "none", c.state = "BOUND"
  PROVE  LET d == start_renew_timeout(c)
         IN  Handled(c, d) /\ d.ack_retry_times = c.ack_retry_times
<1> DEFINE n == c.lease_seconds
           m == n \div 2
           b == [c EXCEPT !.state = "RENEWING", !.lease_seconds = m]
           e == switch_listening_mode(b, "L3")
           d == start_renew_timeout(c)
<1>0. /\ c \in Client /\ n \in Nat /\ n >= MIN_LEASE /\ n <= LEASE_LIMIT
      /\ {DISCOVER_RETRIES, REQUEST_RETRIES, LEASE_LIMIT, MIN_LEASE, REBIND_MIN, RENEW_MIN,
          REQUEST_TIMEOUT} \subseteq Nat
      /\ 2 <= REBIND_MIN /\ REBIND_MIN < MIN_LEASE /\ REQUEST_TIMEOUT <= RENEW_MIN
      /\ "start_rebound_timeout" \in Fn /\ "start_renew_request_timeout" \in Fn
  BY Constant DEF Good, Client, Fn
<1>1. d = IF e.lease_seconds <= RENEW_MIN THEN start_rebound(e)
          ELSE g_timeout_add(g_source_remove(send_renew(e)), "start_renew_request_timeout", REQUEST_TIMEOUT)
  BY DEF start_renew_timeout
<1>2. m \in Nat /\ m >= 1 /\ m <= n - m /\ m <= LEASE_LIMIT
  <2> HIDE DEF n
  <2>1. n \in Nat /\ n >= 2 /\ n <= LEASE_LIMIT /\ LEASE_LIMIT \in Nat
    BY <1>0
  <2>2. m \in Nat /\ m >= 1 /\ m <= n - m /\ m <= n
    BY <2>1, Halves
  <2> HIDE DEF m
  <2>3. QED
    BY <2>1, <2>2
<1> HIDE DEF n, m, d
<1>3. b \in Client /\ b.state = "RENEWING" /\ b.lease_seconds = m /\ Same(c, b, {"state", "lease_seconds"})
  BY <1>0, <1>2 DEF Client, Same, Field, States
<1> HIDE DEF b
<1>4. /\ e \in Client /\ Same(b, e, {"mode", "watch"})
      /\ up => e.mode = "L3"
      /\ up /\ (b.mode = "L3" => b.watch = TRUE) => e.watch = TRUE
  <2>1. "L3" \in Mode /\ "L3" # "L_NONE"
    BY DEF Mode
  <2>2. QED
    BY <1>3, <2>1, SwitchEffect
<1> HIDE DEF e
<1>5. /\ Same(c, e, {"state", "lease_seconds", "mode", "watch"})
      /\ e.state = "RENEWING" /\ e.lease_seconds = m /\ ~Live(e.timer)
  BY <1>3, <1>4 DEF Same, Field
<1>6. up /\ Hears(c) => e.mode = "L3" /\ e.watch = TRUE
  <2>1. b.mode = c.mode
    BY <1>3 DEF Same, Field
  <2>2. Hears(c) => c.mode = "L_NONE"
    BY DEF Hears, Modes
  <2>3. QED
    BY <1>4, <2>1, <2>2
<1>7. Rest(c) = n - m /\ Leased(c)
  BY DEF Rest, Leased, n, m
<1>8. CASE m <= RENEW_MIN
  <2> DEFINE f == [e EXCEPT !.state = "REBINDING"]
             t == [fn |-> "start_rebound_timeout", left |-> m \div 2]
  <2>1. f \in Client /\ f.state = "REBINDING" /\ Same(e, f, {"state"})
    BY <1>4 DEF Client, Same, Field, States
  <2>2. d = g_timeout_add(f, "start_rebound_timeout", m \div 2)
    BY <1>1, <1>5, <1>8 DEF start_rebound
  <2> HIDE DEF f
  <2>3. m \div 2 \in Nat /\ m \div 2 + (m - m \div 2) = m
    BY <1>2, Halves
  <2>4. d \in Client /\ Same(f, d, {"timer"}) /\ d.timer = t
    <3>1. ~Live(f.timer)
      BY <1>5, <2>1 DEF Same, Field
    <3>2. QED
      BY <1>0, <2>1, <2>2, <2>3, <3>1, TimerAdded
  <2>5. /\ Same(c, d, {"state", "lease_seconds", "mode", "watch", "timer"})
        /\ d.state = "REBINDING" /\ d.lease_seconds = m /\ d.mode = e.mode /\ d.watch = e.watch
    BY <1>5, <2>1, <2>4 DEF Same, Field
  <2>6. Live(t) /\ t.fn = "start_rebound_timeout" /\ t.fn \in Timers("REBINDING") /\ t.left = m \div 2
    BY DEF Live, Timers
  <2> HIDE DEF t
  <2>7. d.cb = "none" /\ d.assigned_ip = c.assigned_ip /\ d.ack_retry_times = c.ack_retry_times
    BY <2>5 DEF Same, Field
  <2>8. Good(d)
    BY <1>0, <1>2, <2>4, <2>5, <2>6 DEF Good, Same, Field, Leased
  <2>9. d.timer.left + Rest(d) <= Rest(c)
    <3>1. Rest(d) = m - m \div 2
      BY <2>5 DEF Rest
    <3>2. QED
      BY <1>2, <1>7, <2>3, <2>4, <2>6, <3>1
  <2>10. up /\ Hears(c) => Hears(d)
    BY <1>6, <2>5 DEF Hears, Modes
  <2>11. Handled(c, d)
    BY <1>7, <2>4, <2>6, <2>7, <2>8, <2>9, <2>10, HandledLeased
  <2>12. QED
    BY <2>7, <2>11 DEF d
<1>9. CASE ~(m <= RENEW_MIN)
  <2> DEFINE f == send_renew(e)
             g == g_source_remove(f)
             t == [fn |-> "start_renew_request_timeout", left |-> REQUEST_TIMEOUT]
  <2>1. f \in Client /\ Same(e, f, {"sent"})
    BY <1>4 DEF send_renew, Client, Same, Field
  <2>2. d = g_timeout_add(g, "start_renew_request_timeout", REQUEST_TIMEOUT)
    BY <1>1, <1>5, <1>9
  <2> HIDE DEF f
  <2>3. g \in Client /\ Same(f, g, {"timer"}) /\ ~Live(g.timer)
    BY <2>1, TimerRemoved
  <2> HIDE DEF g
  <2>4. d \in Client /\ Same(g, d, {"timer"}) /\ d.timer = t
    BY <1>0, <2>2, <2>3, TimerAdded
  <2>5. /\ Same(c, d, {"state", "lease_seconds", "mode", "watch", "timer", "sent"})
        /\ d.state = "RENEWING" /\ d.lease_seconds = m /\ d.mode = e.mode /\ d.watch = e.watch
    BY <1>5, <2>1, <2>3, <2>4 DEF Same, Field
  <2>6. /\ Live(t) /\ t.fn = "start_renew_request_timeout" /\ t.fn \in Timers("RENEWING")
        /\ t.left = REQUEST_TIMEOUT
    BY DEF Live, Timers
  <2> HIDE DEF t
  <2>7. d.cb = "none" /\ d.assigned_ip = c.assigned_ip /\ d.ack_retry_times = c.ack_retry_times
    BY <2>5 DEF Same, Field
  <2>8. Good(d)
    BY <1>0, <1>2, <2>4, <2>5, <2>6 DEF Good, Same, Field, Leased
  <2>9. d.timer.left + Rest(d) <= Rest(c)
    <3>1. Rest(d) = 1
      BY <2>5 DEF Rest
    <3>2. QED
      BY <1>0, <1>2, <1>7, <1>9, <2>4, <2>6, <3>1
  <2>10. up /\ Hears(c) => Hears(d)
    BY <1>6, <2>5 DEF Hears, Modes
  <2>11. Handled(c, d)
    BY <1>7, <2>4, <2>6, <2>7, <2>8, <2>9, <2>10, HandledLeased
  <2>12. QED
    BY <2>7, <2>11 DEF d
<1>10. QED
  BY <1>8, <1>9

\* start_renew_request_timeout: nobody answered, and the client gives up.
LEMMA RenewRequestTimeoutEffect ==
  ASSUME NEW c, Good(c), ~Live(c.timer)
  PROVE  LET d == start_renew_request_timeout(c)
         IN  Handled(c, d) /\ d.cb = "no_lease" /\ d.ack_retry_times = c.ack_retry_times
<1> DEFINE d == [c EXCEPT !.cb = "no_lease"]
<1>1. d \in Client /\ d.cb = "no_lease" /\ Same(c, d, {"cb"})
  BY DEF Good, Client, Same, Field
<1>2. start_renew_request_timeout(c) = d
  BY DEF start_renew_request_timeout, no_lease_cb
<1> HIDE DEF d
<1>3. Good(d) /\ ~Live(d.timer)
  BY <1>1 DEF Good, Same, Field, Leased
<1>4. d.timer.fn # "restart_dhcp_timeout"
  BY <1>3 DEF Live
<1>5. Handled(c, d)
  BY <1>1, <1>3, <1>4 DEF Handled
<1>6. QED
  BY <1>1, <1>2, <1>5 DEF Same, Field

-----------------------------------------------------------------------------
\* get_lease cuts what it reads to a range in which it can be halved.
LEMMA LeaseRange ==
  ASSUME NEW p, p.lease \in LeaseTime \cup {None}
  PROVE  get_lease(p) \in Nat /\ get_lease(p) >= MIN_LEASE /\ get_lease(p) < LEASE_LIMIT
<1>0. /\ {LEASE_LIMIT, MIN_LEASE, DEFAULT_LEASE} \subseteq Nat /\ LEASE_LIMIT > 0
      /\ MIN_LEASE < LEASE_LIMIT /\ DEFAULT_LEASE < LEASE_LIMIT /\ MIN_LEASE <= DEFAULT_LEASE
  BY ClientAssumption
<1>1. CASE p.lease = None
  BY <1>0, <1>1 DEF get_lease
<1>2. CASE p.lease # None
  <2> DEFINE l == p.lease
             r == l % LEASE_LIMIT
  <2>1. l \in Nat
    BY <1>2, ClientAssumption
  <2> HIDE DEF l
  <2>2. r \in Nat /\ r < LEASE_LIMIT
    BY <1>0, <2>1
  <2>3. get_lease(p) = IF r < MIN_LEASE THEN MIN_LEASE ELSE r
    BY <1>2 DEF get_lease, l
  <2> HIDE DEF r
  <2>4. QED
    BY <1>0, <2>2, <2>3
<1>3. QED
  BY <1>1, <1>2

\* received_ack: the address is bound, and its lease lasts for the time that the
\* timer runs and the rest of it.
LEMMA AckEffect ==
  ASSUME NEW c, Good(c), c.cb = "none",
         NEW p, p.yiaddr \in Addr, p.lease \in LeaseTime \cup {None}
  PROVE  LET d == received_ack(c, p)
         IN  Handled(c, d) /\ d.cb = "lease" /\ d.ack_retry_times = c.ack_retry_times
<1> DEFINE q == g_source_remove(c)
           s == switch_listening_mode(q, "L_NONE")
           l == get_lease(p)
           e == [s EXCEPT !.retry_times = 0, !.lease_seconds = l, !.assigned_ip = p.yiaddr, !.cb = "lease"]
           b == [e EXCEPT !.state = "BOUND"]
           g == g_source_remove(b)
           d == received_ack(c, p)
           t == [fn |-> "start_renew_timeout", left |-> l \div 2]
<1>0. /\ c \in Client /\ DISCOVER_RETRIES \in Nat /\ REQUEST_RETRIES \in Nat
      /\ "start_renew_timeout" \in Fn /\ LEASE_LIMIT \in Nat
  BY Constant DEF Good, Fn
<1>1. q \in Client /\ Same(c, q, {"timer"})
  BY <1>0, TimerRemoved
<1>2. d = g_timeout_add(g, "start_renew_timeout", e.lease_seconds \div 2)
  BY DEF received_ack, start_bound
<1> HIDE DEF q
<1>3. s \in Client /\ Same(q, s, {"mode", "watch"}) /\ s.mode = "L_NONE"
  <2>1. "L_NONE" \in Mode
    BY DEF Mode
  <2>2. QED
    BY <1>1, <2>1, SwitchEffect
<1> HIDE DEF s
<1>4. l \in Nat /\ l >= MIN_LEASE /\ l < LEASE_LIMIT
  BY LeaseRange
<1> HIDE DEF l
<1>5. /\ e \in Client /\ e.retry_times = 0 /\ e.lease_seconds = l /\ e.assigned_ip = p.yiaddr /\ e.cb = "lease"
      /\ Same(s, e, {"retry_times", "lease_seconds", "assigned_ip", "cb"})
  BY <1>3, <1>4 DEF Client, Same, Field
<1> HIDE DEF e
<1>6. b \in Client /\ b.state = "BOUND" /\ Same(e, b, {"state"})
  BY <1>5 DEF Client, Same, Field, States
<1> HIDE DEF b
<1>7. g \in Client /\ Same(b, g, {"timer"}) /\ ~Live(g.timer)
  BY <1>6, TimerRemoved
<1> HIDE DEF g
<1>8. l \div 2 \in Nat /\ l \div 2 + (l - l \div 2) = l
  BY <1>4, Halves
<1>9. d \in Client /\ Same(g, d, {"timer"}) /\ d.timer = t
  BY <1>0, <1>2, <1>5, <1>7, <1>8, TimerAdded
<1> HIDE DEF d
<1>10. /\ Same(c, d, {"timer", "mode", "watch", "retry_times", "lease_seconds", "assigned_ip", "cb", "state"})
       /\ d.state = "BOUND" /\ d.retry_times = 0 /\ d.lease_seconds = l /\ d.assigned_ip = p.yiaddr
       /\ d.cb = "lease" /\ d.mode = "L_NONE"
  BY <1>1, <1>3, <1>5, <1>6, <1>7, <1>9 DEF Same, Field
<1>11. Live(t) /\ t.fn = "start_renew_timeout" /\ t.fn \in Timers("BOUND") /\ t.left = l \div 2
  BY DEF Live, Timers
<1>12. Good(d)
  <2> HIDE DEF t
  <2>1. QED
    BY <1>0, <1>4, <1>9, <1>10, <1>11 DEF Good, Same, Field, Leased
<1>13. Hears(d)
  BY <1>10 DEF Hears, Modes
<1>14. d.timer.left + Rest(d) = d.lease_seconds
  <2>1. Rest(d) = l - l \div 2
    BY <1>10 DEF Rest
  <2>2. QED
    BY <1>8, <1>9, <1>10, <1>11, <2>1
<1>15. Handled(c, d)
  <2> HIDE DEF t
  <2>1. QED
    BY <1>9, <1>10, <1>11, <1>12, <1>13, <1>14 DEF Handled
<1>16. d.ack_retry_times = c.ack_retry_times
  BY <1>10 DEF Same, Field
<1>17. QED
  BY <1>10, <1>15, <1>16 DEF d

\* received_nak: the client waits a moment, in the state that it is in.
LEMMA NakEffect ==
  ASSUME NEW c, Good(c), c.cb = "none", c.state \in {"REQUESTING", "RENEWING", "REBINDING"}
  PROVE  LET d == received_nak(c)
         IN  /\ Handled(c, d) /\ d.ack_retry_times = c.ack_retry_times
             /\ d.timer.fn = "restart_dhcp_timeout"
<1> DEFINE b == [c EXCEPT !.retry_times = 0]
           g == g_source_remove(b)
           d == received_nak(c)
           t == [fn |-> "restart_dhcp_timeout", left |-> NAK_DELAY]
<1>0. /\ c \in Client /\ DISCOVER_RETRIES \in Nat /\ REQUEST_RETRIES \in Nat
      /\ "restart_dhcp_timeout" \in Fn /\ NAK_DELAY \in Nat /\ NAK_DELAY > 0
  BY Constant DEF Good, Fn
<1>1. b \in Client /\ b.retry_times = 0 /\ Same(c, b, {"retry_times"})
  BY <1>0 DEF Client, Same, Field
<1>2. d = g_timeout_add(g, "restart_dhcp_timeout", NAK_DELAY)
  BY DEF received_nak
<1> HIDE DEF b, d
<1>3. g \in Client /\ Same(b, g, {"timer"}) /\ ~Live(g.timer)
  BY <1>1, TimerRemoved
<1> HIDE DEF g
<1>4. d \in Client /\ Same(g, d, {"timer"}) /\ d.timer = t
  BY <1>0, <1>2, <1>3, TimerAdded
<1>5. Same(c, d, {"timer", "retry_times"}) /\ d.retry_times = 0
  BY <1>1, <1>3, <1>4 DEF Same, Field
<1>6. Live(t) /\ t.fn = "restart_dhcp_timeout" /\ t.fn \in Timers(c.state) /\ t.left > 0
  BY <1>0 DEF Live, Timers
<1> HIDE DEF t
<1>7. Good(d)
  BY <1>0, <1>4, <1>5, <1>6 DEF Good, Same, Field, Leased
<1>8. /\ d.cb = "none" /\ d.ack_retry_times = c.ack_retry_times /\ d.assigned_ip = c.assigned_ip
      /\ (Hears(c) => Hears(d)) /\ (Leased(d) => Leased(c))
  BY <1>5 DEF Same, Field, Hears, Leased
<1>9. Handled(c, d)
  BY <1>4, <1>6, <1>7, <1>8 DEF Handled
<1>10. QED
  BY <1>4, <1>6, <1>8, <1>9 DEF d

\* What a callback relies on besides the record.
Ready(fn, c) ==
  /\ fn \in Timers(c.state)
  /\ fn = "discover_timeout" => c.retry_times < DISCOVER_RETRIES
  /\ fn = "request_timeout" => c.retry_times < REQUEST_RETRIES
  /\ fn = "restart_dhcp_timeout" => c.ack_retry_times < DISCOVER_RETRIES

\* Every timer's callback, in the states in which the timer may run.
LEMMA CallbackEffect ==
  ASSUME NEW c, Good(c), ~Live(c.timer), c.cb = "none", NEW fn, Ready(fn, c)
  PROVE  LET d == Callback(fn, c)
         IN  /\ Handled(c, d)
             /\ fn = "restart_dhcp_timeout" => ~Leased(d)
             /\ c.ack_retry_times < DISCOVER_RETRIES =>
                  d.cb = "no_lease" \/ d.ack_retry_times < DISCOVER_RETRIES
<1>0. c.state \in States
  BY DEF Good, Client
<1>1. CASE fn = "discover_timeout"
  <2>1. c.state = "INIT_SELECTING" /\ c.retry_times < DISCOVER_RETRIES
    BY <1>0, <1>1 DEF Ready, Timers, States
  <2>2. Callback(fn, c) = discover_timeout(c)
    BY <1>1 DEF Callback
  <2>3. QED
    BY <1>1, <2>1, <2>2, DiscoverTimeoutEffect
<1>2. CASE fn = "request_timeout"
  <2>1. c.state = "REQUESTING" /\ c.retry_times < REQUEST_RETRIES
    BY <1>0, <1>2 DEF Ready, Timers, States
  <2>2. Callback(fn, c) = request_timeout(c)
    BY <1>2 DEF Callback
  <2>3. QED
    BY <1>2, <2>1, <2>2, RequestTimeoutEffect
<1>3. CASE fn = "start_rebound_timeout"
  <2>1. c.state = "REBINDING"
    BY <1>0, <1>3 DEF Ready, Timers, States
  <2>2. Callback(fn, c) = start_rebound_timeout(c)
    BY <1>3 DEF Callback
  <2>3. QED
    BY <1>3, <2>1, <2>2, ReboundTimeoutEffect
<1>4. CASE fn = "start_renew_request_timeout"
  <2>1. Callback(fn, c) = start_renew_request_timeout(c)
    BY <1>4 DEF Callback
  <2>2. QED
    BY <1>4, <2>1, RenewRequestTimeoutEffect
<1>5. CASE fn = "start_renew_timeout"
  <2>1. c.state = "BOUND"
    BY <1>0, <1>5 DEF Ready, Timers, States
  <2>2. Callback(fn, c) = start_renew_timeout(c)
    BY <1>5 DEF Callback
  <2>3. QED
    BY <1>5, <2>1, <2>2, RenewTimeoutEffect
<1>6. CASE fn = "restart_dhcp_timeout"
  <2>1. c.state \in {"REQUESTING", "RENEWING", "REBINDING"} /\ c.ack_retry_times < DISCOVER_RETRIES
    BY <1>0, <1>6 DEF Ready, Timers, States
  <2>2. Callback(fn, c) = restart_dhcp_timeout(c)
    BY <1>6 DEF Callback
  <2>3. QED
    BY <1>6, <2>1, <2>2, RestartTimeoutEffect
<1>7. fn \in Fn \ {"none", "stale"}
  BY <1>0 DEF Ready, Timers, States, Fn
<1>8. QED
  BY <1>1, <1>2, <1>3, <1>4, <1>5, <1>6, <1>7 DEF Fn

\* Every packet, in every state: it is ignored, ends the wait for it, or makes
\* the client wait to restart.
LEMMA PacketEffect ==
  ASSUME NEW c, Good(c), c.cb = "none", NEW p,
         \/ p.type = "OFFER" /\ p.yiaddr \in Addr
         \/ p.type = "ACK" /\ p.yiaddr \in Addr /\ p.lease \in LeaseTime \cup {None}
         \/ p.type = "NAK"
  PROVE  LET d == listener_event(c, p)
         IN  \/ d = c
             \/ /\ Handled(c, d)
                /\ d.ack_retry_times = c.ack_retry_times
                /\ Leased(d) /\ d.cb = "none" => d.timer.fn = "restart_dhcp_timeout"
<1> DEFINE waits == c.state \in {"REQUESTING", "RENEWING", "REBINDING"}
           d == listener_event(c, p)
<1>1. CASE c.state = "INIT_SELECTING" /\ p.type = "OFFER"
  <2>1. d = received_offer(c, p)
    BY <1>1 DEF listener_event
  <2> HIDE DEF d
  <2>2. Handled(c, d) /\ d.ack_retry_times = c.ack_retry_times
    BY <1>1, <2>1, OfferEffect
  <2>3. ~Leased(c)
    BY <1>1 DEF Leased
  <2>4. QED
    BY <2>2, <2>3 DEF Handled, d
<1>2. CASE waits /\ p.type = "ACK"
  <2>1. d = received_ack(c, p)
    BY <1>2 DEF listener_event
  <2> HIDE DEF d
  <2>2. Handled(c, d) /\ d.ack_retry_times = c.ack_retry_times /\ d.cb = "lease"
    BY <1>2, <2>1, AckEffect
  <2>3. QED
    BY <2>2 DEF d
<1>3. CASE waits /\ p.type = "NAK"
  <2>1. d = received_nak(c)
    BY <1>3 DEF listener_event
  <2> HIDE DEF d
  <2>2. /\ Handled(c, d) /\ d.ack_retry_times = c.ack_retry_times
        /\ d.timer.fn = "restart_dhcp_timeout"
    BY <1>3, <2>1, NakEffect
  <2>3. QED
    BY <2>2 DEF d
<1>4. CASE ~(c.state = "INIT_SELECTING" /\ p.type = "OFFER") /\ ~(waits /\ p.type \in {"ACK", "NAK"})
  <2>1. d = c
    BY <1>4 DEF listener_event
  <2>2. QED
    BY <2>1
<1>5. QED
  BY <1>1, <1>2, <1>3, <1>4

-----------------------------------------------------------------------------
(* The inductive invariant.                                                *)

\* A client that was never started.
Unused(c) ==
  /\ c.state = "INIT_SELECTING" /\ c.mode = "L_NONE" /\ c.watch = FALSE
  /\ c.retry_times = 0 /\ c.ack_retry_times = 0 /\ ~Live(c.timer) /\ c.cb = "none"

\* The variables of the daemon have their types.
DaemonInv ==
  /\ loop \in {"setup", "init", "run", "quit", "done"}
  /\ client_addr \in Addr \cup {None} /\ server_addr \in Addr \cup {None}
  /\ if_addr \in Addr \cup {None}
  /\ replies \in 0 .. MaxReplies /\ granted \in Nat /\ age \in Nat

\* The record is good; NAKs are counted, and the last one ends the loop before
\* its timer could be due again.
ClientInv ==
  /\ Good(client)
  /\ loop = "run" => client.ack_retry_times < DISCOVER_RETRIES
  /\ client.timer.fn = "restart_dhcp_timeout" /\ client.timer.left = 0 =>
       client.ack_retry_times < DISCOVER_RETRIES

\* Before the loop runs, and in a daemon with a server, the client is unused.
UnusedInv ==
  /\ ~as_client \/ loop \in {"setup", "init"} => Unused(client)
  /\ loop \in {"setup", "init"} => client_addr = None

\* A running client has a timer and listens.
AliveInv ==
  /\ ~faulted => up
  /\ loop = "run" /\ as_client /\ ~faulted => Live(client.timer) /\ Hears(client)
  /\ loop = "run" /\ Leased(client) => Live(client.timer)

\* The time until the timer is due, and what is left of the lease then, end
\* before the lease does.
LeaseInv ==
  loop = "run" /\ Leased(client) /\ client.timer.fn # "restart_dhcp_timeout" =>
    age + client.timer.left + Rest(client) <= granted

\* What the interface, the daemon and the client take for the address.
AddressInv ==
  /\ loop = "run" /\ Leased(client) => client_addr = client.assigned_ip
  /\ loop = "run" /\ client_addr # None => if_addr = client_addr
  /\ loop # "done" /\ client_addr = None /\ server_addr = None => if_addr = None
  /\ loop = "done" /\ ~flush_failed => if_addr = None

IInv == DaemonInv /\ ClientInv /\ UnusedInv /\ AliveInv /\ LeaseInv /\ AddressInv

-----------------------------------------------------------------------------
\* A record that the main loop has been given: what was sent and called back is
\* forgotten.
LEMMA QuietEffect ==
  ASSUME NEW c, Good(c)
  PROVE  LET d == Quiet(c)
         IN  Good(d) /\ Same(c, d, {"sent", "cb"}) /\ d.cb = "none"
<1> DEFINE d == [c EXCEPT !.sent = "none", !.cb = "none"]
<1>1. d \in Client /\ d.cb = "none" /\ Same(c, d, {"sent", "cb"})
  BY DEF Good, Client, Same, Field
<1>2. Quiet(c) = d
  BY DEF Quiet
<1> HIDE DEF d
<1>3. Good(d)
  BY <1>1 DEF Good, Same, Field, Leased
<1>4. QED
  BY <1>1, <1>2, <1>3

\* The timer that is due is the one that the client knows of.
LEMMA DueEffect ==
  ASSUME NEW c, Good(c), NEW t \in Due(c)
  PROVE  LET e == Expired(Quiet(c), t)
         IN  /\ t = c.timer /\ Live(t) /\ t.left = 0
             /\ Good(e) /\ Same(c, e, {"sent", "cb", "timer"}) /\ e.cb = "none" /\ ~Live(e.timer)
<1>1. t = c.timer /\ Live(t) /\ t.left = 0
  BY DEF Due, Sources, Good
<1> DEFINE d == Quiet(c)
           e == [d EXCEPT !.timer = Stale]
<1>2. d \in Client /\ Good(d) /\ Same(c, d, {"sent", "cb"}) /\ d.cb = "none"
  BY QuietEffect DEF Good
<1>3. Expired(d, t) = e
  <2> HIDE DEF d
  <2>1. t = d.timer
    BY <1>1, <1>2 DEF Same, Field
  <2>2. QED
    BY <2>1 DEF Expired
<1> HIDE DEF d
<1>4. Stale \in Timer /\ ~Live(Stale) /\ Stale.fn = "stale"
  BY DEF Stale, Timer, Fn, Live
<1>5. e \in Client /\ e.timer = Stale /\ Same(d, e, {"timer"})
  BY <1>2, <1>4 DEF Client, Same, Field
<1> HIDE DEF e
<1>6. Same(c, e, {"sent", "cb", "timer"}) /\ e.cb = "none"
  BY <1>2, <1>5 DEF Same, Field
<1>7. Good(e)
  BY <1>2, <1>4, <1>5 DEF Good, Same, Field, Leased
<1>8. QED
  BY <1>1, <1>3, <1>4, <1>5, <1>6, <1>7 DEF d

\* One unit of time, in which no timer is due.
LEMMA AgedEffect ==
  ASSUME NEW c, Good(c), Due(c) = {}
  PROVE  LET d == Aged(Quiet(c))
         IN  /\ Good(d) /\ Same(c, d, {"sent", "cb", "timer"}) /\ d.cb = "none"
             /\ d.timer.fn = c.timer.fn
             /\ Live(c.timer) => c.timer.left > 0 /\ d.timer.left = c.timer.left - 1
<1> DEFINE q == Quiet(c)
           t == Later(c.timer)
           d == [q EXCEPT !.timer = t, !.leaked = {}]
<1>1. q \in Client /\ Good(q) /\ Same(c, q, {"sent", "cb"}) /\ q.cb = "none"
  BY QuietEffect DEF Good
<1> HIDE DEF q
<1>2. c.timer \in Timer /\ c.timer.left \in Nat /\ q.timer = c.timer /\ q.leaked = {}
  BY <1>1 DEF Good, Client, Timer, Same, Field
<1>3. Aged(q) = d
  <2>1. {Later(x) : x \in q.leaked} = {}
    BY <1>2
  <2>2. QED
    BY <1>2, <2>1 DEF Aged
<1>4. Live(c.timer) => c.timer.left > 0
  <2>1. SUFFICES ASSUME Live(c.timer), c.timer.left = 0
                 PROVE  FALSE
    BY <1>2
  <2>2. c.timer \in Due(c)
    BY <2>1 DEF Due, Sources
  <2>3. QED
    BY <2>2
<1>5. /\ t \in Timer /\ t.fn = c.timer.fn
      /\ Live(c.timer) => t.left = c.timer.left - 1
  BY <1>2, <1>4 DEF Later, Timer
<1> HIDE DEF t
<1>6. d \in Client /\ d.timer = t /\ d.leaked = {} /\ Same(q, d, {"timer", "leaked"})
  BY <1>1, <1>5 DEF Client, Same, Field
<1> HIDE DEF d
<1>7. Same(c, d, {"sent", "cb", "timer"}) /\ d.cb = "none"
  BY <1>1, <1>2, <1>6 DEF Same, Field, Good
<1>8. Good(d)
  BY <1>1, <1>2, <1>5, <1>6 DEF Good, Same, Field, Leased, Live
<1>9. QED
  BY <1>3, <1>4, <1>5, <1>6, <1>7, <1>8 DEF q

\* The end: a client that is stopped has neither a timer nor a lease.
LEMMA StopEffect ==
  ASSUME NEW c, Good(c)
  PROVE  LET d == g_dhcp_client_stop(c)
         IN  Good(d) /\ ~Live(d.timer)
<1> DEFINE s == switch_listening_mode(c, "L_NONE")
           q == g_source_remove(s)
           x == IF Leased(c) THEN "RELEASE" ELSE "none"
           d == [q EXCEPT !.sent = x, !.watch = FALSE, !.retry_times = 0, !.ack_retry_times = 0,
                          !.requested_ip = None, !.state = "RELEASED", !.lease_seconds = 0]
<1>0. c \in Client /\ DISCOVER_RETRIES \in Nat /\ REQUEST_RETRIES \in Nat /\ LEASE_LIMIT \in Nat
  BY Constant DEF Good
<1>1. g_dhcp_client_stop(c) = d
  BY DEF g_dhcp_client_stop
<1>2. s \in Client /\ Same(c, s, {"mode", "watch"})
  <2>1. "L_NONE" \in Mode
    BY DEF Mode
  <2>2. QED
    BY <1>0, <2>1, SwitchEffect
<1> HIDE DEF s
<1>3. q \in Client /\ Same(s, q, {"timer"}) /\ ~Live(q.timer)
  BY <1>2, TimerRemoved
<1> HIDE DEF q
<1>4. x \in {"RELEASE", "none"}
  OBVIOUS
<1> HIDE DEF x
<1>5. /\ d \in Client /\ d.state = "RELEASED" /\ d.retry_times = 0 /\ d.ack_retry_times = 0 /\ d.lease_seconds = 0
      /\ d.timer = q.timer /\ d.leaked = q.leaked
  BY <1>3, <1>4 DEF Client, States
<1> HIDE DEF d
<1>6. d.leaked = {} /\ ~Live(d.timer)
  BY <1>2, <1>3, <1>5 DEF Same, Field, Good
<1>7. Good(d)
  BY <1>0, <1>5, <1>6 DEF Good, Leased, Live
<1>8. QED
  BY <1>1, <1>6, <1>7

-----------------------------------------------------------------------------
\* What dhcp.c does in the client's callbacks, as far as the addresses go.
LEMMA AddressKept ==
  ASSUME IInv, Running, NEW d, Good(d), d.cb = "lease" => d.state = "BOUND",
         Leased(d) /\ d.cb = "none" => Leased(client) /\ d.assigned_ip = client.assigned_ip,
         NEW n, Becomes(d, n), UNCHANGED daemon
  PROVE  /\ AddressInv'
         /\ loop' \in {loop, "quit"} /\ (d.cb = "no_lease" => loop' = "quit")
         /\ client_addr' \in Addr \cup {None} /\ if_addr' \in Addr \cup {None}
<1> DEFINE a == d.assigned_ip
<1>0. /\ client' = d /\ server_addr' = server_addr /\ flush_failed' = flush_failed
      /\ loop \in {"run", "quit"}
      /\ d.cb \in {"none", "lease", "no_lease"} /\ a \in Addr \cup {None} /\ None \notin Addr
      /\ client_addr \in Addr \cup {None} /\ if_addr \in Addr \cup {None}
  BY ClientAssumption DEF Becomes, daemon, Running, IInv, DaemonInv, Good, Client
<1>i. /\ loop = "run" /\ Leased(client) => client_addr = client.assigned_ip
      /\ loop = "run" /\ client_addr # None => if_addr = client_addr
      /\ client_addr = None /\ server_addr = None => if_addr = None
  BY <1>0 DEF IInv, AddressInv
<1>1. CASE d.cb = "lease"
  <2>1. a \in Addr
    BY <1>1 DEF Good, Leased
  <2>2. client_lease_fn(a)
    BY <1>1 DEF Becomes
  <2> HIDE DEF a
  <2>3. /\ client_addr' \in {client_addr, a} /\ if_addr' \in {if_addr, None, a} /\ loop' \in {loop, "quit"}
        /\ loop' = "run" => loop = "run" /\ client_addr' = a /\ if_addr' = a
        /\ client_addr' = a \/ (client_addr' = client_addr /\ if_addr' = if_addr)
    BY <1>0, <1>i, <2>1, <2>2 DEF client_lease_fn, AddressSet, AddressFailed
  <2>4. QED
    BY <1>0, <1>i, <1>1, <2>1, <2>3 DEF AddressInv, a
<1>2. CASE d.cb = "no_lease"
  <2>1. loop' = "quit" /\ client_addr' = client_addr /\ if_addr' = if_addr
    BY <1>2 DEF Becomes, client_no_lease_fn
  <2>2. QED
    BY <1>0, <1>i, <1>2, <2>1 DEF AddressInv
<1>3. CASE d.cb = "none"
  <2>1. loop' = loop /\ client_addr' = client_addr /\ if_addr' = if_addr
    BY <1>3 DEF Becomes
  <2>2. QED
    BY <1>0, <1>i, <1>3, <2>1 DEF AddressInv
<1>4. QED
  BY <1>0, <1>1, <1>2, <1>3

\* A handler that was called for the record c, which is the client's but for its
\* timer, keeps the invariant.
LEMMA HandledStep ==
  ASSUME IInv, Running, as_client,
         NEW c, Same(client, c, {"sent", "cb", "timer"}),
         NEW d, Handled(c, d),
         c.ack_retry_times < DISCOVER_RETRIES => d.cb = "no_lease" \/ d.ack_retry_times < DISCOVER_RETRIES,
         loop = "run" /\ Leased(c) /\ Leased(d) /\ d.cb = "none" /\ d.timer.fn # "restart_dhcp_timeout" =>
           age + Rest(c) <= granted,
         NEW n \in 0 .. MaxReplies, Becomes(d, n), UNCHANGED <<up, faulted, daemon>>
  PROVE  IInv'
<1>0. /\ client' = d /\ up' = up /\ faulted' = faulted /\ as_client' = as_client
      /\ server_addr' = server_addr /\ flush_failed' = flush_failed
      /\ loop \in {"run", "quit"} /\ d \in Client /\ Good(d)
      /\ d.cb \in {"none", "lease", "no_lease"} /\ d.lease_seconds \in Nat
  BY DEF Becomes, daemon, Running, Handled, Good, Client
<1>1. /\ c.ack_retry_times = client.ack_retry_times /\ (Leased(c) <=> Leased(client))
      /\ c.assigned_ip = client.assigned_ip /\ (Hears(client) => Hears(c))
  BY DEF Same, Field, Leased, Hears
<1>2. /\ AddressInv'
      /\ loop' \in {loop, "quit"} /\ (d.cb = "no_lease" => loop' = "quit")
      /\ client_addr' \in Addr \cup {None} /\ if_addr' \in Addr \cup {None}
  <2>1. /\ d.cb = "lease" => d.state = "BOUND"
        /\ Leased(d) /\ d.cb = "none" => Leased(client) /\ d.assigned_ip = client.assigned_ip
    BY <1>1 DEF Handled
  <2>2. QED
    BY <1>0, <2>1, AddressKept
<1>3. /\ granted' = IF d.cb = "lease" THEN d.lease_seconds ELSE IF Leased(d) THEN granted ELSE 0
      /\ age' = IF d.cb = "lease" \/ ~Leased(d) THEN 0 ELSE age
      /\ replies' = IF d.sent = "none" THEN n ELSE MaxReplies
  BY DEF Becomes
<1>4. DaemonInv'
  <2>1. MaxReplies \in Nat
    BY ClientAssumption
  <2>2. replies' \in 0 .. MaxReplies
    BY <1>3, <2>1
  <2>3. granted' \in Nat /\ age' \in Nat
    BY <1>0, <1>3 DEF IInv, DaemonInv
  <2>4. QED
    BY <1>0, <1>2, <2>2, <2>3 DEF IInv, DaemonInv
<1>5. loop' = "run" => loop = "run" /\ d.cb # "no_lease"
  BY <1>0, <1>2
<1>6. ClientInv'
  <2>1. d.timer.fn = "restart_dhcp_timeout" => d.timer.left # 0
    <3>1. d.timer.left \in Nat
      BY <1>0 DEF Client, Timer
    <3>2. QED
      BY <3>1 DEF Handled
  <2>2. loop' = "run" => d.ack_retry_times < DISCOVER_RETRIES
    BY <1>1, <1>5 DEF IInv, ClientInv
  <2>3. QED
    BY <1>0, <2>1, <2>2 DEF ClientInv
<1>7. UnusedInv'
  BY <1>0, <1>2 DEF UnusedInv
<1>8. AliveInv'
  <2>1. loop' = "run" /\ Leased(d) => Live(d.timer)
    BY <1>5 DEF Handled
  <2>2. loop' = "run" /\ as_client /\ ~faulted => Live(d.timer) /\ Hears(d)
    BY <1>1, <1>5 DEF Handled, IInv, AliveInv
  <2>3. QED
    BY <1>0, <2>1, <2>2 DEF IInv, AliveInv
<1>9. LeaseInv'
  <2> DEFINE l == d.timer.left
             r == Rest(d)
  <2>1. l \in Nat /\ r \in Nat /\ Rest(c) \in Nat
    <3>1. r \in Nat
      BY <1>0, Halves DEF Rest
    <3>2. c.lease_seconds \in Nat
      BY DEF IInv, ClientInv, Good, Client, Same, Field
    <3>3. Rest(c) \in Nat
      BY <3>2, Halves DEF Rest
    <3>4. QED
      BY <1>0, <3>1, <3>3 DEF Client, Timer
  <2>2. SUFFICES ASSUME loop' = "run", Leased(d), d.timer.fn # "restart_dhcp_timeout"
                 PROVE  age' + l + r <= granted'
    BY <1>0 DEF LeaseInv
  <2>3. CASE d.cb = "lease"
    <3>1. l + r = d.lease_seconds
      BY <2>3 DEF Handled
    <3> HIDE DEF l, r
    <3>2. QED
      BY <1>0, <1>3, <2>1, <2>3, <3>1
  <2>4. CASE d.cb = "none"
    <3>1. Leased(c) /\ l + r <= Rest(c)
      BY <2>2, <2>4 DEF Handled
    <3>2. age + Rest(c) <= granted
      BY <1>5, <2>2, <2>4, <3>1
    <3>3. age' = age /\ granted' = granted /\ age \in Nat /\ granted \in Nat
      BY <1>3, <2>2, <2>4 DEF IInv, DaemonInv
    <3> HIDE DEF l, r
    <3>4. QED
      BY <2>1, <3>1, <3>2, <3>3
  <2>5. QED
    BY <1>0, <1>5, <2>2, <2>3, <2>4
<1>10. QED
  BY <1>2, <1>4, <1>6, <1>7, <1>8, <1>9 DEF IInv

\* The record changes in nothing that the invariant depends on.
LEMMA QuietStep ==
  ASSUME IInv, NEW d, Good(d), Same(client, d, {"sent", "cb"}), d.cb = "none", client' = d,
         UNCHANGED <<loop, client_addr, if_addr, up, faulted, daemon>>,
         replies' \in 0 .. MaxReplies, granted' \in Nat, age' \in Nat,
         Leased(client) => granted' = granted /\ age' = age
  PROVE  IInv'
<1>1. /\ d.state = client.state /\ d.mode = client.mode /\ d.watch = client.watch
      /\ d.retry_times = client.retry_times /\ d.ack_retry_times = client.ack_retry_times
      /\ d.timer = client.timer /\ d.lease_seconds = client.lease_seconds
      /\ d.assigned_ip = client.assigned_ip
  BY DEF Same, Field
<1>2. (Leased(d) <=> Leased(client)) /\ (Hears(d) <=> Hears(client)) /\ Rest(d) = Rest(client)
      /\ (Unused(client) => Unused(d))
  BY <1>1 DEF Leased, Hears, Rest, Unused
<1>3. DaemonInv' /\ ClientInv'
  BY <1>1 DEF IInv, DaemonInv, ClientInv, daemon
<1>4. UnusedInv' /\ AliveInv'
  BY <1>1, <1>2 DEF IInv, UnusedInv, AliveInv, daemon
<1>5. LeaseInv'
  BY <1>1, <1>2 DEF IInv, LeaseInv
<1>6. AddressInv'
  BY <1>1, <1>2 DEF IInv, AddressInv, daemon
<1>7. QED
  BY <1>3, <1>4, <1>5, <1>6 DEF IInv

\* A timer's callback keeps the invariant.
LEMMA TimerStep == IInv /\ TimerFires => IInv'
<1> SUFFICES ASSUME IInv, TimerFires
             PROVE  IInv'
  OBVIOUS
<1>1. PICK t \in Due(client) : Becomes(Callback(t.fn, Expired(Quiet(client), t)), replies)
  BY DEF TimerFires
<1> DEFINE c == Expired(Quiet(client), t)
           d == Callback(t.fn, c)
<1>2. Good(client)
  BY DEF IInv, ClientInv
<1>3. /\ t = client.timer /\ Live(t) /\ t.left = 0
      /\ Good(c) /\ Same(client, c, {"sent", "cb", "timer"}) /\ c.cb = "none" /\ ~Live(c.timer)
  BY <1>2, DueEffect
<1> HIDE DEF c
<1>4. /\ c.state = client.state /\ c.retry_times = client.retry_times
      /\ c.ack_retry_times = client.ack_retry_times
      /\ Rest(c) = Rest(client) /\ (Leased(c) <=> Leased(client))
  BY <1>3 DEF Same, Field, Rest, Leased
<1>5. Ready(t.fn, c)
  BY <1>3, <1>4 DEF IInv, ClientInv, Good, Ready
<1>6. /\ Handled(c, d)
      /\ t.fn = "restart_dhcp_timeout" => ~Leased(d)
      /\ c.ack_retry_times < DISCOVER_RETRIES =>
           d.cb = "no_lease" \/ d.ack_retry_times < DISCOVER_RETRIES
  BY <1>3, <1>5, CallbackEffect
<1> HIDE DEF d
<1>7. as_client /\ Running /\ replies \in 0 .. MaxReplies /\ UNCHANGED <<up, faulted, daemon>>
  BY <1>3 DEF IInv, UnusedInv, Unused, TimerFires, DaemonInv
<1>8. ASSUME loop = "run", Leased(c), Leased(d)
      PROVE  age + Rest(c) <= granted
  <2>1. Leased(client) /\ client.timer.fn # "restart_dhcp_timeout"
    BY <1>3, <1>4, <1>6, <1>8
  <2>2. age + client.timer.left + Rest(client) <= granted
    BY <1>8, <2>1 DEF IInv, LeaseInv
  <2>3. age \in Nat /\ client.timer.left = 0
    BY <1>3 DEF IInv, DaemonInv
  <2>4. QED
    BY <1>4, <2>2, <2>3
<1>9. QED
  BY <1>1, <1>3, <1>6, <1>7, <1>8, HandledStep DEF c, d

\* So does a packet, in whatever state it finds the client.
LEMMA PacketStep == IInv /\ PacketArrives => IInv'
<1> SUFFICES ASSUME IInv, PacketArrives
             PROVE  IInv'
  OBVIOUS
<1>1. PICK p \in Packet : Becomes(listener_event(Quiet(client), p), replies - 1)
  BY DEF PacketArrives
<1> DEFINE c == Quiet(client)
           d == listener_event(c, p)
<1>2. Good(client) /\ client.asked \subseteq Addr
  BY DEF IInv, ClientInv, Good, Client
<1>3. Good(c) /\ Same(client, c, {"sent", "cb"}) /\ c.cb = "none"
  BY <1>2, QuietEffect
<1> HIDE DEF c
<1>4. \/ p.type = "OFFER" /\ p.yiaddr \in Addr
      \/ p.type = "ACK" /\ p.yiaddr \in Addr /\ p.lease \in LeaseTime \cup {None}
      \/ p.type = "NAK"
  BY <1>2 DEF Packet
<1>5. \/ d = c
      \/ /\ Handled(c, d)
         /\ d.ack_retry_times = c.ack_retry_times
         /\ Leased(d) /\ d.cb = "none" => d.timer.fn = "restart_dhcp_timeout"
  BY <1>3, <1>4, PacketEffect
<1> HIDE DEF d
<1>6. /\ as_client /\ Running /\ replies - 1 \in 0 .. MaxReplies /\ UNCHANGED <<up, faulted, daemon>>
      /\ MaxReplies \in Nat
  BY ClientAssumption DEF IInv, UnusedInv, Unused, PacketArrives, DaemonInv
<1>7. Becomes(d, replies - 1)
  BY <1>1 DEF c, d
<1>8. CASE d = c
  <2>1. Becomes(c, replies - 1)
    BY <1>7, <1>8
  <2>2. UNCHANGED <<loop, client_addr, if_addr>> /\ client' = c
    BY <1>3, <2>1 DEF Becomes
  <2>3. Leased(c) <=> Leased(client)
    BY <1>3 DEF Same, Field, Leased
  <2>4. /\ granted' = IF Leased(c) THEN granted ELSE 0
        /\ age' = IF ~Leased(c) THEN 0 ELSE age
    BY <1>3, <2>1 DEF Becomes
  <2>5. /\ granted' \in Nat /\ age' \in Nat
        /\ Leased(client) => granted' = granted /\ age' = age
    BY <2>3, <2>4 DEF IInv, DaemonInv
  <2>6. replies' \in 0 .. MaxReplies
    BY <1>6, <2>1 DEF Becomes
  <2>7. QED
    BY <1>3, <1>6, <2>2, <2>5, <2>6, QuietStep
<1>9. CASE Handled(c, d) /\ d.ack_retry_times = c.ack_retry_times
           /\ (Leased(d) /\ d.cb = "none" => d.timer.fn = "restart_dhcp_timeout")
  <2>1. Same(client, c, {"sent", "cb", "timer"})
    BY <1>3 DEF Same
  <2>2. QED
    BY <1>6, <1>7, <1>9, <2>1, HandledStep
<1>10. QED
  BY <1>5, <1>8, <1>9

\* An error of the socket ends the watch of an interface that was down.
LEMMA ErrorStep == IInv /\ ListenerError => IInv'
<1> SUFFICES ASSUME IInv, ListenerError
             PROVE  IInv'
  OBVIOUS
<1> DEFINE q == Quiet(client)
           d == [q EXCEPT !.watch = FALSE]
<1>1. q \in Client /\ Good(q) /\ Same(client, q, {"sent", "cb"}) /\ q.cb = "none"
  BY QuietEffect DEF IInv, ClientInv, Good
<1>2. client' = d
  BY DEF ListenerError
<1> HIDE DEF q
<1>3. d \in Client /\ Same(q, d, {"watch"})
  BY <1>1 DEF Client, Same, Field
<1> HIDE DEF d
<1>4. Good(d)
  BY <1>1, <1>3 DEF Good, Same, Field, Leased
<1>5. /\ d.state = client.state /\ d.mode = client.mode
      /\ d.retry_times = client.retry_times /\ d.ack_retry_times = client.ack_retry_times
      /\ d.timer = client.timer /\ d.lease_seconds = client.lease_seconds
      /\ d.assigned_ip = client.assigned_ip
  BY <1>1, <1>3 DEF Same, Field
<1>6. (Leased(d) <=> Leased(client)) /\ Rest(d) = Rest(client)
  BY <1>5 DEF Leased, Rest
<1>7. as_client /\ faulted /\ loop \in {"run", "quit"}
  BY DEF ListenerError, IInv, AliveInv, UnusedInv, Unused, Running
<1>8. UNCHANGED <<loop, client_addr, if_addr, up, replies, faulted, granted, age,
                  as_client, server_addr, flush_failed>>
  BY DEF ListenerError, daemon
<1>9. DaemonInv' /\ ClientInv' /\ UnusedInv' /\ AliveInv'
  BY <1>2, <1>4, <1>5, <1>6, <1>7, <1>8
  DEF IInv, DaemonInv, ClientInv, UnusedInv, AliveInv
<1>10. LeaseInv' /\ AddressInv'
  BY <1>2, <1>5, <1>6, <1>8 DEF IInv, LeaseInv, AddressInv
<1>11. QED
  BY <1>9, <1>10 DEF IInv

\* Time that passes is taken from the timer.
LEMMA TickStep == IInv /\ Tick => IInv'
<1> SUFFICES ASSUME IInv, Tick
             PROVE  IInv'
  OBVIOUS
<1> DEFINE d == Aged(Quiet(client))
<1>1. Good(client) /\ Due(client) = {} /\ loop = "run" /\ client' = d
  BY DEF IInv, ClientInv, Tick
<1>2. /\ Good(d) /\ Same(client, d, {"sent", "cb", "timer"}) /\ d.cb = "none"
      /\ d.timer.fn = client.timer.fn
      /\ Live(client.timer) => client.timer.left > 0 /\ d.timer.left = client.timer.left - 1
  BY <1>1, AgedEffect
<1> HIDE DEF d
<1>3. /\ d.state = client.state /\ d.mode = client.mode /\ d.watch = client.watch
      /\ d.retry_times = client.retry_times /\ d.ack_retry_times = client.ack_retry_times
      /\ d.lease_seconds = client.lease_seconds /\ d.assigned_ip = client.assigned_ip
      /\ (Live(d.timer) <=> Live(client.timer))
  BY <1>2 DEF Same, Field, Live
<1>4. /\ (Leased(d) <=> Leased(client)) /\ Rest(d) = Rest(client)
      /\ (Hears(d) <=> Hears(client)) /\ (Unused(client) => Unused(d))
  BY <1>2, <1>3 DEF Leased, Rest, Hears, Unused
<1>5. UNCHANGED <<loop, client_addr, if_addr, up, replies, faulted, granted,
                  as_client, server_addr, flush_failed>>
  BY DEF Tick, daemon
<1>6. age' = (IF Leased(client) THEN age + 1 ELSE 0) /\ age \in Nat /\ granted \in Nat
  BY DEF Tick, IInv, DaemonInv
<1>7. DaemonInv'
  BY <1>5, <1>6 DEF IInv, DaemonInv
<1>8. ClientInv' /\ UnusedInv' /\ AliveInv' /\ AddressInv'
  BY <1>1, <1>2, <1>3, <1>4, <1>5
  DEF IInv, ClientInv, UnusedInv, AliveInv, AddressInv
<1>9. LeaseInv'
  <2>1. SUFFICES ASSUME Leased(client), client.timer.fn # "restart_dhcp_timeout"
                 PROVE  age' + d.timer.left + Rest(d) <= granted
    BY <1>1, <1>2, <1>4, <1>5 DEF LeaseInv
  <2> DEFINE l == client.timer.left
             r == Rest(client)
  <2>2. Live(client.timer) /\ age + l + r <= granted
    BY <1>1, <2>1 DEF IInv, AliveInv, LeaseInv
  <2>3. l \in Nat /\ l > 0 /\ d.timer.left = l - 1
    BY <1>1, <1>2, <2>2 DEF Good, Client, Timer
  <2>4. r \in Nat
    <3>1. client.lease_seconds \in Nat
      BY <1>1 DEF Good, Client
    <3>2. QED
      BY <3>1, Halves DEF Rest
  <2> HIDE DEF l, r
  <2>5. Rest(d) = r /\ age' = age + 1
    BY <1>4, <1>6, <2>1 DEF r
  <2>6. QED
    BY <1>6, <2>2, <2>3, <2>4, <2>5
<1>10. QED
  BY <1>7, <1>8, <1>9 DEF IInv

\* The client starts.
LEMMA RunStep == IInv /\ owfd_dhcp_run => IInv'
<1> SUFFICES ASSUME IInv, owfd_dhcp_run
             PROVE  IInv'
  OBVIOUS
<1>0. /\ Good(client) /\ Unused(client) /\ client_addr = None /\ loop = "init"
      /\ DISCOVER_RETRIES \in Nat /\ DISCOVER_RETRIES > 0
  BY Constant DEF IInv, ClientInv, UnusedInv, owfd_dhcp_run
<1>1. UNCHANGED <<client_addr, if_addr, up, faulted, granted, age, as_client, server_addr, flush_failed>>
  BY DEF owfd_dhcp_run, daemon
<1>2. loop' \in {"run", "quit"} /\ replies' \in 0 .. MaxReplies
  BY ClientAssumption DEF owfd_dhcp_run, IInv, DaemonInv
<1>3. DaemonInv' /\ AddressInv'
  <2>1. DaemonInv'
    BY <1>1, <1>2 DEF IInv, DaemonInv
  <2>2. ~Leased(client')
    <3>1. CASE as_client
      <4>1. client' = g_dhcp_client_start(client)
        BY <3>1 DEF owfd_dhcp_run
      <4>2. client'.state = "INIT_SELECTING"
        BY <1>0, <4>1, StartEffect DEF Unused
      <4>3. QED
        BY <4>2 DEF Leased
    <3>2. CASE ~as_client
      BY <1>0, <3>2 DEF owfd_dhcp_run, Unused, Leased
    <3>3. QED
      BY <3>1, <3>2
  <2>3. AddressInv'
    BY <1>0, <1>1, <1>2, <2>2 DEF IInv, AddressInv, Leased
  <2>4. QED
    BY <2>1, <2>3
<1>4. CASE as_client
  <2> DEFINE d == g_dhcp_client_start(client)
  <2>1. client' = d
    BY <1>4 DEF owfd_dhcp_run
  <2>2. /\ Good(d) /\ d.state = "INIT_SELECTING" /\ d.ack_retry_times = 0 /\ d.cb = "none"
        /\ Live(d.timer) => d.timer.fn = "discover_timeout"
        /\ up => Live(d.timer) /\ Hears(d)
    BY <1>0, StartEffect DEF Unused
  <2> HIDE DEF d
  <2>3. ~Leased(d) /\ d.timer.fn # "restart_dhcp_timeout"
    BY <2>2 DEF Leased, Live
  <2>4. ClientInv' /\ UnusedInv' /\ AliveInv' /\ LeaseInv'
    BY <1>0, <1>1, <1>2, <1>4, <2>1, <2>2, <2>3
    DEF IInv, ClientInv, UnusedInv, AliveInv, LeaseInv
  <2>5. QED
    BY <1>3, <2>4 DEF IInv
<1>5. CASE ~as_client
  <2>1. client' = client /\ ~Leased(client)
    BY <1>0, <1>5 DEF owfd_dhcp_run, Unused, Leased
  <2>2. ClientInv' /\ UnusedInv' /\ AliveInv' /\ LeaseInv'
    BY <1>0, <1>1, <1>2, <1>5, <2>1
    DEF IInv, ClientInv, UnusedInv, AliveInv, LeaseInv, Unused
  <2>3. QED
    BY <1>3, <2>2 DEF IInv
<1>6. QED
  BY <1>4, <1>5

\* The daemon is set up.
LEMMA SetupStep == IInv /\ owfd_dhcp_setup => IInv'
<1> SUFFICES ASSUME IInv, owfd_dhcp_setup
             PROVE  IInv'
  OBVIOUS
<1>1. /\ UNCHANGED <<client, as_client, client_addr, up, replies, faulted, granted, age, flush_failed>>
      /\ loop = "setup" /\ loop' \in {"init", "quit"} /\ client_addr = None /\ Unused(client)
      /\ None \notin Addr
  BY ClientAssumption DEF owfd_dhcp_setup, owfd_dhcp_setup_server, IInv, UnusedInv
<1>2. /\ server_addr' \in Addr \cup {None} /\ if_addr' \in Addr \cup {None}
      /\ server_addr' = None => if_addr' = None
  BY <1>1 DEF owfd_dhcp_setup, owfd_dhcp_setup_server, AddressFailed, AddressSet, IInv, DaemonInv, AddressInv
<1>3. DaemonInv' /\ ClientInv' /\ UnusedInv'
  BY <1>1, <1>2 DEF IInv, DaemonInv, ClientInv, UnusedInv
<1>4. AliveInv' /\ LeaseInv' /\ AddressInv'
  BY <1>1, <1>2 DEF IInv, AliveInv, LeaseInv, AddressInv
<1>5. QED
  BY <1>3, <1>4 DEF IInv

\* The daemon is torn down.
LEMMA TeardownStep == IInv /\ owfd_dhcp_teardown => IInv'
<1> SUFFICES ASSUME IInv, owfd_dhcp_teardown
             PROVE  IInv'
  OBVIOUS
<1>1. /\ UNCHANGED <<as_client, up, replies, faulted>> /\ loop = "quit" /\ loop' = "done"
      /\ client_addr' = None /\ server_addr' = None /\ granted' = 0 /\ age' = 0
      /\ client' = IF as_client THEN g_dhcp_client_stop(Quiet(client)) ELSE client
      /\ Good(client)
  BY DEF owfd_dhcp_teardown, IInv, ClientInv
<1>2. if_addr' \in Addr \cup {None} /\ (~flush_failed' => if_addr' = None)
  BY <1>1 DEF owfd_dhcp_teardown, FlushAddress, IInv, DaemonInv, AddressInv
<1>3. ClientInv'
  <2>1. CASE as_client
    <3>1. Good(client') /\ ~Live(client'.timer)
      BY <1>1, <2>1, QuietEffect, StopEffect
    <3>2. QED
      BY <1>1, <3>1 DEF ClientInv, Live
  <2>2. CASE ~as_client
    BY <1>1, <2>2 DEF IInv, ClientInv
  <2>3. QED
    BY <2>1, <2>2
<1>4. DaemonInv' /\ AliveInv' /\ LeaseInv' /\ AddressInv'
  BY <1>1, <1>2 DEF IInv, DaemonInv, AliveInv, LeaseInv, AddressInv
<1>5. UnusedInv'
  BY <1>1 DEF IInv, UnusedInv
<1>6. QED
  BY <1>3, <1>4, <1>5 DEF IInv

\* The steps that leave the client alone.
LEMMA OtherStep ==
  ASSUME IInv, owfd_dhcp_sfd_fn \/ IfaceDown \/ IfaceUp \/ UNCHANGED vars
  PROVE  IInv'
<1>1. /\ UNCHANGED <<client, client_addr, if_addr, replies, granted, age,
                     as_client, server_addr, flush_failed>>
      /\ loop' = loop \/ (loop = "run" /\ loop' = "quit")
      /\ (~faulted => up) => (~faulted' => up' /\ ~faulted)
  BY DEF owfd_dhcp_sfd_fn, IfaceDown, IfaceUp, vars, daemon
<1>2. DaemonInv' /\ ClientInv' /\ UnusedInv'
  BY <1>1 DEF IInv, DaemonInv, ClientInv, UnusedInv
<1>3. AliveInv' /\ LeaseInv' /\ AddressInv'
  BY <1>1 DEF IInv, AliveInv, LeaseInv, AddressInv
<1>4. QED
  BY <1>2, <1>3 DEF IInv

\* Every step keeps the invariant.
LEMMA Inductive == IInv /\ [Next]_vars => IInv'
BY TimerStep, PacketStep, ErrorStep, TickStep, RunStep, SetupStep, TeardownStep, OtherStep
DEF Next, Handle

\* The invariant holds at first.
LEMMA Initial == Init => IInv
<1> SUFFICES ASSUME Init
             PROVE  IInv
  OBVIOUS
<1>0. /\ {DISCOVER_RETRIES, REQUEST_RETRIES, LEASE_LIMIT, MaxReplies} \subseteq Nat /\ DISCOVER_RETRIES > 0
      /\ NoTimer \in Timer /\ ~Live(NoTimer) /\ NoTimer.fn = "none"
  BY ClientAssumption DEF NoTimer, Timer, Fn, Live
<1>1. client \in Client
  BY <1>0 DEF Init, Client, States, Mode
<1>2. /\ client.timer = NoTimer /\ client.leaked = {} /\ client.state = "INIT_SELECTING"
      /\ client.retry_times = 0 /\ client.ack_retry_times = 0 /\ client.lease_seconds = 0
      /\ client.mode = "L_NONE" /\ client.watch = FALSE /\ client.cb = "none"
  BY DEF Init
<1>3. Good(client) /\ Unused(client)
  BY <1>0, <1>1, <1>2 DEF Good, Unused, Leased
<1>4. DaemonInv /\ ClientInv /\ UnusedInv
  BY <1>0, <1>2, <1>3 DEF Init, DaemonInv, ClientInv, UnusedInv
<1>5. AliveInv /\ LeaseInv /\ AddressInv
  BY DEF Init, AliveInv, LeaseInv, AddressInv
<1>6. QED
  BY <1>4, <1>5 DEF IInv

-----------------------------------------------------------------------------
\* The invariant holds of every state that the daemon reaches.
THEOREM Invariant == Spec => []IInv
BY Initial, Inductive, PTL DEF Spec

\* g_timeout_add and g_source_remove: whatever packets and timers come in which
\* order, the client has no timer but the one of its state, never loses track of
\* one, and has one as long as it runs.
THEOREM TimerFitsStateHolds == Spec => []TimerFitsState
<1>1. IInv => TimerFitsState
  <2> SUFFICES ASSUME IInv
               PROVE  TimerFitsState
    OBVIOUS
  <2>1. /\ client \in Client /\ Good(client)
        /\ DISCOVER_RETRIES \in Nat /\ REQUEST_RETRIES \in Nat /\ LEASE_LIMIT \in Nat
    BY Constant DEF IInv, ClientInv, Good
  <2>2. TypeOK
    BY <2>1 DEF IInv, DaemonInv, Client, Mode, Good, TypeOK
  <2>3. QED
    BY <2>1, <2>2 DEF IInv, AliveInv, Good, TimerFitsState
<1>2. QED
  BY Invariant, <1>1, PTL

\* switch_listening_mode: a client that waits for an answer has the socket open
\* on which the answer comes.
THEOREM ListensHolds == Spec => []Listens
<1>1. IInv => Listens
  BY DEF IInv, AliveInv, Hears, Listens
<1>2. QED
  BY Invariant, <1>1, PTL

\* For every lease time that a server sends and all limits of the client, the
\* address is given up before its lease has ended.
THEOREM LeaseNotOverrunHolds == Spec => []LeaseNotOverrun
<1>1. IInv => LeaseNotOverrun
  <2> SUFFICES ASSUME IInv, loop = "run", Leased(client), client.timer.fn # "restart_dhcp_timeout"
               PROVE  age < granted
    BY DEF LeaseNotOverrun
  <2> DEFINE l == client.timer.left
             r == Rest(client)
  <2>1. age + l + r <= granted /\ age \in Nat /\ granted \in Nat
    BY DEF IInv, LeaseInv, DaemonInv
  <2>2. l \in Nat
    BY DEF IInv, ClientInv, Good, Client, Timer
  <2>3. r \in Nat /\ r >= 1
    <3>1. /\ client.lease_seconds \in Nat
          /\ client.state # "RENEWING" => client.lease_seconds >= 1
      BY Constant DEF IInv, ClientInv, Good, Client, Leased
    <3>2. QED
      BY <3>1, Halves DEF Rest
  <2> HIDE DEF l, r
  <2>4. QED
    BY <2>1, <2>2, <2>3
<1>2. QED
  BY Invariant, <1>1, PTL

\* client_lease_fn: the interface, the daemon and the client agree on the address.
THEOREM ConfiguredIsAssignedHolds == Spec => []ConfiguredIsAssigned
<1>1. IInv => ConfiguredIsAssigned
  <2> SUFFICES ASSUME IInv, loop = "run", Leased(client)
               PROVE  if_addr = client.assigned_ip /\ client_addr = if_addr
    BY DEF ConfiguredIsAssigned
  <2>1. client.assigned_ip # None
    BY ClientAssumption DEF IInv, ClientInv, Good
  <2>2. QED
    BY <2>1 DEF IInv, AddressInv
<1>2. QED
  BY Invariant, <1>1, PTL

\* owfd_dhcp_teardown: wherever the daemon failed, it leaves no address behind.
THEOREM LeavesNoAddressHolds == Spec => []LeavesNoAddress
<1>1. IInv => LeavesNoAddress
  BY DEF IInv, AddressInv, LeavesNoAddress
<1>2. QED
  BY Invariant, <1>1, PTL

=============================================================================

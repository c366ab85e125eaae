# A TLA+ model of openwfd

openwfd is an implementation of Wi-Fi Display (Miracast) in C: daemons that
bring up a Wi-Fi P2P link through wpa_supplicant and assign addresses on it by
DHCP, and a library for the RTSP control channel that runs over it. This
directory holds TLA+ modules for its stateful parts, TLC configurations that
check them on small instances, and proofs that TLAPS checks for every instance.
Paths below are relative to the repository.

## 1. Inventory

| component | source | state | operations | what makes it correct |
|---|---|---|---|---|
| ring buffer | `src/shl_ring.c`, `.h` | block, size, read and write index | push (may resize), pull, peek, copy, flush, clear | it is a FIFO; no index leaves the block; no unwritten byte is read |
| RTSP decoder | `src/rtsp_decoder.c` | ring, machine state, last character, body bytes to come, lines of the message so far | feed (per character), flush | delivers each message exactly once, as sent, wherever TCP cuts the stream |
| RTSP control channel | `src/rtsp_ctrl.c` | descriptor, connected bit, callback, out ring, epoll events | open, close, send, dispatch (reads, writes, callback) | re-entrant calls from the callback never mix two connections; queued bytes get written |
| DHCP server | `src/gdhcp/server.c` | lease list sorted by expiry, hash by address, listener watch | one handler per packet type, start, stop | list and hash agree; one lease per client and address; a granted address is nobody else's |
| wpa_supplicant client | `src/wpa_ctrl.c` | request and event socket, ping timer, the waiting request | open (ATTACH), close (DETACH), request with timeout, dispatch, event callback | a request returns its own reply in time; no event is lost; a silent supplicant is noticed |
| P2P daemon | `src/p2pd.c`, `src/p2pd_interface.c` | child process, signalfd, epoll set, services | fork, wait for the child, dispatch signals, kill and reap | on every way out the child is gone or told to go; its end, or a fatal signal, ends the daemon |
| DHCP daemon | `src/dhcp.c` | client or server, interface address, pipe to the parent | set up, lease and no-lease callbacks, signals, tear down | the address set is the leased one and is removed on exit |
| DHCP client | `src/gdhcp/client.c` | machine state, timers, listening mode | discover, request, renew, rebind | timers of a left state never fire; T1 before T2 before expiry |
| link-local addresses | `src/gdhcp/client.c`, `ipv4ll.c` | machine state, timer, counters of probes and conflicts | probe, announce, defend, give up | no two hosts use the same address; newcomers do not drive owners away; conflicts end |
| packet format | `src/gdhcp/common.c` | the packet | add and find options, sockets | a receiver finds what was put in, and nothing outside the packet |
| event parser | `src/wpa_parser.c` | a struct with allocated strings | parse, reset | events are read as meant; nothing leaks when a step fails |
| RTSP tokenizer | `src/rtsp_tokenizer.c` | none | a pure function | tokens are the line's, escapes undone, and fit their block |
| configuration, logging, lists | `src/*_config.c`, `shl_log.c`, `shl_dlist.h`, `shared.c` | flat | parse, print, link | not stateful |
| wire structures, tool | `src/openwfd/*.h`, `tools/openwfd_ie.c` | none | definitions, a printer | no behaviour |

Interactions. The control channel queues what it sends in a ring; the user's
callback of the channel feeds what is received to the decoder, which keeps the
unfinished element in a ring of its own. The P2P daemon forks wpa_supplicant,
talks to it through the wpa_supplicant client, and receives signals through a
signalfd that its main loop watches together with the client's epoll
descriptor. A parent starts the DHCP daemon, which runs either the client or the
server inside glib's main loop. Everything is single-threaded: what is
concurrent is the peer, the child, the clock, the network, the signals, and the
callbacks, which re-enter the library in the middle of one of its operations.

The hard behaviours are therefore: callbacks that close and reopen what is being
dispatched; data cut at arbitrary places; events reported earlier and used after
the descriptor changed; timeouts and late replies; packets of several DHCP
clients interleaved, repeated or late; loss of the table at a restart; wraps and
resizes of the ring. `PROJECT.json` lists them as hazards, each with the source
line and the properties that would notice.

## 2. Modules

| module | models | composes |
|---|---|---|
| `RingFifo` | what the ring promises: an unbounded FIFO | |
| `ShlRing` | `shl_ring.c` | refines `RingFifo` |
| `ShlRingProofs` | its proofs | `ShlRing` |
| `RtspDecoder` | `rtsp_decoder.c` | uses the queue operators of `RingFifo` |
| `RtspDecoderProofs` | its proofs | `RtspDecoder` |
| `RtspStream` | a peer, TCP and the decoder | `RtspDecoder` |
| `RtspCtrl` | `rtsp_ctrl.c` with a re-entrant user | |
| `DhcpServer` | `gdhcp/server.c` on an unreliable network | |
| `DhcpGrants` | what the clients were promised, and restarts | `DhcpServer` |
| `DhcpServerProofs` | proofs of both, and of the options of a packet | `DhcpGrants`, `DhcpOptions` |
| `WpaCtrl` | `wpa_ctrl.c`, the supplicant and the clock | |
| `P2pd` | `p2pd.c`, `p2pd_interface.c`, `p2pd_dummy.c`, the child and the signals | |
| `P2pdProofs` | its proofs | `P2pd` |
| `GlibTimeout` | timeout sources of glib's main loop, as a client's one field names them | |
| `DhcpClient` | the IPv4 client of `gdhcp/client.c` inside of the daemon of `dhcp.c` | `GlibTimeout` |
| `DhcpClientProofs` | its proofs | `DhcpClient` |
| `Ipv4ll` | the link-local client of `gdhcp/client.c`, several hosts and their link | `GlibTimeout` |
| `Ipv4llProofs` | its proofs | `Ipv4ll` |
| `RtspTokenizer` | `rtsp_tokenizer.c` and a peer that writes lines | |
| `RtspProofs` | proofs of the channel and of the tokenizer | `RtspCtrl`, `RtspTokenizer` |
| `WpaParser` | `wpa_parser.c` and the events of wpa_supplicant | |
| `WpaProofs` | proofs of the client and of the parser | `WpaCtrl`, `WpaParser` |
| `DhcpOptions` | the options of a packet (`gdhcp/common.c` and its users) | |
| `MC*` | instances for TLC | |

Definitions carry the names of the C functions. A definition called
`f_Something`, placed before `f` and commented "Mutant", is a plausible mistake
in `f`; substituting it must violate the property named for it in
`PROJECT.json`.

### ShlRing

State: the record `ring` (`buf`, `size`, `start`, `end`), the result of the last
copy and the last call. A block is a function from `0 .. size - 1` to bytes, with the
value `Junk` for what malloc returns. The functions of the C file are operators
on a ring record; the two copies across the end of the block, the resize of
wrapped data and the two refusals of `ring_grow` are kept. `Sizes` is the set of
powers of two a `size_t` can hold, so that `ring_pow2` can have no answer. The
test `len = 0` early returns of C follow from the arithmetic.
The last call is part of the state only so that refinement has to match
call for call; otherwise a pull that does nothing would pass for a stuttering step.

### RtspDecoder and RtspStream

`dec` is `struct owfd_rtsp_decoder` and the local `rlen` of a feed under way.
One action (`FeedChar`) is one round of the loop in `owfd_rtsp_decoder_feed`, with the
`feed_char_*` functions as operators that return the new decoder, the message
handed to the callback, whether memory was needed and whether parsing failed.
`FeedCharNoMem` is the failure of such an allocation; it and parse errors end in
the flush at the end of the C function. Characters are classes: CR, LF, blank,
quote, backslash, NUL, text, and `content-length:<n>` as a single character with
the value n (so a length line in the middle of which the stream is cut is a
line cut before or after that character). The ring is the FIFO of `RingFifo`,
which `ShlRing` is proved to implement. `base`, `stream` and `msgs` are history
since the last reset; `Replay` is the reference for `ChunkInvariance`, the same
handlers run over the whole history at once.

`RtspStream` puts a peer before the decoder. What a peer may send is read off
the comments of `feed_char_header` and `test/test_rtsp.c`: lines ended by CR, LF
or CRLF, folded lines, padding, quoted strings, an empty line in any of the three
forms, a body of the announced length. The two combinations in which the end of
one element and the beginning of the next read as one CRLF are excluded
(`Ambiguous`).

### RtspCtrl

A dispatch is a sequence of steps, `pc` saying where it is, because the callback
may call send, close and open from within. A descriptor is the number of its
connection; a queued byte is the number of the connection it was queued for.
`epoll_wait` may report any non-empty set of events, OUT only where armed. A read
or write may fail, take nothing, take a part or succeed. `send_all` pulls nothing
from the ring, as in the code; `flushed` records that a complete write has
happened, after which the code leaves later sends unarmed. System calls on a
valid descriptor (`epoll_ctl` with MOD in `owfd_rtsp_ctrl_send`) do not fail in
the model. Reference counts are not modelled: the user keeps its reference
while the callback runs.

### DhcpServer and DhcpGrants

The heap of lease objects, the list and the hash are separate variables, because
`get_lease` moves an object between them by hand; `g_list_remove` is the
community modules' `RemoveFirst`. An address has two bytes of
base `B`, so that `htonl` exists and the comparisons in which the code mixes
byte orders are kept as they are. Any packet may arrive at any time: this
covers loss, repetition and delay. `reply` is the packet sent last. `arp_check`
always answers TRUE in the source and is left out.
A field that the handler of a packet type does not read is 0. `DhcpGrants` adds
what each client was granted (`held`); a client gives its address up when it
declines or releases it, is told NAK or sends a DISCOVER. So a DISCOVER is taken
for the wish of the client. A late duplicate of one, received while the
client uses its address, has the same effect on the table: the lease becomes an
offer that has expired. The end of the server and a new one with an empty
table are not modelled: nothing is saved or loaded (`dhcp.c` sets no save
function and there is none to load), so what was granted before a restart is not
protected after it.

### WpaCtrl

One thread: `pc` is where it waits. While it waits for a reply (`send`, `recv`)
only the supplicant and the clock move. Sockets are queues of replies and
events; each reply remembers whether a later request of the same socket has begun
(`stale`). `elapsed` is the time since `start` was taken, `slept` the time in the
present `ppoll`, `total` (history) the time since the request began. The
ping timer counts down and stays readable until read or set again; `in_epoll`
says whether it is watched. The supplicant is external: it answers in order,
positively or not, sends events while attached, hangs or dies. DETACH has timeout
0 and is part of the closing step.

### P2pd

`pc` is where the daemon is: in `owfd_p2pd_setup` (`setup`, the loops of
`wait_for_wpa`, the requests of `wpa_setup`), in the main loop (`idle`,
`dispatch` for the events epoll_wait has reported, `serve` for a call of
`owfd_wpa_ctrl_dispatch`), in `kill_wpa`, or gone. All signals are blocked and
read from the signalfd, but the ppoll of a wait lets all of them except SIGPIPE
through to the empty `sig_dummy`, so that they interrupt it and are gone; the
mask that `fork_wpa` sets for the startup is never taken back, so this is so
for every later request too. A request is one wait with three outcomes (answered
as hoped, failed, interrupted); `cmd` says which request it is and where its
caller goes on. The child is external: it binds its socket and answers,
ends at any moment, and stays a zombie until `is_child_alive` reaps it. `TERM`
stands for the four fatal signals. `told`, `stray`, `started`, `swallowed` and
`stopped` are history.

### DhcpClient

The record `client` is `struct _GDHCPClient`; the C functions are operators from
one such record to the next, and one action is one callback of glib's main
loop: the timeout that is due (`TimerFires`), a packet (`PacketArrives`), an
error of the socket (`ListenerError`), a signal (`owfd_dhcp_sfd_fn`). A glib
source is a callback and the time left (`GlibTimeout`); `client.timer` is the one
that the field `timeout` names (`Stale` once it has fired, for the field is not
reset) and `leaked` are sources that the field has lost. Timers fire when they
are due, not later. `Becomes` runs the callbacks of the daemon
(`client_lease_fn`, `client_no_lease_fn`) as a part of the step. After quitting,
the loop may still dispatch what was due in the same iteration.

The daemon is `loop`, the two addresses it remembers and the one that the
interface has. `owfd_dhcp_setup` fails at any of its points, in both roles, and
tears down what it has made; flushing and adding an address may each fail. Of
the server the daemon sees start and stop.

At most `MaxReplies` packets arrive per transmission. Servers offer any address
and acknowledge what was requested under the present xid (`client.asked`), late
or twice included; packets of another xid or hardware address change nothing.
The interface may go down and up: a socket cannot be made then, and an open one
reports an error. `faulted`, `granted`, `age`, `flush_failed` and `client.asked`
are history. `last_address` is NULL, as `dhcp.c` passes it; subnet and gateway
are not modelled.

### Ipv4ll

Several hosts, each with a client record as above, and a link whose packets take
less time than the shortest timer (`Tick` waits for them). An ARP packet is its
two addresses. The random address, delays and intervals, and the outcome of the
ARP socket, are the choice `r` of a step. A host whose client has an address
answers requests for it by its kernel and uses it now and then (`Traffic`);
users start and stop a client, once at a moment. `watch` are the hosts whose client has
a source for its socket (`listener_watch`): it comes and goes with the listening mode,
and is gone after an error of the socket (`ListenerError`) while the mode stays `L_ARP`,
so that the client does not make another one before it gives up its address or is
stopped. Faults, at most `MaxFaults`, are a lost packet, a socket that cannot be made
or that fails (the code goes on in both cases; `deaf`), and two links that are joined
only later (`apart`). `conflicts` keeps its width (`UINT8` values): it also
counts ordinary requests for the address in use and wraps.

### RtspTokenizer, WpaParser, DhcpOptions

Three encodings with their readers, each checked against a writer that remembers
what it meant. `RtspTokenizer` runs the loop of the C function on each
character as the peer writes it, `tk` being its locals: the bytes from the beginning
of the block up to `dst` (`out`), or how far `dst` is in front of the block (`before`)
and whether something was written there (`stray`). The upper half of the
signed `char` reads as control characters, as in the code. The peer writes elements
(words, separators, blanks, quoted strings) and remembers them, or it is `wild` and
writes any characters (`WriteChar`), with quotes that stay open and every letter
behind a backslash. Words are made of
`Letters`, which are no blanks, quotes, separators or control characters. `Read` is
the walk of a caller through the block, from one terminating zero to the next.
`WpaParser` parses events and
arbitrary texts one after the other into one struct, whose payloads share their
place as in the union; every `strdup` may fail, and `live` counts the strings
that are allocated. A text is a sequence of pieces that the parser tells apart.
`DhcpOptions` has packets byte by byte: those that client and server write, up
to the limit of the buffer, and those of another implementation, which pads,
repeats and overloads the fields `file` and `sname`. Here the client's and the
server's options come in any order, which includes theirs. The loop of
`dhcp_get_option` is a sequence of rounds, as many as the fields have bytes: each round takes
a byte at least. Only an overload option inside of `file` or `sname` that names a
searched field again could take more rounds; no packet here has one.

## 3. Runs

All runs end within two minutes on two workers.

| run | states | shows |
|---|---|---|
| `ring` | 178 435 | bounds, no unwritten byte, FIFO; blocks up to 8 bytes, chunks of 0, 1 and 3: a wrap at every offset, a resize of data in two stretches, a push that nothing can hold |
| `decoder` | 675 690 | bookkeeping, meaning of the states, room in the header array, independence of chunking, over CR, LF, quote, text and a length line; streams of 5 with chunks of 1 and 2, one left-over line |
| `stream` | 273 021 | up to two messages of five shapes in all line ends are delivered exactly when due |
| `rtsp_ctrl` | 2 966 | three connections, two reads per dispatch, two queued bytes: no mix-up of connections, order of callbacks, armed output |
| `dhcp_server` | 16 893 (up to permuting the clients) | three clients and one with a forbidden hardware address, two addresses, three moments: table, sort order, live leases, exclusive addresses for the whole lease time |
| `wpa_ctrl` | 315 206 | timeouts 0 to 2: waits bounded by the timeout, own replies, no lost event; liveness: a supplicant that stops is noticed |
| `p2pd` | 11 903 | two polls and two setup requests, signals and the end of the child at any step: no orphan, no signal to a reaped pid after the startup; liveness: the end of the child is noticed even if its SIGCHLD was swallowed, a fatal signal ends the daemon |
| `dhcp_client` | 83 678 | two addresses, leases of 10, 29 and 31 seconds, both roles of the daemon: one timer, the right one; a client that waits listens; leases are not overrun; the interface has the assigned address while the lease is held, and none at the end; liveness: bounded retries |
| `ipv4ll` | 200 478 | two hosts, two addresses, one fault: no duplicate address, one timer, no owner driven away; liveness: probing ends, and duplicates of joined links are resolved |
| `parsers` | 170 310 | lines of up to four elements or six arbitrary characters, texts of up to three words, packets with up to four things of a peer: tokens and their room, strings that are allocated, meaning of events, options found again |

Bounds. Five characters are enough for a header of one line, the empty line in
any form, a body and the first character of the next message, cut everywhere;
longer messages, escapes and binary zeroes are the business of `stream`.
Three connections are enough for the callback to replace the connection twice in
one dispatch. Two addresses and three clients exhaust the range, and three moments let
every lease be live, just expired and long expired. Two units of timeout let the
wait loops go round twice before they must end. Two polls and two setup requests
let the startup fail in the first, a middle and the last round. The client's
timeouts of 3 seconds, the limit of 6 for rebinding and the shortest lease of 10
are the code's; the limit for renewing is 14 instead of 60, the default lease 31
instead of 3600 and lease times have 6 bits instead of 28, so that one lease is
renewed, one rebound with a transmission and one lost at the first rebinding.
3 discoveries and 2 requests stand for 10 and 5. Link-local delays are 1 or 2
units, 2 probes, announcements and conflicts stand for 3, 2 and 10, and a
`uint8_t` has 3 values, so that `conflicts` wraps above the limit; two hosts with
two addresses collide in every combination of states, and one fault is what the
two probes can make up for. In `parsers` every kind of element meets every other,
in both orders, and six characters are enough to open a string, leave the block by
`\0` and come back into it; 29 bytes of options are too few for all that a server adds, so
that each of them is left out in some packet.

`rtsp_ctrl`, `stream`, `p2pd` and `parsers` do not check for deadlock: a user may
stop calling, a stream, a line or a packet ends, and so does a daemon. In `dhcp_client` the check says
nothing, because the interface can always go down or up.

A module's `TypeOK` is a conjunct of the invariant that says most about its state
(`Bookkeeping`, `TableConsistent`, `BoundedWait`, `NoOrphan`, `TimerFitsState`), or
is proved.

Runs that are expected to be violated, each a disagreement between the code and
its own comments (`findings` in `PROJECT.json` quotes them):

| run | what happens |
|---|---|
| `rtsp_ctrl_reopen` | the connection that the callback opened is closed by the dispatch |
| `dhcp_offer` | the entry of an offer has expired when it is made |

Some properties are stated with the condition under which the code keeps them:
`OwnReply` as long as no request of the connection gave up (afterwards a late
reply can be taken for the next request's), `QueuedIsArmed` until the first
complete write, `PingDetects` while the timer is watched (a failed ping takes it
out of the epoll set for good, also for a connection opened later), `OldestLast`
while the difference of two times fits a gint (until 2038), `KillsOwnChild` after
the startup (in it `wait_for_wpa` may reap the child and `kill_wpa` signal its
pid), `TermEnds` for a signal that no request has swallowed, and `NoOrphan` for a
child that was not stopped by job control (its SIGCHLD is taken for its end and
it is left running). `BoundedWait` says that a request does not wait too long; it
may give up early, because the time since `start` is subtracted again from a
timeout that the round before has already reduced. In `DhcpClient`,
`LeaseNotOverrun` excepts a client that waits 3 seconds to restart after a NAK;
`TimerFitsState`, `Listens` and `Settles` hold until the interface fails, after
which `restart_dhcp`, which ignores the result of the start, can leave a client
without timer and listener. `ConfiguredIsAssigned` speaks of a lease that is held:
the daemon registers no callback for a lost one (`dhcp.c:499`), so that its
address stays on the interface until the next lease or the end. `Settles` is also
satisfied when the daemon ends: it does so when a renewal is
not answered within 3 seconds, although half of the lease is left.

In `Ipv4ll`, `Unique` and `Incumbent` are about hosts that are on one link from
the beginning and hear each other all along. The code does not give more: it ignores
the result of `switch_listening_mode`, and after an error of the ARP socket
(`client.c:2225`) it drops the source and keeps the mode, so that a client without a
working socket probes unanswered, takes the address and claims it, which may cost its
owner the address. `OneTimer` and `ProbingEnds` are checked for such hosts too.
`Resolves` is about hosts that share an address, as after links were joined, as long
as both hear. In `stream` the peer begins no message with a quote (`feed_char_new` enters
`STATE_HEADER` for it, so that the string may be cut at a line end).

`TokensExact` is about lines of elements, whose peer does not write the escape `\0`.
The comment at `rtsp_tokenizer.c:90` says that this escape is dropped; the code does
`--dst`, which takes back the byte before it, be it the end of another token, and which
moves `dst` in front of the block when nothing was written yet. The lines of a `wild`
peer have it. `BlockFits` says of every line that nothing is written behind the block,
and of every line without `\0` that nothing is written in front of it; on a line
that begins with `"\0`, such as the one at `test_rtsp.c:281`, the model, like the code,
writes its next byte in front (`stray`). The test reads the 0 that was put into the
block at the beginning, and does not notice.

The peer of `DhcpOptions`
writes an overload option only into the field `options`.

Fairness is assumed in `wpa_ctrl`, `p2pd`, `dhcp_client` and `ipv4ll`. In `wpa_ctrl`, for `PingDetects`, the clock (`Tick`) is
strongly fair: real time passes however often the thread is busy, and Tick is
disabled only during steps that take no time. `timed_send`, `timed_recv` and
`ppoll_timeout` are weakly fair: ppoll returns when the socket is ready or the
timeout is over. The dispatch is strongly fair: the daemon's epoll loop, which
watches the client's descriptor, calls it again after every return. The
callback returns. The supplicant and the user are not fair at all.

In `p2pd` the daemon does not stop between two of its steps, and a request ends
(by its timeout, which `BoundedWait` of `WpaCtrl` shows). Strong fairness says
that the ping timer, which has an interval, expires again and again and is
reported and served (`epoll_wait` with the control socket, `wpa_ping`), that the
events queued for one dispatch run out (`wpa_done`), and that someone who keeps
sending SIGPIPE does not hold back the other signals (`dispatch_sfd`). Neither
the child nor those who send signals are fair.

In `dhcp_client` weak fairness says that time passes (`Tick`), that a timer that
is due is dispatched (`TimerFires`), and that the daemon starts its client and,
once told to quit, tears down. Packets, socket errors, signals and the
interface are not fair.

In `ipv4ll` weak fairness says that time passes (`Tick`), that a timer that is due
is dispatched (`TimerFires`), that a packet that is not lost is read (`Deliver`),
and that a host with an address uses it now and then (`Traffic`), without which
two silent owners of one address would never hear of each other. Users who start
and stop clients are not fair, but do so at most once at a moment, so that time
is not held up.

## 4. Proofs

`ShlRingProofs` (any byte set, any set of sizes with a least element in each part,
any caller):

* `RingSafety`: `Spec => [](TypeOK /\ NoJunkRead)`, and its part `RingNoJunk`.
  `NoJunkRead` includes the bounds of the indexes. The inductive
  invariant is the conjunction; bounds are needed for the blocks that memcpy
  reads, and "no junk between start and end" is carried through each of the
  three shapes of the data (empty, in one stretch, wrapped) by lemmas on memcpy,
  push, pull and resize.
* `RingRefinement`: `Spec => ImplementsFifo`. For each operation a lemma says
  what it does to `Content(ring)`: a resize keeps it, a push appends, a
  pull drops a prefix, a copy returns one.

`RtspProofs`, about the channel (any number of connections, rounds and queued bytes):

* `ChannelSafety`: `Spec => [](TypeOK /\ NoStaleBytes /\ DispatchOnOwnConnection
  /\ QueuedIsArmed)`. These are not inductive: the strengthening says that
  `connected` implies an open channel whose connection was reported, that in a
  callback a connected channel is still the dispatched one (because a new one is
  not connected before its own first event), and that connection numbers never
  exceed `opened`. `NoStaleBytesProved`, `OwnConnectionProved` and
  `QueuedIsArmedProved` state its parts.
* `CallbackOrderProved`: `Spec => CallbackOrder`, from the same invariant.

About the tokenizer (any letters, words, separators, blanks and strings, lines of any
length; `PeerAssumption` says what a word and a separator are):

* `BlockFitsHolds`: `TSpec => []BlockFits`, for lines of elements and for any
  characters (`Anything` may be all of them). Each character takes at most two bytes of the
  block, the zero of the word that is still open included, and as long as there is no
  escape `\0`, `dst` does not leave it (`FitsInv`); of lines of elements the second part
  is known from `ExactInv`.
* `TokensExactHolds`: `TSpec => []TokensExact`, for lines of elements. The invariant (`ExactInv`) says that
  between two elements the tokenizer is outside of quotes, has a word open exactly if
  the peer has one, and that the block is the tokens one after the other, each with its
  zero (`Laid`). A quoted string is undone escape by escape (`StringAdds`), and a token
  has no zero in it, which is why the walk of `Read` stops where the token ends.

`P2pdProofs` (any number of polls and of setup requests): `NoOrphanHolds` and
`KillsOwnChildHolds`. Neither is inductive. The strengthening says what the daemon
knows at each place of its code: from the fork on it has a pid, from ATTACH to
the teardown an open channel (`KnowsChild`); a child without a pid, or one whose
SIGCHLD is pending, has ended or was stopped (`ChildInv`); it is reaped only on
the way out of a failed startup (`ReapedInv`), which is why the pid that
`kill_wpa` signals after the startup is still the child's.

`WpaProofs`, about the client (every maximal timeout, timer period and length of the queues):

* `BoundedWaitHolds`: what was waited plus what the present ppoll may still
  sleep is at most what the caller asked for (`TimeInv`). Together with "a sleep
  began after `start` was taken" this is kept when the loop subtracts the time
  since `start` from the timeout.
* `OwnReplyHolds`: on a socket on which nobody gave up, nothing is under way except
  the present request or its reply, once (`ReplyInv`). That is what a timeout destroys.
* `EventsKeptHolds`: the number of queued events, as the cardinality of a set
  of positions, shrinks only by the step that calls the callback.

About the parser (any texts, names, priorities and number of words):

* `NothingLeaksHolds`: `ESpec => []NothingLeaks`. The invariant (`LeakInv`) adds that a
  struct holds a string only if its type is one for which `owfd_wpa_event_reset` frees
  it, which each parser keeps when it stops halfway (`PayloadOwns`).
* `ReadAsMeantHolds`: `ESpec => []ReadAsMeant`. A quoted name, whatever its pieces, is read
  as one token that undoes its quotes and leaves the tokenizer between words (`Reads`);
  so each form of event has its tokens at the places where its parser looks.

`RtspDecoderProofs` (every alphabet, chunk, stream and initial header size):
`BookkeepingHolds`, `StateMeaningHolds`, `HeaderFitsHolds`. Each `feed_char_*` has a
lemma of one form (`Parsed`): it drops a prefix of the ring, and what is left of the
parsed bytes is what `rlen` says. The invariant is about `rlen`, which is kept
across feeds, where the properties count from the unread rest of the chunk; "a
feed under way has exactly `todo` after the first `rlen` bytes" connects the two.

`ChunkInvarianceHolds`, in the same module, compares the decoder with one that was
given all bytes since the last reset in one piece. The handlers look at the ring only up to
`rlen`, so a character does the same to a decoder with more bytes behind it (`Longer`,
one lemma per handler). Feeding a chunk therefore lengthens every decoder of the
replay so far and changes nothing else, and the next character continues it
(`ReplayInv`: dec and msgs are where the replay of the bytes that are not in `todo`
ends). `DistinctAssumption` says that the four characters that the handlers compare with
are different.

`DhcpServerProofs` (every range, number of clients and objects, lease time):

* `TableConsistentHolds`, with uniqueness of clients and addresses part of the
  property, is inductive. Each handler has a lemma that says which of four
  things it does to the table (`Effect`): nothing, a lease put in, one taken back
  and put in again as ended, one shortened in its place.
* `PromiseKeptHolds` follows from the same lemmas.
* `OldestLastHolds`, from the list being sorted and all ends within a gint
  (`SortInv`), under `TimesFit`: clock and clock plus lease time fit `INT_MAX`, as they do
  until 2038. Beyond that the difference in `compare_expire` overflows.
* `LeaseTimeFixedHolds` and `ExclusiveHolds`, of `DhcpGrants`: a grant that has not
  ended is a lease of the table with the same client, address and end (`Granted`).
  Exclusiveness is then uniqueness of addresses in the table. A client's
  own DISCOVER, which shortens its lease to that of an offer, ends its grant.

The only assumptions besides types are that `None` is no lease and no grant
(`ServerAssumption`): it stands for NULL.

`OptionsReadBackHolds`, in the same module: `OSpec => []OptionsReadBack`, for every size of the fields,
all numbers, lists and values, and all options of a peer. The invariant (`OptInv`)
says of each field in use that a reader's marks can be laid through it (`Laid`),
from its first byte to its end, so that from one mark to the next there is a padding,
an overload option or the next option that was written (`Passes`). Bytes copied to the
end of a field leave the marks where they were and add one (`Appended`). Both readers
step from mark to mark: `dhcp_end_option` stops at the last one (`EndFound`), and a round of
`dhcp_get_option` passes a mark or returns the data there (`RoundPasses`), so that it
finds the first option with the code over all fields, or nothing (`ReadBack`). For
client and server the end is where the sizes of the options say (`Exact`), which is how
the guard of `dhcp_add_binary_option` keeps it inside of `OPTIONS_BUFSIZE`. `add_request_options` has
no guard; there the sum of a type and the three numbers of a client (`Most`), with
`RoomAssumption`, leaves room for the list. `OptionAssumption` says that what is put in consists of
bytes, with a length that fits a byte and a code that is none of the three with a meaning
of their own. The proof showed that a peer, unlike client and server, may use the
`EXTEND` bytes behind `OPTIONS_BUFSIZE`, so the property asks for the end's place only of
those two.

`DhcpClientProofs` (all timeouts, retry counts, lease times and addresses within
`ClientAssumption`: limits of the code in their order): `TimerFitsStateHolds`, `ListensHolds`,
`LeaseNotOverrunHolds`, `ConfiguredIsAssignedHolds`, `LeavesNoAddressHolds`, all from
one invariant. The handlers call each other; a lemma per handler says what it makes of
the client's record. The invariant adds the retries that
a timer may still count, and for the lease
`LeaseInv`: its age, the time until the timer is due and what is then left
to renew or rebind are together at most the time granted. It is kept by each
halving of `start_renew_request_timeout` and `start_rebound_timeout`, where the rounding of integer
division is in the client's favour. `AddressInv` relates the address of the interface to
both pointers by which the teardown decides.

`Ipv4llProofs` (any number of hosts and addresses, any intervals):

* `OneTimerHolds`, with any faults, from an account of timer, retries and address
  state by state (`Fits`).
* `UniqueHolds` and `IncumbentHolds`, under `FewFaults`: fewer faults than
  `PROBE_NUM`; with as many, all probes of a host may be lost and the address is taken twice. The
  argument counts. Each probe that reaches a rival, or its answer, makes one of the two give up; so
  of two that keep the same address one has lost all of its probes except one that
  is still under way (`ContestInv`; with a socket missing or failed nothing of this is
  claimed, and as long as none is, who has sent a probe hears: `SocketInv`), and a host goes on only when none of its own is
  (`WaitInv`). No two hosts are therefore done with probing for the same
  address, and no claim is under way to a host that is (`ClaimInv`).

What is proved about readers of sequences (`FoldLeft` over a line or a text, `Replay`,
`Read`) is an induction over data. It is done without an induction theorem that takes
an operator: the set of the positions at which the claim fails is a set of naturals, and
`WFMin` of the library, with `NatLessThanWellFounded`, gives its least element, whose
predecessor refutes it. For folds, a lemma says once that a fold is the last element of the
sequence of its intermediate values; for recursive functions, that the function
exists and satisfies its equation.

Each inductive invariant was checked with TLC, as an invariant of the instance of
its module's run, before it was proved; of `ExactInv`, `ReplayInv` and `OptInv`, which say
that a sequence of intermediate values exists, the part that TLC can evaluate.

Only model-checked, and why:

* liveness (`PingDetects`, `ChildDeathNoticed`, `TermEnds`, `Settles`, `ProbingEnds`,
  `Resolves`), which the prover does not reach;
* `Delivered` of `RtspStream`: that a parse of a well-formed stream gives back its messages
  needs, beyond `ChunkInvarianceHolds`, a proof about the grammar of messages, all its line
  ends, foldings and paddings, and the sanitising of header lines.

## 5. Not modelled

* DHCPv6 in `gdhcp/client.c` and `common.c`, about half of the former: no program of the
  repository creates a client of that type.
* Raw sockets, packet filters and checksums (`gdhcp/common.c`): calls into the
  kernel without state of their own.
* Configuration, logging, lists, wire structures and the tool, which have
  no behaviour of their own to check.
* Reference counts, and a user who stops a client from inside its link-local
  lost callback.
* The end of a DHCP server and the setters of its configuration; the list of the
  P2P interface's event users; the bytes on the wire of the control channel.

## 6. Plan

Order of work, the most important behaviour first:

1. done: `ShlRing`, `RtspDecoder`, `RtspStream`, `DhcpServer`, `DhcpGrants`,
   `RtspCtrl`, `WpaCtrl`, `P2pd`, `DhcpClient` with both roles of the daemon,
   `Ipv4ll`, `RtspTokenizer`, `WpaParser`, `DhcpOptions`; proofs of the safety
   properties of all of them but `RtspStream`.
2. `DhcpLink`: `DhcpClient` and `DhcpServer` over a lossy network. The address
   the client configures is the one the server has leased to it, and a renewal
   reaches its lease (the server compares ciaddr in the wrong byte order and
   ignores it).
3. More theorems about the modules that have proofs: an abstract DHCP server
   (a partial map from clients to addresses, one to one) that `DhcpGrants`
   implements; that a message the decoder delivers is made of bytes fed since
   the last reset, in order.

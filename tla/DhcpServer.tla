----------------------------- MODULE DhcpServer -----------------------------
(***************************************************************************)
(* The DHCP server of src/gdhcp/server.c: the lease table (a list sorted   *)
(* by expiry and a hash from address to lease, sharing the lease objects), *)
(* the handler of one received packet, and the start and stop of the       *)
(* listener.                                                               *)
(*                                                                         *)
(* Addresses have two bytes of base B instead of four of base 256, so that *)
(* byte order, which the code mixes up in places, is still there.  Packets *)
(* come from an unreliable network: any packet of any client may arrive at *)
(* any time, late, twice or not at all.                                    *)
(***************************************************************************)
EXTENDS Integers, Sequences, FiniteSets, SequencesExt

CONSTANTS
  B,             \* the base of an address byte (256)
  Mac,           \* the hardware addresses of the clients
  BadMac,        \* the broadcast and the all-zero hardware address
  Mentioned,     \* the addresses that clients put into packets
  LeaseId,       \* the heap objects that can be a struct dhcp_lease
  None,          \* no lease, no hash entry
  start_ip, end_ip,   \* the range, in host byte order
  server_nip,    \* the server's address, in network byte order
  lease_seconds,
  OFFER_TIME,
  INT_MAX,       \* the largest gint
  Boot,          \* the time at which the server is created
  MaxTime        \* bound: the last moment modelled

Addr == 0 .. B * B - 1        \* 0 stands for "no address"

Int32 == -INT_MAX - 1 .. INT_MAX

ASSUME ServerAssumption ==
  /\ B \in Nat \ {0, 1}
  /\ start_ip \in Addr \ {0} /\ end_ip \in Addr
  /\ server_nip \in Addr \ {0}
  /\ Mentioned \subseteq Addr
  /\ {lease_seconds, OFFER_TIME, INT_MAX, Boot, MaxTime} \subseteq Nat
  /\ None \notin LeaseId
  /\ None \notin [mac : Mac, nip : Addr, expire : Nat]
  /\ None \notin [nip : Addr, until : Nat]

VARIABLES
  lease,         \* the heap: what each lease object holds, None if it is free
  lease_list,    \* the list of lease objects
  nip_lease_hash,\* address -> lease object or None
  started,       \* the started flag
  listening,     \* the listener's watch is in the main loop
  now,           \* time(NULL)
  reply          \* the answer to the packet handled last: to whom, what

table == <<lease, lease_list, nip_lease_hash>>
vars == <<table, started, listening, now, reply>>

-----------------------------------------------------------------------------
\* Two bytes swapped: htonl and ntohl on a little-endian machine.
htonl(a) == (a % B) * B + (a \div B)

ntohl(a) == htonl(a)

\* A difference of two times returned as gint.
gint(x) == ((x + INT_MAX + 1) % (2 * (INT_MAX + 1))) - INT_MAX - 1

\* Mutant: the earlier expiry first.
compare_expire_Swapped(l1, l2) == gint(l1.expire - l2.expire)

\* Negative if lease1 goes before lease2: the later expiry first.
compare_expire(l1, l2) == gint(l2.expire - l1.expire)

\* g_list_insert_sorted: before the first element that does not go before it.
insert_sorted(heap, list, id) ==
  LET after == {i \in DOMAIN list : compare_expire(heap[id], heap[list[i]]) <= 0}
      pos   == IF after = {} THEN Len(list) + 1 ELSE Min(after)
  IN  InsertAt(list, pos, id)

is_expired_lease(id) == lease[id].expire < now

find_lease_by_mac(mac) ==
  LET hits == {i \in DOMAIN lease_list : lease[lease_list[i]].mac = mac}
  IN  IF hits = {} THEN None ELSE lease_list[Min(hits)]

find_lease_by_nip(nip) == nip_lease_hash[nip]

\* The addresses find_free_or_expired_nip walks over, first to last.
Usable(ip) == ip % B # 0 /\ ip % B # B - 1

find_free_or_expired_nip ==
  LET free == {ip \in start_ip .. end_ip :
                 Usable(ip) /\ find_lease_by_nip(ip) = None}
      last == Last(lease_list)
  IN  IF free # {} THEN Min(free)
      ELSE IF lease_list # <<>> /\ is_expired_lease(last) THEN lease[last].nip
      ELSE 0

\* Mutant: an address of the range may be asked for whoever has it.
check_requested_nip_Leased(nip) == nip # 0 /\ nip >= start_ip /\ nip <= end_ip

check_requested_nip(nip) ==
  /\ nip # 0
  /\ nip >= start_ip
  /\ nip <= end_ip
  /\ LET id == find_lease_by_nip(nip) IN id # None => is_expired_lease(id)

\* get_lease returns 0 (its -ENOMEM is the case where no object is left).
LeaseAllowed(yiaddr, mac) ==
  /\ yiaddr # 0
  /\ ntohl(yiaddr) >= start_ip
  /\ ntohl(yiaddr) <= end_ip
  /\ mac \notin BadMac

\* The object that add_lease fills: the address's lease before the client's,
\* and a new one if there is neither.
get_lease(yiaddr, mac) ==
  LET byMac == find_lease_by_mac(mac)
      byNip == find_lease_by_nip(ntohl(yiaddr))
      free  == {id \in LeaseId : lease[id] = None}
  IN  IF byNip # None THEN byNip
      ELSE IF byMac # None THEN byMac
      ELSE IF free # {} THEN CHOOSE id \in free : TRUE
      ELSE None

\* Take the old leases of the address and of the client out of the table and
\* put a new one in; a time of 0 asks for the full lease time.  RemoveFirst is
\* g_list_remove, which leaves a list without the element as it is.
add_lease(expire, mac, yiaddr) ==
  LET byMac == find_lease_by_mac(mac)
      nip   == ntohl(yiaddr)
      byNip == find_lease_by_nip(nip)
      gone  == {byMac, byNip} \ {None}
      rest  == RemoveFirst(RemoveFirst(lease_list, byNip), byMac)
      id    == get_lease(yiaddr, mac)
      keys  == {nip} \cup (IF byMac = None THEN {} ELSE {lease[byMac].nip})
      new   == [mac |-> mac, nip |-> nip,
                expire |-> IF expire = 0 THEN now + lease_seconds ELSE expire]
      heap  == [i \in LeaseId |->
                  IF i = id THEN new ELSE IF i \in gone THEN None ELSE lease[i]]
  IN  /\ lease' = heap
      /\ lease_list' = insert_sorted(heap, rest, id)
      /\ nip_lease_hash' = [a \in Addr |-> IF a = nip THEN id
                                           ELSE IF a \in keys THEN None
                                           ELSE nip_lease_hash[a]]

\* Mutant: the hash keeps the freed object.
remove_lease_KeepHash(id) ==
  /\ lease_list' = RemoveFirst(lease_list, id)
  /\ lease' = [lease EXCEPT ![id] = None]
  /\ UNCHANGED nip_lease_hash

remove_lease(id) ==
  /\ lease_list' = RemoveFirst(lease_list, id)
  /\ nip_lease_hash' = [nip_lease_hash EXCEPT ![lease[id].nip] = None]
  /\ lease' = [lease EXCEPT ![id] = None]

lease_set_expire(id, expire) ==
  LET heap == [lease EXCEPT ![id].expire = expire]
  IN  /\ lease' = heap
      /\ lease_list' = insert_sorted(heap, RemoveFirst(lease_list, id), id)
      /\ UNCHANGED nip_lease_hash

-----------------------------------------------------------------------------
\* What a client may send: requested_nip as get_be32 reads it, ciaddr as it is
\* in the packet, 0 or None for an option that is not there.  A field that the
\* handler of the type does not read is 0.
Packet ==
  {p \in [type : {"DISCOVER", "REQUEST", "DECLINE", "RELEASE", "INFORM"}, mac : Mac,
          requested_nip : Mentioned, ciaddr : {htonl(a) : a \in Mentioned},
          server_id : {server_nip, 0, None}] :
     /\ p.requested_nip # 0 => p.type \in {"DISCOVER", "REQUEST", "DECLINE"}
     /\ p.ciaddr # 0 => p.type \in {"REQUEST", "RELEASE"}}

Send(type, p, yiaddr) ==
  reply' = [type |-> type, mac |-> p.mac, yiaddr |-> yiaddr]

NoReply(p) == Send("none", p, 0)

\* The address send_offer chooses, in network byte order.
OfferedAddr(p) ==
  LET id == find_lease_by_mac(p.mac)
  IN  htonl(IF id # None THEN lease[id].nip
            ELSE IF check_requested_nip(p.requested_nip) THEN p.requested_nip
            ELSE find_free_or_expired_nip)

\* add_lease finds an address it may use and an object to describe it.
CanLease(p, yiaddr) ==
  LeaseAllowed(yiaddr, p.mac) /\ get_lease(yiaddr, p.mac) # None

\* Mutant: an offer is not written into the table.
send_offer_NoLease(p) ==
  LET yiaddr == OfferedAddr(p)
  IN  /\ UNCHANGED table
      /\ IF yiaddr # 0 THEN Send("OFFER", p, yiaddr) ELSE NoReply(p)

send_offer(p) ==
  LET yiaddr == OfferedAddr(p)
  IN  IF yiaddr # 0 /\ CanLease(p, yiaddr)
        THEN add_lease(OFFER_TIME, p.mac, yiaddr) /\ Send("OFFER", p, yiaddr)
        ELSE UNCHANGED table /\ NoReply(p)

\* Mutant: the lease of the offer stays as it is.
send_ACK_KeepOffer(p, nip) == Send("ACK", p, htonl(nip)) /\ UNCHANGED table

\* The packet is sent before, and whether or not, the lease is stored.
send_ACK(p, nip) ==
  /\ Send("ACK", p, htonl(nip))
  /\ IF CanLease(p, htonl(nip)) THEN add_lease(0, p.mac, htonl(nip))
                                ELSE UNCHANGED table

Discover(p) ==
  /\ p.type = "DISCOVER"
  /\ send_offer(p)

\* The address a REQUEST asks for; ciaddr is not converted.
RequestedAddr(p) == IF p.requested_nip # 0 THEN p.requested_nip ELSE p.ciaddr

Request(p) ==
  LET id == find_lease_by_mac(p.mac)
      known == id # None /\ RequestedAddr(p) = lease[id].nip
  IN  /\ p.type = "REQUEST"
      /\ IF RequestedAddr(p) # 0 /\ known
           THEN send_ACK(p, lease[id].nip)
         ELSE IF RequestedAddr(p) # 0 /\ (p.server_id # None \/ id = None)
           THEN Send("NAK", p, 0) /\ UNCHANGED table
           ELSE NoReply(p) /\ UNCHANGED table

Decline(p) ==
  LET id == find_lease_by_mac(p.mac)
  IN  /\ p.type = "DECLINE"
      /\ IF /\ p.server_id # None /\ p.requested_nip # 0 /\ id # None
            /\ p.requested_nip = lease[id].nip
           THEN remove_lease(id) ELSE UNCHANGED table
      /\ NoReply(p)

Release(p) ==
  LET id == find_lease_by_mac(p.mac)
  IN  /\ p.type = "RELEASE"
      /\ IF p.server_id # None /\ id # None /\ p.ciaddr = lease[id].nip
           THEN lease_set_expire(id, now) ELSE UNCHANGED table
      /\ NoReply(p)

Inform(p) ==
  /\ p.type = "INFORM"
  /\ Send("ACK", p, 0)
  /\ UNCHANGED table

\* listener_event; a packet for another server is dropped.
listener_event(p) ==
  /\ listening
  /\ IF p.server_id \notin {None, server_nip}
       THEN UNCHANGED table /\ NoReply(p)
       ELSE Discover(p) \/ Request(p) \/ Decline(p) \/ Release(p) \/ Inform(p)
  /\ UNCHANGED <<started, listening, now>>

\* G_IO_ERR, G_IO_HUP or G_IO_NVAL: the watch removes itself.
ListenerError ==
  /\ listening
  /\ listening' = FALSE
  /\ UNCHANGED <<table, started, now, reply>>

\* The listener is not created again while the server counts as started.
g_dhcp_server_start ==
  /\ started' = TRUE
  /\ listening' = IF started THEN listening ELSE TRUE
  /\ UNCHANGED <<table, now, reply>>

g_dhcp_server_stop ==
  /\ started' = FALSE
  /\ listening' = FALSE
  /\ UNCHANGED <<table, now, reply>>

Tick ==
  /\ now < MaxTime
  /\ now' = now + 1
  /\ UNCHANGED <<table, started, listening, reply>>

\* g_dhcp_server_new
EmptyTable ==
  /\ lease = [id \in LeaseId |-> None]
  /\ lease_list = <<>>
  /\ nip_lease_hash = [a \in Addr |-> None]

Init ==
  /\ EmptyTable
  /\ started = FALSE
  /\ listening = FALSE
  /\ now = Boot
  /\ reply = [type |-> "none", mac |-> None, yiaddr |-> 0]

Next ==
  \/ \E p \in Packet : listener_event(p)
  \/ ListenerError
  \/ g_dhcp_server_start
  \/ g_dhcp_server_stop
  \/ Tick

Spec == Init /\ [][Next]_vars

-----------------------------------------------------------------------------
\* What get_lease lets into the table.
Lease == [mac : Mac \ BadMac, nip : start_ip .. end_ip, expire : Nat]

\* The lease objects in use.
Live == {id \in LeaseId : lease[id] # None}

\* Every variable has its type; in particular no lease is outside the range or
\* for a hardware address that get_lease turns away.
TypeOK ==
  /\ lease \in [LeaseId -> Lease \cup {None}]
  /\ lease_list \in Seq(LeaseId)
  /\ nip_lease_hash \in [Addr -> LeaseId \cup {None}]
  /\ started \in BOOLEAN /\ listening \in BOOLEAN
  /\ now \in Nat

\* The list and the hash hold the same objects, none of them freed and each
\* once, the hash files each under its own address, and no client has two (so
\* that find_lease_by_mac, which stops at the first, finds the only one there
\* is), whatever moves, reuses and removals get_lease and remove_lease have done.
TableConsistent ==
  /\ TypeOK
  /\ Live = {lease_list[i] : i \in DOMAIN lease_list}
  /\ IsInjective(lease_list)
  /\ \A a \in Addr : LET id == nip_lease_hash[a]
                     IN  id # None => id \in Live /\ lease[id].nip = a
  /\ \A id \in Live : nip_lease_hash[lease[id].nip] = id
  /\ \A i, j \in Live : lease[i].mac = lease[j].mac => i = j

\* "The last lease is the oldest one" (find_free_or_expired_nip): if any lease
\* has expired, then the one that is offered again has.
OldestLast ==
  lease_list # <<>> =>
    \A id \in Live : lease[Last(lease_list)].expire <= lease[id].expire

\* An address that is promised in an OFFER or an ACK is from then on in the
\* table as the client's lease: no other client's search finds it free.
PromiseKept ==
  [][reply' # reply /\ reply'.type \in {"OFFER", "ACK"} /\ reply'.yiaddr # 0 =>
       \E id \in LeaseId :
         /\ lease'[id] # None
         /\ lease'[id].mac = reply'.mac
         /\ htonl(lease'[id].nip) = reply'.yiaddr
         /\ nip_lease_hash'[lease'[id].nip] = id]_vars

=============================================================================

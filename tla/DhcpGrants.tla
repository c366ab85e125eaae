----------------------------- MODULE DhcpGrants -----------------------------
(***************************************************************************)
(* What the clients of src/gdhcp/server.c rely on: the address an ACK gave *)
(* them for lease_seconds.  The grants are history, kept beside the        *)
(* server.  A client gives an address up when it declines or releases it,  *)
(* is told NAK, or asks for a new one by a DISCOVER.                       *)
(***************************************************************************)
EXTENDS DhcpServer

VARIABLES
  held         \* per client: address and end of the lease it was granted

gvars == <<vars, held>>

Holds(m) == held[m] # None /\ held[m].until >= now

\* The grant that the reply to packet p makes or ends.
Handle(p) ==
  LET given == reply'.type = "ACK" /\ reply'.yiaddr # 0
      ended == reply'.type = "NAK" \/ p.type \in {"DISCOVER", "DECLINE", "RELEASE"}
  IN  /\ listener_event(p)
      /\ held' = IF given
                   THEN [held EXCEPT ![p.mac] = [nip   |-> ntohl(reply'.yiaddr),
                                                 until |-> now + lease_seconds]]
                 ELSE IF ended THEN [held EXCEPT ![p.mac] = None] ELSE held

Environment ==
  /\ ListenerError \/ g_dhcp_server_start \/ g_dhcp_server_stop \/ Tick
  /\ UNCHANGED held

GInit == Init /\ held = [m \in Mac |-> None]

GNext == (\E p \in Packet : Handle(p)) \/ Environment

GSpec == GInit /\ [][GNext]_gvars

-----------------------------------------------------------------------------
\* The addresses that clients hold by unexpired leases are all different: no
\* sequence of packets of other clients makes the server give one out twice.
Exclusive ==
  \A m, n \in Mac : m # n /\ Holds(m) /\ Holds(n) => held[m].nip # held[n].nip

\* "All the leases have the same fixed lease time" (g_dhcp_server_new): what a
\* client was granted stays its unexpired lease for lease_seconds.
LeaseTimeFixed ==
  \A m \in Mac : Holds(m) =>
    \E id \in Live : /\ lease[id].mac = m
                     /\ lease[id].nip = held[m].nip
                     /\ ~is_expired_lease(id)

\* OFFER_TIME, "5 minutes": for that long an offered address is put aside for
\* the client, that is, its entry in the table is not one that has expired.
OfferReserved ==
  [][reply' # reply /\ reply'.type = "OFFER" =>
       \E id \in LeaseId :
         /\ lease'[id] # None
         /\ lease'[id].mac = reply'.mac
         /\ lease'[id].expire >= now + OFFER_TIME]_gvars

=============================================================================

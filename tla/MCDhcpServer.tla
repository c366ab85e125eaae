---------------------------- MODULE MCDhcpServer ----------------------------
(***************************************************************************)
(* DhcpGrants with addresses of two base-3 bytes.  Of the range 1.1 to 1.2 *)
(* the server hands out 1.1 by itself and 1.2 (the ".255" of this base)    *)
(* only on request, so that three clients exhaust it, have to wait for     *)
(* expiries and take over each other's leases.  A fourth client has a      *)
(* hardware address that no lease may have.  1.1 reads the same in both    *)
(* byte orders, 1.2 does not.                                              *)
(***************************************************************************)
EXTENDS DhcpGrants

CONSTANTS m1, m2, m3, any

\* The clients are interchangeable.
Clients == Permutations({m1, m2, m3})

=============================================================================

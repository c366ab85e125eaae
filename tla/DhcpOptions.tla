---------------------------- MODULE DhcpOptions -----------------------------
(***************************************************************************)
(* The options of a DHCP packet: how the client and the server of          *)
(* src/gdhcp put them into the packets they send and how both find them in *)
(* a packet (src/gdhcp/common.c).                                          *)
(*                                                                         *)
(* A field of the packet is a sequence of bytes, an option a code and its  *)
(* data, a number its bytes in network order.  External is a peer, which   *)
(* also uses padding and the fields file and sname.                        *)
(***************************************************************************)
EXTENDS Integers, Sequences, SequencesExt, FiniteSets

CONSTANTS
  OPTIONS_BUFSIZE,    \* what is sent of the field options (308)
  EXTEND,             \* how much longer the field is (EXTEND_FOR_BUGGY_SERVERS)
  FieldSize,          \* the size of the fields file and sname
  Numbers,            \* the numbers that options have, by their length in bytes
  RequestLists,       \* the codes that a client may request
  SendValues,         \* the values of the client's own options
  PeerOptions,        \* the options of a peer
  MaxPut              \* bound: what a peer puts into a packet

PADDING == 0
END == 255
OVERLOAD == 52

MESSAGE_TYPE == 53
SERVER_ID == 54
PARAM_REQ == 55

\* client_options, dhcp_option_lengths: the codes for which numbers are added, and
\* their length (REQUESTED_IP, LEASE_TIME, SERVER_ID, MAX_SIZE; SUBNET, ROUTER, DNS).
dhcp_option_lengths ==
  [c \in {MESSAGE_TYPE, 57, 50, 51, SERVER_ID, 1, 3, 6} |->
     IF c = MESSAGE_TYPE THEN 1 ELSE IF c = 57 THEN 2 ELSE 4]

\* The numbers that a client and a server add, and the client's own options
\* (HOST_NAME, VENDOR).
NumberCodes == [client |-> {50, SERVER_ID, 57}, server |-> {51, 1, 3, 6}]
SendCodes == {12, 60}

Byte == 0 .. 255

\* An option has its length in a byte; the overload option is one of a packet's form.
Option ==
  {o \in [code : Byte \ {PADDING, END, OVERLOAD}, data : Seq(Byte)] : Len(o.data) \in Byte}

ASSUME OptionAssumption ==
  /\ \A k \in {1, 2, 4} : Numbers[k] \subseteq [1 .. k -> Byte]
  /\ \A v \in RequestLists \cup SendValues : v \in Seq(Byte) /\ Len(v) \in Byte
  /\ PeerOptions \subseteq Option

\* A type, all the numbers and a list of every code fit, so that
\* add_request_options need not look.
ASSUME RoomAssumption ==
  /\ OPTIONS_BUFSIZE \in Nat /\ 3 + 6 + 6 + 4 + 2 + 1 <= OPTIONS_BUFSIZE
  /\ \A r \in RequestLists : 3 + 6 + 6 + 4 + 2 + Len(r) + 1 <= OPTIONS_BUFSIZE
  /\ EXTEND \in Nat /\ FieldSize \in Nat \ {0} /\ MaxPut \in Nat

VARIABLES
  packet,    \* the fields options, file and sname
  stage,     \* "none", or how far the packet is
  overload,  \* the fields that a peer uses besides options
  puts,      \* history: the number of things that a peer has put into the packet
  written    \* history: the options that are in each field

ovars == <<packet, stage, overload, puts, written>>

Bytes(o) == <<o.code, Len(o.data)>> \o o.data

memcpy(block, n, bytes) ==
  [i \in DOMAIN block |-> IF i - n \in DOMAIN bytes THEN bytes[i - n] ELSE block[i]]

-----------------------------------------------------------------------------
(* Finding options.                                                        *)

\* The fields that the byte b of an overload option names.
Fields(b) == {f \in {"file", "sname"} : (b \div (IF f = "file" THEN 1 ELSE 2)) % 2 = 1}

\* The loop of dhcp_get_option looks at byte i of field f, where the fields more are
\* still to be searched; or it has returned, <<>> for nothing or the data.
looks(f, i, more) == [on |-> TRUE, field |-> f, at |-> i, more |-> more, found |-> <<>>]
returns(found) == [on |-> FALSE, field |-> "none", at |-> 0, more |-> {}, found |-> found]

round(p, code, x) ==
  LET block == p[x.field]
      next == x.at + 2 + block[x.at + 1]
  IN  IF ~x.on THEN x
      ELSE IF x.at > Len(block) THEN returns(<<>>)
      ELSE IF block[x.at] = PADDING THEN looks(x.field, x.at + 1, x.more)
      ELSE IF block[x.at] = END
        THEN IF "file" \in x.more THEN looks("file", 1, x.more \ {"file"})
             ELSE IF "sname" \in x.more THEN looks("sname", 1, x.more \ {"sname"})
             ELSE returns(<<>>)
      ELSE IF next > Len(block) + 1 THEN returns(<<>>)
      ELSE IF block[x.at] = code THEN returns(<<SubSeq(block, x.at + 2, next - 1)>>)
      ELSE IF block[x.at] = OVERLOAD
        THEN looks(x.field, next, x.more \cup Fields(block[x.at + 2]))
      ELSE looks(x.field, next, x.more)

\* A round takes a byte at least, as long as no overload option names a field again
\* that was searched.
dhcp_get_option(p, code) ==
  LET rounds == Len(p["options"]) + Len(p["file"]) + Len(p["sname"])
      after[k \in 0 .. rounds] ==
        IF k = 0 THEN looks("options", 1, {}) ELSE round(p, code, after[k - 1])
  IN  after[rounds].found

\* Where the option after the one at byte i begins; an end is not passed.
next_option(block, i) ==
  IF i > Len(block) \/ block[i] = END THEN i
  ELSE IF block[i] = PADDING THEN i + 1 ELSE i + 2 + block[i + 1]

\* The number of bytes before the end, all of them if there is no end.
dhcp_end_option(block) ==
  LET after[k \in 0 .. Len(block)] == IF k = 0 THEN 1 ELSE next_option(block, after[k - 1])
  IN  after[Len(block)] - 1

-----------------------------------------------------------------------------
(* Adding options.                                                         *)

\* Mutant: the end is not counted.
dhcp_add_binary_option_NoEnd(p, o) ==
  LET end == dhcp_end_option(p.options)
  IN  IF end + 2 + Len(o.data) > OPTIONS_BUFSIZE THEN p
      ELSE [p EXCEPT !.options = memcpy(@, end, Bytes(o) \o <<END>>)]

dhcp_add_binary_option(p, o) ==
  LET end == dhcp_end_option(p.options)
  IN  IF end + 2 + Len(o.data) + 1 >= OPTIONS_BUFSIZE THEN p
      ELSE [p EXCEPT !.options = memcpy(@, end, Bytes(o) \o <<END>>)]

check_option(code, len) == code \in DOMAIN dhcp_option_lengths /\ dhcp_option_lengths[code] = len

\* dhcp_add_option_uint8, dhcp_add_option_uint16, dhcp_add_option_uint32
dhcp_add_option(p, o) ==
  IF check_option(o.code, Len(o.data)) THEN dhcp_add_binary_option(p, o) ELSE p

\* The packet before the first option.
Parts == {"options", "file", "sname"}

Blank ==
  [f \in Parts |->
     IF f = "options" THEN memcpy([i \in 1 .. OPTIONS_BUFSIZE + EXTEND |-> PADDING], 0, <<END>>)
     ELSE [i \in 1 .. FieldSize |-> PADDING]]

dhcp_init_header(type) == dhcp_add_option(Blank, [code |-> MESSAGE_TYPE, data |-> <<type>>])

-----------------------------------------------------------------------------
(* The packets.                                                            *)

\* The bytes that the options os take.
Used(os) ==
  LET used[n \in 0 .. Len(os)] == IF n = 0 THEN 0 ELSE used[n - 1] + 2 + Len(os[n].data)
  IN  used[Len(os)]

Record(o, fits) ==
  written' = IF fits THEN [written EXCEPT !.options = Append(@, o)] ELSE written

\* An option that does not fit is left out.
Fits(o) == Used(written.options) + 2 + Len(o.data) + 2 <= OPTIONS_BUFSIZE

Has(code) == \E i \in DOMAIN written.options : written.options[i].code = code

\* init_packet of the client.
client_init_packet ==
  /\ stage = "none" /\ stage' = "client"
  /\ \E type \in Numbers[1] :
       /\ packet' = dhcp_init_header(type[1])
       /\ Record([code |-> MESSAGE_TYPE, data |-> type], TRUE)
  /\ UNCHANGED <<overload, puts>>

\* init_packet of the server.
server_init_packet ==
  /\ stage = "none" /\ stage' = "server"
  /\ \E type \in Numbers[1], nip \in Numbers[4] :
       LET o == [code |-> SERVER_ID, data |-> nip]
       IN  /\ packet' = dhcp_add_option(dhcp_init_header(type[1]), o)
           /\ written' = [written EXCEPT !.options = <<[code |-> MESSAGE_TYPE, data |-> type], o>>]
  /\ UNCHANGED <<overload, puts>>

\* Client: send_discover, send_select.  Server: send_offer, send_ACK and add_option,
\* for the entries of a hash.  They come in any order here, theirs included.
AddNumber ==
  /\ stage \in {"client", "server"}
  /\ \E code \in NumberCodes[stage] : \E n \in Numbers[dhcp_option_lengths[code]] :
       LET o == [code |-> code, data |-> n]
       IN  /\ ~Has(code)
           /\ packet' = dhcp_add_option(packet, o)
           /\ Record(o, Fits(o))
  /\ UNCHANGED <<stage, overload, puts>>

\* There is no check, and nothing is done for an empty list.
add_request_options ==
  /\ stage = "client" /\ stage' = "send"
  /\ \E r \in RequestLists :
       LET o == [code |-> PARAM_REQ, data |-> r]
           end == dhcp_end_option(packet.options)
       IN  /\ packet' = IF r = <<>> THEN packet
                        ELSE [packet EXCEPT !.options = memcpy(@, end, Bytes(o) \o <<END>>)]
           /\ Record(o, r # <<>>)
  /\ UNCHANGED <<overload, puts>>

add_send_options ==
  /\ stage = "send"
  /\ \E code \in SendCodes, v \in SendValues :
       LET o == [code |-> code, data |-> v]
       IN  /\ ~Has(code)
           /\ packet' = dhcp_add_binary_option(packet, o)
           /\ Record(o, Fits(o))
  /\ UNCHANGED <<stage, overload, puts>>

-----------------------------------------------------------------------------
(* A peer, which puts its options, each field with an end, where it likes. *)

\* A byte of a name in file or sname.
Text == 50

PeerBegins ==
  /\ stage = "none" /\ stage' = "peer"
  /\ packet' = [f \in Parts |->
       IF f = "options" THEN Blank[f] ELSE [i \in 1 .. FieldSize |-> Text]]
  /\ UNCHANGED <<overload, puts, written>>

\* Bytes are appended to field f.
PutBytes(f, bytes) ==
  LET end == dhcp_end_option(packet[f])
  IN  /\ stage = "peer" /\ puts < MaxPut /\ puts' = puts + 1
      /\ f \in {"options"} \cup overload
      /\ end + Len(bytes) < Len(packet[f])
      /\ packet' = [packet EXCEPT ![f] = memcpy(@, end, bytes \o <<END>>)]
      /\ UNCHANGED stage

PeerPads == \E f \in Parts : PutBytes(f, <<PADDING>>) /\ UNCHANGED <<overload, written>>

PeerPuts ==
  \E f \in Parts, o \in PeerOptions :
    /\ PutBytes(f, Bytes(o))
    /\ written' = [written EXCEPT ![f] = Append(@, o)]
    /\ UNCHANGED overload

\* From now on other fields are used as well.
PeerOverloads ==
  LET end == dhcp_end_option(packet.options)
  IN  /\ stage = "peer" /\ overload = {} /\ end + 4 <= Len(packet.options)
      /\ \E b \in 1 .. 3 :
           /\ overload' = Fields(b)
           /\ packet' = [f \in Parts |->
                IF f = "options" THEN memcpy(packet.options, end, <<OVERLOAD, 1, b>> \o <<END>>)
                ELSE IF f \in Fields(b) THEN memcpy(packet[f], 0, <<END>>) ELSE packet[f]]
      /\ UNCHANGED <<stage, puts, written>>

OInit ==
  /\ packet = Blank /\ stage = "none" /\ overload = {} /\ puts = 0
  /\ written = [f \in Parts |-> <<>>]

ONext ==
  \/ client_init_packet \/ server_init_packet \/ AddNumber \/ add_request_options \/ add_send_options
  \/ PeerBegins \/ PeerPads \/ PeerPuts \/ PeerOverloads

OSpec == OInit /\ [][ONext]_ovars

-----------------------------------------------------------------------------
\* The first option with the code, in the order in which the fields are searched.
Meant(code) ==
  LET all == written.options \o written.file \o written.sname
      i == SelectInSeq(all, LAMBDA o : o.code = code)
  IN  IF i = 0 THEN <<>> ELSE <<all[i].data>>

\* dhcp_get_option, dhcp_add_binary_option, add_request_options: the receiver finds
\* exactly the options that were put into a packet, with their data, whatever bytes
\* that data consists of and in whichever field they are; an option that does not
\* fit is left out as a whole, and the end is inside of what a client or a server
\* sends.
OptionsReadBack ==
  /\ stage # "peer" => dhcp_end_option(packet.options) < OPTIONS_BUFSIZE
  /\ \A code \in DOMAIN dhcp_option_lengths \cup SendCodes \cup {PARAM_REQ} :
       dhcp_get_option(packet, code) = Meant(code)

=============================================================================

----------------------------- MODULE MCParsers ------------------------------
(***************************************************************************)
(* Three encodings and their readers: lines for the RTSP tokenizer, events *)
(* for the parser of wpa_supplicant's events, and DHCP packets.  They have *)
(* nothing in common, and a behaviour is about one of them.                *)
(***************************************************************************)
EXTENDS RtspTokenizer, WpaParser, DhcpOptions

MCWords == {<<"a">>, <<"n", "0">>}
MCSeparators == {":", "\\"}
MCAnything == {"a", "n", "0", "\"", "\\", ":", " "}
MCStrings ==
  {<<>>, <<"n">>, <<"\"">>, <<"\\">>, <<"\\", "\"">>, <<":", " ", "0">>, <<"\n", "HIGH">>}

MCNames == {<<>>, <<"x">>, <<"x", " ", "x">>, <<"'">>, <<"\\">>, <<"\\", "'">>, <<"name=">>}
MCTextWords ==
  {<<"mac">>, <<"x">>, <<"client">>, <<"name=", "'", " ">>, <<"role=", "GO">>,
   <<"go_dev_addr=", "mac">>, <<"peer_dev=", "x">>}
MCTypes ==
  {"AP_STA_CONNECTED", "P2P_DEVICE_FOUND", "P2P_GO_NEG_SUCCESS", "P2P_GROUP_STARTED",
   "P2P_PROV_DISC_SHOW_PIN", "P2P_FIND_STOPPED", "NO-EVENT"}

\* Data that looks like codes, padding or an end.
MCNumbers ==
  (1 :> {<<1>>, <<255>>}) @@ (2 :> {<<0, 255>>}) @@ (4 :> {<<0, 0, 0, 0>>, <<255, 52, 1, 3>>})
MCRequestLists == {<<>>, <<1>>, <<6, 3, 1>>}
MCSendValues == {<<>>, <<255>>, <<50, 2, 0, 255, 12, 0>>}
MCPeerOptions ==
  {[code |-> 51, data |-> <<255>>], [code |-> 50, data |-> <<0>>], [code |-> 12, data |-> <<>>],
   [code |-> 12, data |-> <<50, 3>>]}

Init == TInit /\ EInit /\ OInit

Next ==
  \/ EInit /\ OInit /\ TNext /\ UNCHANGED <<evars, ovars>>
  \/ TInit /\ ~wild /\ OInit /\ ENext /\ UNCHANGED <<tvars, ovars>>
  \/ TInit /\ ~wild /\ EInit /\ ONext /\ UNCHANGED <<tvars, evars>>

Spec == Init /\ [][Next]_<<tvars, evars, ovars>>
=============================================================================

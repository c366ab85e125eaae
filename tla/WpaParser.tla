----------------------------- MODULE WpaParser ------------------------------
(***************************************************************************)
(* The event parser of src/wpa_parser.c: it reads an event of              *)
(* wpa_supplicant into a struct owfd_wpa_event whose strings it allocates. *)
(*                                                                         *)
(* A text is a sequence of pieces; a piece is a blank, an apostrophe, a    *)
(* backslash, or a text that the parser tells apart ("mac" is a hardware   *)
(* address, "name=" a key).  External are wpa_supplicant, which renders an *)
(* event, and the user of the struct, who parses into it again and again.  *)
(***************************************************************************)
EXTENDS Integers, Sequences, FiniteSets, SequencesExt

CONSTANTS
  NULL,
  Types,      \* the types of texts that are not an event's
  TextWords,  \* the words of such texts
  Names,      \* the names of devices
  Priorities, \* the priorities of events
  MaxWords    \* bound: the words of a text

ASSUME TextAssumption ==
  Names \subseteq Seq(STRING) /\ Priorities \subseteq 0 .. 4 /\ MaxWords \in Nat

VARIABLES
  ev,         \* the struct owfd_wpa_event
  live,       \* the number of strings that are allocated
  ret,        \* what the last call returned
  body,       \* a text that is to be parsed
  told        \* history: the event that wpa_supplicant meant

evars == <<ev, live, ret, body, told>>

EINVAL == "EINVAL"
ENOMEM == "ENOMEM"

\* The types whose payload is a hardware address only; those without a payload.
MacTypes ==
  {"AP_STA_CONNECTED", "AP_STA_DISCONNECTED", "P2P_PROV_DISC_ENTER_PIN",
   "P2P_PROV_DISC_PBC_REQ", "P2P_PROV_DISC_PBC_RESP"}

StringTypes == {"P2P_DEVICE_FOUND", "P2P_GROUP_STARTED", "P2P_PROV_DISC_SHOW_PIN"}

PlainTypes ==
  {"P2P_FIND_STOPPED", "P2P_GO_NEG_FAILURE", "P2P_GO_NEG_REQUEST",
   "P2P_GROUP_FORMATION_FAILURE", "P2P_GROUP_FORMATION_SUCCESS", "P2P_GROUP_REMOVED",
   "P2P_INVITATION_RECEIVED", "P2P_INVITATION_RESULT", "P2P_SERV_DISC_REQ", "P2P_SERV_DISC_RESP"}

event_list == MacTypes \cup StringTypes \cup PlainTypes \cup {"P2P_GO_NEG_SUCCESS"}

\* The payloads are a union: the addresses share their place, as do the roles and
\* the pointers (name, ifname, pin).
owfd_wpa_event_init ==
  [type |-> "UNKNOWN", priority |-> 0, raw |-> NULL, mac |-> <<>>, role |-> "GO", string |-> NULL]

Allocated(e) == {f \in {"raw", "string"} : e[f] # NULL}

\* Mutant: the name of an interface is not freed.
owfd_wpa_event_reset_NoIfname(e) ==
  {f \in Allocated(e) : f = "string" => e.type \in StringTypes \ {"P2P_GROUP_STARTED"}}

\* The strings of e that owfd_wpa_event_reset frees before it clears e.
owfd_wpa_event_reset(e) == {f \in Allocated(e) : f = "string" => e.type \in StringTypes}

-----------------------------------------------------------------------------
(* tokenize                                                                *)

keep(t, c) == [t EXCEPT !.word = Append(@, c), !.last_c = TRUE]

finish_word(t) ==
  IF t.last_c
    THEN [t EXCEPT !.words = Append(@, t.word), !.word = <<>>, !.last_c = FALSE]
    ELSE t

\* Mutant: a blank in quotes ends the word.
tokenize_char_BlankEnds(t, c) ==
  CASE c = " "                       -> finish_word(t)
    [] t.escaped                     -> [keep(t, c) EXCEPT !.escaped = FALSE]
    [] t.quoted /\ c = "'"           -> [t EXCEPT !.quoted = FALSE]
    [] t.quoted /\ c = "\\"          -> [t EXCEPT !.escaped = TRUE]
    [] ~t.quoted /\ c = "'"          -> [t EXCEPT !.quoted = TRUE, !.last_c = TRUE]
    [] OTHER                         -> keep(t, c)

tokenize_char(t, c) ==
  CASE t.quoted /\ t.escaped              -> [keep(t, c) EXCEPT !.escaped = FALSE]
    [] t.quoted /\ ~t.escaped /\ c = "'"  -> [t EXCEPT !.quoted = FALSE]
    [] t.quoted /\ ~t.escaped /\ c = "\\" -> [t EXCEPT !.escaped = TRUE]
    [] ~t.quoted /\ c = " "               -> finish_word(t)
    [] ~t.quoted /\ c = "'"               -> [t EXCEPT !.quoted = TRUE, !.last_c = TRUE]
    [] OTHER                              -> keep(t, c)

tokenize(text) ==
  finish_word(FoldLeft(tokenize_char,
    [words |-> <<>>, word |-> <<>>, quoted |-> FALSE, escaped |-> FALSE, last_c |-> FALSE],
    text)).words

-----------------------------------------------------------------------------
(* The payloads: the event e after the tokens ts were read into it, and an *)
(* error or "OK".  mem tells whether a string can be allocated.            *)

Result(e, r) == [ev |-> e, r |-> r]

IsMac(t) == t = <<"mac">>

Key(t) == IF t = <<>> THEN "" ELSE t[1]

roles == [GO |-> "GO", client |-> "CLIENT"]

IsRole(t) == Len(t) = 1 /\ t[1] \in DOMAIN roles

strdup(e, t, mem) ==
  IF mem THEN Result([e EXCEPT !.string = t], "OK") ELSE Result(e, ENOMEM)

parse_mac(e, t) == IF IsMac(t) THEN Result([e EXCEPT !.mac = t], "OK") ELSE Result(e, EINVAL)

\* parse_ap_sta_connected and the four other parsers that read an address
parse_mac_event(e, ts) == IF Len(ts) < 1 THEN Result(e, EINVAL) ELSE parse_mac(e, ts[1])

\* The first of the tokens ts, from the n-th on, that begins with key.
First(ts, n, key) == SelectInSubSeq(ts, n, Len(ts), LAMBDA t : Key(t) = key)

parse_p2p_device_found(e, ts, mem) ==
  LET i == First(ts, 2, "name=")
      d == [e EXCEPT !.mac = ts[1]]
  IN  IF Len(ts) < 2 \/ ~IsMac(ts[1]) THEN Result(e, EINVAL)
      ELSE IF i = 0 THEN Result(d, EINVAL) ELSE strdup(d, Tail(ts[i]), mem)

\* The loop ends at the first token whose value is wrong.
parse_p2p_go_neg_success(e, ts) ==
  LET role == {i \in DOMAIN ts : Key(ts[i]) = "role="}
      peer == {i \in DOMAIN ts : Key(ts[i]) = "peer_dev="}
  IN  IF \/ Len(ts) < 2 \/ role = {} \/ peer = {}
         \/ \E i \in role : ~IsRole(Tail(ts[i]))
         \/ \E i \in peer : ~IsMac(Tail(ts[i]))
        THEN Result(e, EINVAL)
        ELSE Result([e EXCEPT !.role = roles[ts[Max(role)][2]], !.mac = Tail(ts[Max(peer)])], "OK")

parse_p2p_group_started(e, ts, mem) ==
  LET d == strdup(e, ts[1], mem)
      i == First(ts, 3, "go_dev_addr=")
  IN  IF Len(ts) < 3 THEN Result(e, EINVAL)
      ELSE IF d.r # "OK" THEN d
      ELSE IF ~IsRole(ts[2]) \/ i = 0 THEN Result(d.ev, EINVAL)
      ELSE parse_mac([d.ev EXCEPT !.role = roles[ts[2][1]]], Tail(ts[i]))

parse_p2p_prov_disc_show_pin(e, ts, mem) ==
  IF Len(ts) < 2 \/ ~IsMac(ts[1]) THEN Result(e, EINVAL)
  ELSE strdup([e EXCEPT !.mac = ts[1]], ts[2], mem)

parse_payload(e, ts, mem) ==
  CASE e.type \in MacTypes                 -> parse_mac_event(e, ts)
    [] e.type = "P2P_DEVICE_FOUND"         -> parse_p2p_device_found(e, ts, mem)
    [] e.type = "P2P_GO_NEG_SUCCESS"       -> parse_p2p_go_neg_success(e, ts)
    [] e.type = "P2P_GROUP_STARTED"        -> parse_p2p_group_started(e, ts, mem)
    [] e.type = "P2P_PROV_DISC_SHOW_PIN"   -> parse_p2p_prov_disc_show_pin(e, ts, mem)
    [] e.type \in PlainTypes               -> Result(e, "OK")

-----------------------------------------------------------------------------
\* A priority is a number in angle brackets.  Other prefixes are no bracket, one
\* that is not closed, and something else in brackets.
NoPrefix == -1
Unclosed == -2
Junk == -3

priority(prefix) == IF prefix \in 0 .. 4 THEN prefix ELSE 0

\* The event, and the error, before the last lines of owfd_wpa_event_parse; ts are
\* the tokens of the text, and fail is the allocation that fails.
Parsed(prefix, type, ts, fail) ==
  LET e == [owfd_wpa_event_init EXCEPT !.priority = priority(prefix)]
      d == [e EXCEPT !.type = type]
      raw == [d EXCEPT !.raw = "text"]
  IN  IF prefix = Unclosed \/ type \notin event_list THEN Result(e, "OK")
      ELSE IF fail = "raw" THEN Result(d, ENOMEM)
      ELSE IF fail = "tokens" THEN Result(raw, ENOMEM)
      ELSE parse_payload(raw, ts, fail # "string")

Allocations == {"none", "raw", "tokens", "string"}

\* The tokens are freed before it returns, and the strings of e after an error.
owfd_wpa_event_parse(prefix, type, ts) ==
  \E fail \in Allocations :
    LET p == Parsed(prefix, type, ts, fail)
        freed == Cardinality(owfd_wpa_event_reset(ev))
                   + (IF p.r = "OK" THEN 0 ELSE Cardinality(owfd_wpa_event_reset(p.ev)))
    IN  /\ ev' = IF p.r = "OK" THEN p.ev ELSE owfd_wpa_event_init
        /\ live' = live - freed + Cardinality(Allocated(p.ev))
        /\ ret' = p.r
        /\ body' = <<>>

-----------------------------------------------------------------------------
(* wpa_supplicant and the user.                                            *)

\* A name in apostrophes, as in test/test_wpa.c.
InApostrophes(s) ==
  <<"'">> \o FlattenSeq([i \in DOMAIN s |->
                IF s[i] \in {"'", "\\"} THEN <<"\\", s[i]>> ELSE <<s[i]>>]) \o <<"'">>

EventOf(type, role, string) ==
  [type : {type}, priority : Priorities, mac : {<<"mac">>}, role : role, string : string]

Events ==
  (UNION {EventOf(t, {"GO"}, {NULL}) : t \in MacTypes})
    \cup EventOf("P2P_DEVICE_FOUND", {"GO"}, Names)
    \cup EventOf("P2P_GO_NEG_SUCCESS", {"GO", "CLIENT"}, {NULL})
    \cup EventOf("P2P_GROUP_STARTED", {"GO", "CLIENT"}, {<<"x">>})
    \cup EventOf("P2P_PROV_DISC_SHOW_PIN", {"GO"}, {<<"x">>})
    \cup [type : PlainTypes, priority : Priorities, mac : {<<>>}, role : {"GO"}, string : {NULL}]

RoleWord(e) == CHOOSE w \in DOMAIN roles : roles[w] = e.role

\* The words of an event, in the orders in which they may come; other words may
\* stand between them.
Renderings(e) ==
  LET role == <<"role=", RoleWord(e)>>
      peer == <<"peer_dev=", "mac">>
  IN  CASE e.type \in MacTypes -> {<<e.mac>>}
        [] e.type = "P2P_DEVICE_FOUND" ->
             {<<e.mac>> \o w \o <<<<"name=">> \o InApostrophes(e.string)>> : w \in {<<>>, <<<<"x">>>>}}
        [] e.type = "P2P_GO_NEG_SUCCESS" -> {<<role, <<"x">>, peer>>, <<peer, role>>}
        [] e.type = "P2P_GROUP_STARTED" ->
             {<<e.string, <<RoleWord(e)>>>> \o w \o <<<<"go_dev_addr=", "mac">>>> : w \in {<<>>, <<<<"x">>>>}}
        [] e.type = "P2P_PROV_DISC_SHOW_PIN" -> {<<e.mac, e.string>>}
        [] e.type \in PlainTypes -> {<<>>, <<<<"x">>>>}

Spaced(ws) == FlattenSeq([i \in DOMAIN ws |-> ws[i] \o <<" ">>])

ParseEvent ==
  /\ body = <<>>
  /\ \E e \in Events : \E ws \in Renderings(e) :
        /\ owfd_wpa_event_parse(e.priority, e.type, tokenize(Spaced(ws)))
        /\ told' = e

\* A text that need not be well-formed is put together and parsed.
AddWord ==
  /\ Len(body) < MaxWords
  /\ \E w \in TextWords : body' = Append(body, w)
  /\ ret' = "OK" /\ told' = NULL
  /\ UNCHANGED <<ev, live>>

ParseText ==
  /\ LET ts == tokenize(Spaced(body))
     IN  \E prefix \in {NoPrefix, Unclosed, Junk, 5}, type \in Types :
           owfd_wpa_event_parse(prefix, type, ts)
  /\ told' = NULL

Reset ==
  /\ live' = live - Cardinality(owfd_wpa_event_reset(ev))
  /\ ev' = owfd_wpa_event_init
  /\ ret' = "OK" /\ told' = NULL
  /\ UNCHANGED body

EInit == ev = owfd_wpa_event_init /\ live = 0 /\ ret = "OK" /\ body = <<>> /\ told = NULL

ENext == ParseEvent \/ AddWord \/ ParseText \/ Reset

ESpec == EInit /\ [][ENext]_evars

-----------------------------------------------------------------------------
\* owfd_wpa_event_parse, owfd_wpa_event_reset: whichever events are parsed into the
\* same struct, and whichever word or allocation makes a parser stop halfway, the
\* strings that are allocated are those the struct points to: none is lost and
\* none is freed twice.
NothingLeaks == live = Cardinality(Allocated(ev))

\* tokenize and the parsers of the payloads: an event that wpa_supplicant sends is
\* read as it was meant, with blanks, apostrophes and backslashes in names, whatever
\* was parsed before and whatever else the event contains.
ReadAsMeant ==
  told # NULL /\ ret # ENOMEM =>
    ret = "OK" /\ \A f \in DOMAIN told : ev[f] = told[f]

=============================================================================

--------------------------- MODULE RtspTokenizer ----------------------------
(***************************************************************************)
(* owfd_rtsp_tokenize of src/rtsp_tokenizer.c: it splits a header line     *)
(* into words, separators and quoted strings, written one after the other  *)
(* into one block, each with a terminating 0.                              *)
(*                                                                         *)
(* A peer (external) writes a line, either element by element or just any  *)
(* characters; the tokenizer runs over them.  A character is a string.     *)
(***************************************************************************)
EXTENDS Integers, Sequences, SequencesExt

CONSTANTS
  Letters,       \* what words are made of
  Words,         \* the words the peer writes
  Separators,    \* the separators it writes
  Blanks,        \* the blanks it writes
  Strings,       \* the strings it writes in quotes
  MaxElements,   \* bound: the elements of a line
  Anything,      \* what it writes when it writes anything
  MaxChars       \* bound: the characters of such a line

NUL == "NUL"     \* the terminating 0

Special ==
  {"(", ")", "[", "]", "{", "}", "<", ">", "@", ",", ";", ":", "\\", "/", "?", "="}

\* The characters up to 31 and 127; a char is signed, so that it is less than 32
\* in the upper half as well.
Control == {"\t", "\n", "\r", "\f", "BEL", "VT", "BS", "ESC", "DEL", "HIGH"}

\* What the letter after a backslash stands for.
Escapes ==
  [n |-> "\n", r |-> "\r", t |-> "\t", f |-> "\f", a |-> "BEL", v |-> "VT", b |-> "BS", e |-> "ESC"]

\* The characters of a line.
Chars == Letters \cup Special \cup Control \cup {" ", "\""}

ASSUME PeerAssumption ==
  /\ Letters \cap (Special \cup Control \cup {" ", "\"", NUL}) = {}
  /\ Words \subseteq Seq(Letters) \ {<<>>} /\ Strings \subseteq Seq(Chars)
  /\ Separators \subseteq Special /\ Blanks \subseteq Control \cup {" "}
  /\ Anything \subseteq Chars
  /\ MaxElements \in Nat /\ MaxChars \in Nat

VARIABLES
  tk,        \* the locals of owfd_rtsp_tokenize: the bytes up to dst, num, ...
  len,       \* the characters of the line so far
  wild,      \* the peer writes anything
  zeroes,    \* history: the line has an escape \0
  elements,  \* history: the number of elements written
  in_word,   \* history: the last of them is a word
  tokens     \* history: the words, separators and strings written

tvars == <<tk, len, wild, zeroes, elements, in_word, tokens>>

-----------------------------------------------------------------------------
\* Mutant: no room for the terminating zeroes.
BlockSize_NoZeroes(n) == n + 1

\* The block that is allocated for a line of n characters.
BlockSize(n) == n * 2 + 1

\* "*dst++ = c", behind the bytes that are written or, if dst has been moved there,
\* in front of the block.
write(t, c) ==
  IF t.before = 0 THEN [t EXCEPT !.out = Append(@, c)]
                  ELSE [t EXCEPT !.before = @ - 1, !.stray = TRUE]

put(t, c) == [write(t, c) EXCEPT !.last_c = TRUE]

end_token(t) == [write(t, NUL) EXCEPT !.num = @ + 1, !.last_c = FALSE]

\* A word ends where something else begins.
end_word(t) == IF t.last_c THEN end_token(t) ELSE t

\* "--dst": the byte that was written last is taken back, if there is one.
step_back(t) ==
  IF t.out = <<>> THEN [t EXCEPT !.before = @ + 1]
                  ELSE [t EXCEPT !.out = SubSeq(@, 1, Len(@) - 1)]

escaped_char(t, c) ==
  IF c = "0" THEN [step_back(t) EXCEPT !.last_c = TRUE]
             ELSE put(t, IF c \in DOMAIN Escapes THEN Escapes[c] ELSE c)

quoted_char(t, c) ==
  CASE t.escaped                -> [escaped_char(t, c) EXCEPT !.escaped = FALSE]
    [] ~t.escaped /\ c = "\""   -> [end_token(t) EXCEPT !.quoted = FALSE]
    [] ~t.escaped /\ c = "\\"   -> [t EXCEPT !.escaped = TRUE, !.last_c = TRUE]
    [] OTHER                    -> put(t, c)

\* Mutant: a separator does not end the word before it.
unquoted_char_Joined(t, c) ==
  CASE c = "\""                      -> [end_word(t) EXCEPT !.quoted = TRUE]
    [] c = " " \/ c \in Control      -> end_word(t)
    [] c \in Special                 -> end_token(put(t, c))
    [] OTHER                         -> put(t, c)

unquoted_char(t, c) ==
  CASE c = "\""                      -> [end_word(t) EXCEPT !.quoted = TRUE]
    [] c = " " \/ c \in Control      -> end_word(t)
    [] c \in Special                 -> end_token(put(end_word(t), c))
    [] OTHER                         -> put(t, c)

next_char(t, c) == IF t.quoted THEN quoted_char(t, c) ELSE unquoted_char(t, c)

\* dst is so many bytes before the block, and something was written there (stray);
\* last_c is only compared with 0.
Start ==
  [out |-> <<>>, before |-> 0, stray |-> FALSE, num |-> 0,
   quoted |-> FALSE, escaped |-> FALSE, last_c |-> FALSE]

\* What is returned for a line after whose characters the locals are t.
owfd_rtsp_tokenize(t) == end_word(t)

-----------------------------------------------------------------------------
(* The peer.                                                               *)

InQuotes(c) ==
  IF c \in {"\"", "\\"} THEN <<"\\", c>>
  ELSE IF c \in Range(Escapes) THEN <<"\\", CHOOSE l \in DOMAIN Escapes : Escapes[l] = c>>
  ELSE <<c>>

Quote(s) == <<"\"">> \o FlattenSeq([i \in DOMAIN s |-> InQuotes(s[i])]) \o <<"\"">>

\* The peer writes text, whose tokens are ts.
Write(text, ts) ==
  /\ ~wild /\ elements < MaxElements
  /\ tk' = FoldLeft(next_char, tk, text)
  /\ len' = len + Len(text)
  /\ elements' = elements + 1
  /\ tokens' = tokens \o ts
  /\ UNCHANGED <<wild, zeroes>>

WriteWord == in_word = FALSE /\ in_word' = TRUE /\ \E w \in Words : Write(w, <<w>>)

WriteSeparator == in_word' = FALSE /\ \E c \in Separators : Write(<<c>>, <<<<c>>>>)

WriteBlank == in_word' = FALSE /\ \E c \in Blanks : Write(<<c>>, <<>>)

WriteString == in_word' = FALSE /\ \E s \in Strings : Write(Quote(s), <<s>>)

\* Any character at all: quotes stay open, and every letter may follow a backslash.
WriteChar ==
  /\ wild /\ len < MaxChars
  /\ \E c \in Anything :
       /\ tk' = next_char(tk, c)
       /\ zeroes' = (zeroes \/ (tk.quoted /\ tk.escaped /\ c = "0"))
  /\ len' = len + 1
  /\ UNCHANGED <<wild, elements, in_word, tokens>>

TInit ==
  /\ tk = Start /\ len = 0 /\ wild \in BOOLEAN /\ zeroes = FALSE
  /\ elements = 0 /\ in_word = FALSE /\ tokens = <<>>

TNext == WriteWord \/ WriteSeparator \/ WriteBlank \/ WriteString \/ WriteChar

TSpec == TInit /\ [][TNext]_tvars

-----------------------------------------------------------------------------
\* The caller goes from one token to the next: "s += strlen(s) + 1".
Read(out, num) ==
  LET zero(b) == Min({i \in DOMAIN out : i >= b /\ out[i] = NUL})
      begin[i \in 1 .. num] == IF i = 1 THEN 1 ELSE zero(begin[i - 1]) + 1
  IN  [i \in 1 .. num |-> SubSeq(out, begin[i], zero(begin[i]) - 1)]

\* owfd_rtsp_tokenize: of a line that is put together from words, separators, blanks
\* and quoted strings the caller reads exactly these, escapes undone, in their order;
\* empty strings are not lost and nothing is joined or split, however the elements
\* follow each other.
TokensExact ==
  LET t == owfd_rtsp_tokenize(tk) IN ~wild => Read(t.out, t.num) = tokens

\* "we need at most twice as much space for all the terminating 0s": whatever the
\* line, nothing is written behind the block; and nothing in front of it, but for
\* lines with the escape \0.  This one, says the comment, is dropped; the code takes
\* back a byte instead, and leaves the block if there is none.
BlockFits ==
  LET t == owfd_rtsp_tokenize(tk)
  IN  Len(t.out) <= BlockSize(len) /\ (t.stray => zeroes)

=============================================================================

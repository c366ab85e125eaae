---------------------------- MODULE GlibTimeout -----------------------------
(***************************************************************************)
(* glib's timeout sources as src/gdhcp/client.c uses them: the field       *)
(* timeout of the client's record c names one source.  All callbacks end   *)
(* their source by returning FALSE, and the field is not reset then.       *)
(***************************************************************************)
EXTENDS Naturals

\* c.timer is the source that client->timeout names, "stale" if it has ended;
\* c.leaked are the sources that nothing names any more.
NoTimer == [fn |-> "none", left |-> 0]
Stale == [fn |-> "stale", left |-> 0]
Live(t) == t.fn \notin {"none", "stale"}

Sources(c) == {t \in c.leaked \cup {c.timer} : Live(t)}

g_source_remove(c) == [c EXCEPT !.timer = NoTimer]

g_timeout_add(c, fn, t) ==
  [c EXCEPT !.leaked = IF Live(c.timer) THEN @ \cup {c.timer} ELSE @,
            !.timer = [fn |-> fn, left |-> t]]

\* The source t of c has been dispatched.
Expired(c, t) ==
  IF t = c.timer THEN [c EXCEPT !.timer = Stale] ELSE [c EXCEPT !.leaked = @ \ {t}]

\* One unit of time later.
Later(t) == IF Live(t) THEN [t EXCEPT !.left = @ - 1] ELSE t

Aged(c) == [c EXCEPT !.timer = Later(@), !.leaked = {Later(t) : t \in @}]

Due(c) == {t \in Sources(c) : t.left = 0}

=============================================================================

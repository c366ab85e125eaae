---------------------------- MODULE MCRtspStream ----------------------------
(***************************************************************************)
(* RtspStream with plain, folded, padded and quoted header lines and with  *)
(* bodies that look like line ends.                                        *)
(***************************************************************************)
EXTENDS RtspStream

CONSTANTS x, y, cl1, cl2

MCContentLength == (cl1 :> 1) @@ (cl2 :> 2)

plain  == <<x>>
folded == <<x, CR, LF, SP, y>>
padded == <<x, SP, NUL, y, SP, SP>>
string == <<x, QUOTE, LF, LF, QUOTE>>
escape == <<x, QUOTE, BSLASH, QUOTE, LF, BSLASH, BSLASH, QUOTE>>

MCLines ==
  (plain :> plain) @@ (folded :> <<x, SP, y>>) @@ (padded :> <<x, SP, y>>)
    @@ (string :> string) @@ (escape :> escape)
    @@ (<<cl1>> :> <<cl1>>) @@ (<<cl2>> :> <<cl2>>)

MCHeads ==
  {<<plain>>, <<folded, padded>>, <<escape, plain>>, <<string, <<cl1>> >>,
   << <<cl2>>, plain>>}

MCBodies == {<<x>>, <<LF>>, <<CR>>, <<CR, LF>>, <<LF, x>>}

=============================================================================

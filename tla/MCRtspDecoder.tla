--------------------------- MODULE MCRtspDecoder ----------------------------
(***************************************************************************)
(* RtspDecoder fed with every stream of at most MaxStream characters, cut  *)
(* into chunks in every way.  Text and content-length values are chosen so *)
(* that a message with a body and the start of the next one both fit.      *)
(***************************************************************************)
EXTENDS RtspDecoder

CONSTANTS cl1, cl2

MCContentLength == (cl1 :> 1) @@ (cl2 :> 2)

=============================================================================

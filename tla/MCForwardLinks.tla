--------------------------- MODULE MCForwardLinks ---------------------------
(* Two endpoints, two local ports, two links in all. *)
EXTENDS ForwardLinks
CONSTANTS e1, e2
==============================================================================

------------------------------- MODULE MCLossStats -------------------------------
(***************************************************************************)
(* Twelve ids, of which fewer than three apart are near; numbers run       *)
(* through the ids almost twice.  A datagram may be late by two.            *)
(***************************************************************************)
EXTENDS LossStats

MCMinStep == -2
==================================================================================

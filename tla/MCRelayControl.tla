--------------------------- MODULE MCRelayControl ---------------------------
(***************************************************************************)
(* One client that starts among two gateways and a forward that may be     *)
(* registered with either, at any time; then either a route probe, caused  *)
(* by a flow of play data, or a NetworkStats burst.  The second request    *)
(* runs while answers to the first are still under way.                    *)
(***************************************************************************)
EXTENDS Relay, TLC
CONSTANTS c1, g1, g2, f1, s1, udp, p1, q1, m1, m2

MCFlow     == {[client |-> c1, proto |-> udp, processPort |-> p1, server |-> s1,
                serverPort |-> q1]}
MCPlayFlow == MCFlow

\* Gateways and message ids are only compared for equality.
Symmetry == Permutations(Gateway) \cup Permutations(MsgId)
=============================================================================

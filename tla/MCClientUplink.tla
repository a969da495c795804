----------------------------- MODULE MCClientUplink -----------------------------
\* Two game servers, goroutines to probe both or one twice, and two paths that
\* share neither gateway nor forward.
EXTENDS ClientUplink, TLC

CONSTANTS s1, s2, p1, p2, g1, g2, f1, f2

MCPath == {<<g1, f1>>, <<g2, f2>>}
=================================================================================

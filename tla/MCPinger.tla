------------------------------- MODULE MCPinger -------------------------------
\* Two servers; three Pings are enough for a Ping to join a key, and for a third
\* to find the key gone; a channel of one is full at once.
EXTENDS Pinger
CONSTANTS srv1, srv2
MCAddr == {srv1, srv2}
===============================================================================

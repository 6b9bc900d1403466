---------------------------- MODULE MCGoServices ----------------------------
EXTENDS GoServices

CONSTANTS s2conn, gibsonconn, r1, r2, noon, midnight

\* GUEST_LIST has one name; the other bodies are empty, or too long for a packet.
MCGuestList == {<<7>>}
MCBodies == {<<7>>, <<>>, [i \in 1 .. MaxSize |-> 7]}

\* Two entries for one time.
MCEntries == <<[time |-> noon, packet |-> 1], [time |-> noon, packet |-> 2]>>
=============================================================================

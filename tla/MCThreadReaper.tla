--------------------------- MODULE MCThreadReaper ---------------------------
(* A small instance of ThreadReaper: a connection and a handshake beside    *)
(* the three permanent threads, and a List that starts with room for one.   *)
EXTENDS ThreadReaper

CONSTANTS c1, h1
MCConns == {c1}
MCHands == {h1}
==============================================================================

-------------------------- MODULE MCRequestHandler --------------------------
(* Small instances of RequestHandler.  A client that logs in and one that   *)
(* has, or two or three that have; a user each; enough commands for a       *)
(* request, its answer and one or two more.                                 *)
EXTENDS RequestHandler

CONSTANTS a1, a2, b1, alice, bob, carol

TwoSessions == {a1, b1}
ThreeSessions == {a1, a2, b1}

OwnUser == [s \in {a1, a2, b1} |-> CASE s = a1 -> alice [] s = a2 -> carol [] s = b1 -> bob]
TwoUsers == [s \in {a1, b1} |-> CASE s = a1 -> alice [] s = b1 -> bob]

OnlyBob == <<b1>>
Both == <<a1, b1>>
Three == <<a1, a2, b1>>

Quiet == {}
Leaving == {"leave"}
Listing == {"list"}
Wild == AllHabits
==============================================================================

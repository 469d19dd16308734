------------------------------ MODULE MCManager ------------------------------
(* Small instances of Manager: two senders, three packets, a handful of     *)
(* managerSetState calls, an owner that reads in every way.                 *)
EXTENDS Manager

CONSTANTS s1, s2, p1, p2, p3

MCSenders == {s1, s2}
MCPackets == {p1, p2, p3}
AnyMode == Modes
==============================================================================

--------------------------- MODULE MCClientThreads ---------------------------
(* Small instances of ClientThreads: main, the three permanent threads and  *)
(* at most two peer threads.                                                *)
EXTENDS ClientThreads

CONSTANTS q1, q2

NoPeer == {}
OnePeer == {q1}
TwoPeers == {q1, q2}

\* what the user sees open before /quit
AllOpen == {"output", "main"}
MainOpened == {"main"}

\* the two peer threads are alike, so q1 is the first that is created; the
\* second one is created during the chat of the first
Overlapping == pc[q2] # "none" => overlaps = {q2} /\ texts = 0
==============================================================================

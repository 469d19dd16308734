----------------------------- MODULE Rendezvous -----------------------------
(***************************************************************************)
(* What the rendezvous server (request-handler.c) promises to each client  *)
(* whose requests are in order, whatever the users of others do: it is     *)
(* introduced only to the client it has asked for, who has agreed, when    *)
(* neither is being introduced to another; it asks for one at a time; and  *)
(* no client is forgotten while it is being introduced.  To a client that  *)
(* has strayed, the server promises no more than that last point.          *)
(***************************************************************************)
CONSTANT Sessions

VARIABLES
  connected,  \* clients in the ClientList
  asks,       \* asks[s]: whom s has asked for, who has not answered yet
  busy,       \* clients that a handshake serves
  strayed     \* clients whose requests are out of order

vars == <<connected, asks, busy, strayed>>

Free == connected \ busy

Init ==
  /\ connected \in SUBSET Sessions /\ busy = {}
  /\ asks = [s \in Sessions |-> {}]
  /\ strayed \in SUBSET Sessions

(* A client logs in.                                                        *)
Join(s) ==
  /\ s \notin connected
  /\ connected' = connected \union {s}
  /\ UNCHANGED <<asks, busy, strayed>>

(* A client that has left is forgotten.  What it asked for, or was asked,   *)
(* is not.                                                                  *)
Depart(s) ==
  /\ s \in Free
  /\ connected' = connected \ {s}
  /\ UNCHANGED <<asks, busy, strayed>>

(* requestP2PtHandler passes on a request.                                  *)
Ask(s, t) ==
  /\ {s, t} \subseteq Free /\ s \notin strayed
  /\ asks[s] = {}
  /\ asks' = [asks EXCEPT ![s] = {t}]
  /\ UNCHANGED <<connected, busy, strayed>>

(* acceptHandler: t, who is not asking himself, agrees, and the two clients *)
(* are introduced.                                                          *)
Introduce(s, t) ==
  /\ {s, t} \subseteq Free /\ s # t
  /\ busy' = busy \union {s, t}
  /\ asks[s] = {t} /\ asks[t] = {}
  /\ asks' = [asks EXCEPT ![s] = {}]
  /\ UNCHANGED <<connected, strayed>>

(* acceptHandler: t agrees to a request of s that is out of order.          *)
Mistake(s, t) ==
  /\ s \in connected \intersect strayed /\ t \in Free
  /\ busy' = busy \union {s, t}
  /\ asks[t] = {}
  /\ UNCHANGED <<connected, asks, strayed>>

(* The handshake gives back one of its clients.                             *)
GiveBack(s) ==
  /\ s \in busy
  /\ busy' = busy \ {s}
  /\ UNCHANGED <<connected, asks, strayed>>

(* Clients stray, and requests are declined or their answers lost.          *)
Lapse ==
  /\ strayed' \in SUBSET Sessions /\ strayed \subseteq strayed'
  /\ asks' \in [Sessions -> SUBSET Sessions]
  /\ \A s \in Sessions : asks'[s] = {} \/ (asks'[s] = asks[s] /\ s \notin strayed')
  /\ UNCHANGED <<connected, busy>>

\* Ask(s, t) makes t one of asks'[s]: TLC need not try the others
Next ==
  \/ \E s \in Sessions : Join(s) \/ Depart(s) \/ GiveBack(s)
  \/ \E s \in Sessions : \E t \in asks'[s] : Ask(s, t)
  \/ \E s, t \in Sessions : Introduce(s, t) \/ Mistake(s, t)
  \/ Lapse

Spec == Init /\ [][Next]_vars
==============================================================================

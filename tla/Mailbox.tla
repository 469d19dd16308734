------------------------------- MODULE Mailbox -------------------------------
(***************************************************************************)
(* What one module of the client's manager promises to the threads that    *)
(* use it (include/network/manager.h): while it is not closed, a packet    *)
(* can be posted; a posted packet is handed out at most once; closing the  *)
(* module discards what is left, and nothing of it comes back when the     *)
(* module is opened again.  Every operation takes effect in one step and   *)
(* nothing is said of locks, of the wait token or of the alert pipe.       *)
(***************************************************************************)
CONSTANT Packets

VARIABLES mstate,   \* state of the module
          pending,  \* packets posted and neither taken nor discarded
          posted,   \* every packet accepted so far
          received  \* every packet handed out so far

mailVars == <<mstate, pending, posted, received>>

States == {"CLOSED", "IN_PROGRESS", "OPEN"}

MailInit == mstate = "CLOSED" /\ pending = {} /\ posted = {} /\ received = {}

Post(p) ==
  /\ mstate # "CLOSED"
  /\ p \notin posted
  /\ pending' = pending \union {p}
  /\ posted' = posted \union {p}
  /\ UNCHANGED <<mstate, received>>

Take(p) ==
  /\ p \in pending
  /\ p \notin received
  /\ pending' = pending \ {p}
  /\ received' = received \union {p}
  /\ UNCHANGED <<mstate, posted>>

Change(s) ==
  /\ mstate' = s
  /\ pending' = IF s = "CLOSED" THEN {} ELSE pending
  /\ UNCHANGED <<posted, received>>

MailNext == \/ \E p \in Packets : Post(p) \/ Take(p)
            \/ \E s \in States : Change(s)

MailSpec == MailInit /\ [][MailNext]_mailVars
==============================================================================

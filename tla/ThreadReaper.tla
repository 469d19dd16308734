---------------------------- MODULE ThreadReaper ----------------------------
(***************************************************************************)
(* The threads of the server, src/server/main.c, and how they are joined:  *)
(* a thread that ends adds its id to the List thread (listAdd) and sends   *)
(* SIGUSR1 to the main thread, whose handler pops one id (listPop) and     *)
(* joins that thread.  A SIGUSR1 that finds one pending is merged with it; *)
(* one that comes before main has called sigaction ends the process.       *)
(*                                                                         *)
(* What the threads do before they end is in RequestHandler; here they     *)
(* only start, run and end.  Operations on a List hold its mutex and main  *)
(* takes it in the handler alone, so each is one step.                     *)
(***************************************************************************)
EXTENDS Integers, Sequences, SequencesExt

CONSTANTS
  Conns,    \* startConnection threads that accepteUser may create, one each
  Hands,    \* createP2Pconnection threads that requestHandler may create
  Memory,   \* the memory_size that initList is called with
  NoThread  \* the handler joins nobody

Permanent == {"accept", "handler", "cli"}
Threads == Conns \union Hands \union Permanent

ASSUME ReaperAssumption ==
  /\ (Conns \union Hands) \intersect Permanent = {} /\ Conns \intersect Hands = {}
  /\ NoThread \notin Threads
  /\ Memory \in Nat

VARIABLES
  main,     \* where the main thread is
  joining,  \* the thread the handler joins
  back,     \* where main was when the signal came: the handler returns there
  pc,       \* where each other thread is
  list,     \* List thread: tab and size
  memory,   \* its memory_size
  pending,  \* a SIGUSR1 waits for the main thread
  end,      \* bool end
  dead      \* the process was ended by a signal

mainVars == <<main, joining, back>>
listVars == <<list, memory>>
vars == <<mainVars, pc, listVars, pending, end, dead>>

\* main: named after the thread it creates next, "mask" before sigaction and
\* "print" between sigaction and the first pause
MainPc == Permanent \union {"mask", "print", "pause", "pop", "join"}

\* "accept": accepteUser is in tlsAcceptCom
ThreadPc == {"none", "run", "accept", "add", "kill", "gone"}

Init ==
  /\ main = "accept" /\ joining = NoThread /\ back = "pause"
  /\ pc = [t \in Threads |-> "none"]
  /\ list = <<>> /\ memory = Memory
  /\ pending = FALSE /\ end = FALSE /\ dead = FALSE

Goto(t, l) == pc' = [pc EXCEPT ![t] = l]

------------------------------------------------------------------------------
(* List *)

\* mutant: the memory grows one element too late
ListAddLate(t) ==
  /\ list' = Append(list, t)
  /\ memory' = IF Len(list) > memory THEN memory + 8 ELSE memory

ListAdd(t) ==
  /\ list' = Append(list, t)
  /\ memory' = IF Len(list) = memory THEN memory + 8 ELSE memory

(* listPop: the memory is cut to what is left, down to none. *)
ListPop ==
  /\ list' = Front(list)
  /\ memory' = Len(list) - 1

------------------------------------------------------------------------------
(* main *)

(* pthread_create of accepteUser, requestHandler and cli, in that order. *)
MainCreate(t, next) ==
  /\ main = t
  /\ Goto(t, "run")
  /\ main' = next
  /\ UNCHANGED <<joining, back, listVars, pending, end, dead>>

(* sigaction *)
MainMask ==
  /\ main = "mask"
  /\ main' = "print"
  /\ UNCHANGED <<joining, back, pc, listVars, pending, end, dead>>

(* The message after it is printed, and main pauses for the first time. *)
MainPause ==
  /\ main = "print"
  /\ main' = "pause"
  /\ UNCHANGED <<joining, back, pc, listVars, pending, end, dead>>

(* signal_handler begins; SIGUSR1 is blocked until it returns. *)
Deliver ==
  /\ main \in {"print", "pause"} /\ pending
  /\ pending' = FALSE
  /\ main' = "pop" /\ back' = main
  /\ UNCHANGED <<joining, pc, listVars, end, dead>>

(* listPop asserts that the list is not empty: see PopsListed. *)
HandlerPop ==
  /\ main = "pop" /\ list # <<>>
  /\ joining' = Last(list)
  /\ ListPop
  /\ main' = "join"
  /\ UNCHANGED <<back, pc, pending, end, dead>>

\* mutant: the handler goes on with the next id
HandlerJoinLoops ==
  /\ main = "join" /\ pc[joining] = "gone"
  /\ joining' = NoThread
  /\ main' = "pop"
  /\ UNCHANGED <<back, pc, listVars, pending, end, dead>>

(* pthread_join *)
HandlerJoin ==
  /\ main = "join" /\ pc[joining] = "gone"
  /\ joining' = NoThread
  /\ main' = back
  /\ UNCHANGED <<back, pc, listVars, pending, end, dead>>

------------------------------------------------------------------------------
(* The other threads *)

(* accepteUser: the loop looks at end, and only then waits for a client. *)
AcceptTest ==
  /\ pc["accept"] = "run"
  /\ Goto("accept", IF end THEN "add" ELSE "accept")
  /\ UNCHANGED <<mainVars, listVars, pending, end, dead>>


(* A client connects and gets its thread. *)
AcceptOne(t) ==
  /\ pc["accept"] = "accept" /\ pc[t] = "none"
  /\ pc' = [pc EXCEPT ![t] = "run", !["accept"] = "run"]
  /\ UNCHANGED <<mainVars, listVars, pending, end, dead>>

(* tlsAcceptCom failed: the thread returns at once and is never joined. *)
AcceptFails ==
  /\ pc["accept"] = "accept"
  /\ Goto("accept", "gone")
  /\ UNCHANGED <<mainVars, listVars, pending, end, dead>>

(* acceptHandler, called by requestHandler. *)
HandStarts(t) ==
  /\ pc["handler"] = "run" /\ pc[t] = "none"
  /\ Goto(t, "run")
  /\ UNCHANGED <<mainVars, listVars, pending, end, dead>>

(* startConnection: the client has logged in, or left; createP2Pconnection: *)
(* both clients have been told what to try.                                 *)
ConnEnds(t) ==
  /\ pc[t] = "run"
  /\ Goto(t, "add")
  /\ UNCHANGED <<mainVars, listVars, pending, end, dead>>

(* requestHandler: the loop sees end. *)
RequestsEnd ==
  /\ pc["handler"] = "run" /\ end
  /\ Goto("handler", "add")
  /\ UNCHANGED <<mainVars, listVars, pending, end, dead>>

(* tlsWaitOnMultiple failed. *)
RequestsFail ==
  /\ pc["handler"] = "run"
  /\ end' = TRUE
  /\ Goto("handler", "add")
  /\ UNCHANGED <<mainVars, listVars, pending, dead>>

(* cli: quit sets end; after any command the loop looks at it. *)
CliCommand ==
  /\ pc["cli"] = "run"
  /\ end' = TRUE
  /\ Goto("cli", "add")
  /\ UNCHANGED <<mainVars, listVars, pending, dead>>

(* The first getline is given a pointer that was never set.  *)
CliFails ==
  /\ pc["cli"] = "run"
  /\ dead' = TRUE
  /\ UNCHANGED <<mainVars, pc, listVars, pending, end>>

(* The last lines of each of them: listAdd, pthread_kill, return. *)
ThreadAdd(t) ==
  /\ pc[t] = "add"
  /\ ListAdd(t)
  /\ Goto(t, "kill")
  /\ UNCHANGED <<mainVars, pending, end, dead>>

ThreadKill(t) ==
  /\ pc[t] = "kill"
  /\ IF main \in Permanent \union {"mask"}
       THEN dead' = TRUE /\ UNCHANGED pending
       ELSE pending' = TRUE /\ UNCHANGED dead
  /\ Goto(t, "gone")
  /\ UNCHANGED <<mainVars, listVars, end>>

------------------------------------------------------------------------------
Start ==
  \/ MainCreate("accept", "handler") \/ MainCreate("handler", "cli")
  \/ MainCreate("cli", "mask") \/ MainMask \/ MainPause

Handler == Deliver \/ HandlerPop \/ HandlerJoin

Ending(t) == ThreadAdd(t) \/ ThreadKill(t)

Work ==
  \/ \E t \in Conns : AcceptOne(t) \/ ConnEnds(t)
  \/ \E t \in Hands : HandStarts(t) \/ ConnEnds(t)
  \/ AcceptTest \/ AcceptFails \/ RequestsEnd \/ RequestsFail \/ CliCommand \/ CliFails

Next ==
  /\ ~dead
  /\ \/ Start \/ Handler \/ Work
     \/ \E t \in Threads : Ending(t)

Spec == Init /\ [][Next]_vars

(* Threads that can run are run.  Clients and the administrator owe nothing. *)
FairSpec ==
  /\ Spec
  /\ WF_vars(~dead /\ (Start \/ Handler))
  /\ \A t \in Threads : WF_vars(~dead /\ Ending(t))

------------------------------------------------------------------------------
(* Every variable has its type, and listAdd and listPop keep the List       *)
(* inside the memory they reallocate, even once a pop has cut it to 0.      *)
TypeOK ==
  /\ main \in MainPc /\ back \in {"print", "pause"}
  /\ joining \in Threads \union {NoThread} /\ (main = "join" => joining \in Threads)
  /\ pc \in [Threads -> ThreadPc]
  /\ list \in Seq(Threads) /\ memory \in Nat /\ Len(list) <= memory
  /\ pending \in BOOLEAN /\ end \in BOOLEAN /\ dead \in BOOLEAN

(* listPop, which leaves the program when the list is empty, is called once *)
(* per delivered signal: there is an id for it although main never looks,   *)
(* for each thread adds its id before it sends its signal.                  *)
PopsListed == main = "pop" => list # <<>>

==============================================================================

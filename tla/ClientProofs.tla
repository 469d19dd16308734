----------------------------- MODULE ClientProofs -----------------------------
(***************************************************************************)
(* The end of the client, for any peer threads and any number of texts.    *)
(***************************************************************************)
EXTENDS ClientThreads, TLAPS

USE DEF outBox, mainBox, history, vars

------------------------------------------------------------------------------
(* The inductive invariant *)

Permanent == {"server", "stdin", "stdout"}

\* a worker after managerSetState(CLOSED), and after it has posted its id
Done == {"add", "wake", "sleep", "end"}
Joinable == {"wake", "sleep", "end"}

\* a peer thread before managerSetState(PEER, CLOSED)
Live == {"start", "run", "hangup", "close"}

\* main before managerSetState(MAIN, OPEN), and in the loop that follows
Early == {"spin", "create", "open"}
Late == {"wait", "recv", "join", "check_input", "check_output", "check_server", "check_peer"}

(* A permanent worker has closed its module once it is done, and not        *)
(* before; main creates two of them together.                               *)
Placed ==
  /\ \A t \in Permanent : (state[ModuleOf(t)] = "CLOSED" <=> pc[t] \in Done) /\ pc[t] \notin {"notify", "drain"}
  /\ pc["server"] # "none" /\ (pc["stdin"] = "none" <=> pc["stdout"] = "none")
  /\ pc["stdin"] = "none" => main \in {"spin", "join_server", "create", "free", "freed", "exited"}
  /\ pc["stdin"] # "none" => main \notin {"spin", "join_server", "create"}
  /\ pc["stdin"] = "none" /\ main \in {"join_server", "free", "freed", "exited"}
       => pc["server"] \in Done

(* What isManagerModuleOpen has seen closed stays so.                       *)
Checked ==
  pc["stdin"] # "none" =>
    /\ main \in {"check_output", "check_server", "check_peer", "free", "freed", "exited"}
         => pc["stdin"] \in Done
    /\ main \in {"check_server", "check_peer", "free", "freed", "exited"}
         => pc["stdout"] \in Done
    /\ main \in {"check_peer", "free", "freed", "exited"} => pc["server"] \in Done

(* Unless the user started a chat during another, one peer thread at most   *)
(* has not closed PEER, which is not closed then; PEER is the last module   *)
(* isManagerModuleOpen looks at.                                            *)
OneChat ==
  /\ \A t \in Peers : pc[t] \in Live =>
       state["peer"] # "CLOSED" /\ \A u \in Peers : pc[u] \in Live => u = t
  /\ pc["stdin"] # "none" /\ main \in {"free", "freed", "exited"} => state["peer"] = "CLOSED"

Single == overlaps = {} => OneChat

(* A thread that is about to wake main, or has, has left an id in MAIN or   *)
(* main has already read one.                                               *)
Told == ids # <<>> \/ pc[num] \in Joinable

Heard ==
  /\ main \in Early => \A t \in Workers : pc[t] = "wake" => ids # <<>>
  /\ main \in Late /\ (mainWait = "unlocked" \/ main = "recv") => Told
  /\ main \in Late => \A t \in Workers : pc[t] = "wake" => Told
  /\ JoinsFinishedThread

------------------------------------------------------------------------------
(* Workers, their modules and the ids in MAIN *)

LEMMA ModuleFacts ==
  /\ ModuleOf("server") = "server" /\ ModuleOf("stdin") = "input" /\ ModuleOf("stdout") = "output"
  /\ \A t \in Peers : ModuleOf(t) = "peer" /\ t \notin Permanent
  /\ \A t \in Workers : ModuleOf(t) \in Modules /\ (t \in Permanent \/ t \in Peers)
  /\ Permanent \subseteq Workers /\ Peers \subseteq Workers
<1>1. \A t \in Peers : t # "server" /\ t # "stdin" /\ t # "stdout"
  BY ClientAssumption
<1>2. QED
  BY <1>1 DEF ModuleOf, Permanent, Workers, Modules

LEMMA Widens ==
  ASSUME NEW S, NEW T, NEW q \in Seq(S), \A x : x \in S => x \in T
  PROVE  q \in Seq(T)
OBVIOUS

LEMMA FrontSeq ==
  ASSUME NEW S, NEW q \in Seq(S), q # <<>>
  PROVE  Front(q) \in Seq(S) /\ Last(q) \in S
<1>1. Len(q) \in Nat \ {0} /\ \A i \in 1..Len(q) : q[i] \in S
  OBVIOUS
<1>2. QED
  BY <1>1 DEF Front, Last

(* PostOut leaves the output buffer empty while OUTPUT is closed.           *)
LEMMA PostOutTypes ==
  ASSUME TypeOK, NEW p \in {"close", "text"}, PostOut(p), UNCHANGED state
  PROVE  /\ out' \in Seq({"close", "text"}) /\ (state'["output"] = "CLOSED" => out' = <<>>)
         /\ outWait' \in {"locked", "unlocked"}
BY DEF TypeOK, PostOut

(* A thread whose id is in MAIN stays one that may be joined.               *)
LEMMA IdsKept ==
  ASSUME TypeOK, UNCHANGED ids, \A t \in Workers : pc[t] \in Joinable => pc'[t] \in Joinable
  PROVE  ids' \in Seq({t \in Workers : pc'[t] \in {"wake", "sleep", "end"}})
<1>1. ids \in Seq({t \in Workers : pc[t] \in Joinable})
  BY DEF TypeOK, Joinable
<1>2. ids \in Seq({t \in Workers : pc'[t] \in Joinable})
  BY <1>1, Widens
<1>3. QED
  BY <1>2 DEF Joinable

------------------------------------------------------------------------------
LEMMA ClientInit == Init => TypeOK /\ Placed /\ Checked /\ Single /\ Heard
<1> SUFFICES ASSUME Init PROVE TypeOK /\ Placed /\ Checked /\ Single /\ Heard
  OBVIOUS
<1> USE DEF Init
<1>1. TypeOK
  BY ModuleFacts, ClientAssumption
     DEF TypeOK, States, WorkerPc, MainPc, Modules, Permanent
<1>2. Placed
  BY ModuleFacts DEF Placed, Permanent, Done, Modules
<1>3. Checked
  BY ModuleFacts DEF Checked, Permanent
<1>4. Single
  BY ModuleFacts DEF Single, OneChat, Live, Permanent
<1>5. Heard
  BY DEF Heard, Early, Late, JoinsFinishedThread
<1>6. QED
  BY <1>1, <1>2, <1>3, <1>4, <1>5

------------------------------------------------------------------------------
(* Every thread that may be joined stays so.                                *)
LEMMA StaysJoinable ==
  ASSUME TypeOK, Placed, Next
  PROVE  \A t \in Workers : pc[t] \in Joinable => pc'[t] \in Joinable
<1> SUFFICES ASSUME NEW t \in Workers, pc[t] \in Joinable PROVE pc'[t] \in Joinable
  OBVIOUS
<1> USE DEF Goto, Joinable
<1>1. pc \in [Workers -> WorkerPc]
  BY DEF TypeOK
<1>2. CASE Server \/ Stdin \/ Stdout \/ Peer
  BY <1>1, <1>2
     DEF Server, ServerOpen, ServerFails, ServerEnds, ServerHangs, HangUp,
           Stdin, StdinStarted, StdinOpen, QuitPeer, QuitOutput, QuitServer, CreatePeer,
           Stdout, StdoutOpen, StdoutReceive, StdoutSleep,
           Peer, PeerOpen, PeerEnds, PeerHangs, HangUp
<1>3. ASSUME NEW u \in Workers, Finish(u) \/ PostText(u)
      PROVE  pc'[t] \in Joinable
  BY <1>1, <1>3 DEF Finish, PeerNotify, Drained, WorkerClose, MainSendAdd, MainSendWake, PostText
<1>4. CASE MainCreate
  BY <1>1, <1>4 DEF MainCreate, Placed
<1>5. CASE Main /\ ~MainCreate
  BY <1>1, <1>5
     DEF Main, MainSpin, MainJoinServer, MainOpen, MainToken, MainReceive,
         MainReceiveEmpty, MainJoin, MainCheck, MainFree, MainExit, WorkerPc
<1>6. QED
  BY <1>2, <1>3, <1>4, <1>5 DEF Next

(* A chat started during another stays recorded.                            *)
LEMMA OverlapsStay ==
  ASSUME Next PROVE overlaps \subseteq overlaps' /\ overlaps' \subseteq overlaps \union Peers
<1>1. CASE Server \/ Stdin \/ Stdout \/ Peer
  BY <1>1
     DEF Server, ServerOpen, ServerFails, ServerEnds, ServerHangs, HangUp, Stdin, StdinStarted,
         StdinOpen, QuitPeer, QuitOutput, QuitServer, CreatePeer, Stdout, StdoutOpen,
         StdoutReceive, StdoutSleep, Peer, PeerOpen, PeerEnds, PeerHangs
<1>2. ASSUME NEW u \in Workers, Finish(u) \/ PostText(u)
      PROVE  UNCHANGED overlaps
  BY <1>2 DEF Finish, PeerNotify, Drained, WorkerClose, MainSendAdd, MainSendWake, PostText
<1>3. CASE Main
  BY <1>3
     DEF Main, MainSpin, MainJoinServer, MainCreate, MainOpen, MainToken, MainReceive,
         MainReceiveEmpty, MainJoin, MainCheck, MainFree, MainExit
<1>4. QED
  BY <1>1, <1>2, <1>3 DEF Next

(* Each variable keeps its type.                                            *)
LEMMA TypesStep ==
  ASSUME TypeOK, Placed, Next
  PROVE  TypeOK'
<1> USE DEF Goto, MainTo, SetState
<1>1. ModuleOf("server") = "server" /\ ModuleOf("stdin") = "input" /\ ModuleOf("stdout") = "output"
  BY ModuleFacts
<1>2. state' \in [Modules -> States]
  <2> USE DEF TypeOK, States
  <2>1. CASE Server \/ Stdin \/ Stdout \/ Peer
    BY <2>1
       DEF Server, ServerOpen, ServerFails, ServerEnds, ServerHangs, HangUp,
           Stdin, StdinStarted, StdinOpen, QuitPeer, QuitOutput, QuitServer, CreatePeer,
           Stdout, StdoutOpen, StdoutReceive, StdoutSleep,
           Peer, PeerOpen, PeerEnds, PeerHangs, HangUp
  <2>2. ASSUME NEW u \in Workers, Finish(u) \/ PostText(u)
        PROVE  state' \in [Modules -> States]
    BY <2>2 DEF Finish, PeerNotify, Drained, WorkerClose, MainSendAdd, MainSendWake, PostText
  <2>3. CASE Main
    BY <2>3
       DEF Main, MainSpin, MainJoinServer, MainCreate, MainOpen, MainToken, MainReceive,
           MainReceiveEmpty, MainJoin, MainCheck, MainFree, MainExit
  <2>4. QED
    BY <2>1, <2>2, <2>3 DEF Next
<1>3. pc' \in [Workers -> WorkerPc]
  <2> USE DEF TypeOK, WorkerPc
  <2>1. CASE Server \/ Stdin \/ Stdout \/ Peer
    BY <2>1
       DEF Server, ServerOpen, ServerFails, ServerEnds, ServerHangs, HangUp,
           Stdin, StdinStarted, StdinOpen, QuitPeer, QuitOutput, QuitServer, CreatePeer,
           Stdout, StdoutOpen, StdoutReceive, StdoutSleep,
           Peer, PeerOpen, PeerEnds, PeerHangs, HangUp
  <2>2. ASSUME NEW u \in Workers, Finish(u) \/ PostText(u)
        PROVE  pc' \in [Workers -> WorkerPc]
    BY <2>2 DEF Finish, PeerNotify, Drained, WorkerClose, MainSendAdd, MainSendWake, PostText
  <2>3. CASE Main
    BY <2>3
       DEF Main, MainSpin, MainJoinServer, MainCreate, MainOpen, MainToken, MainReceive,
           MainReceiveEmpty, MainJoin, MainCheck, MainFree, MainExit
  <2>4. QED
    BY <2>1, <2>2, <2>3 DEF Next
<1>4. main' \in MainPc
  <2> USE DEF TypeOK, MainPc
  <2>1. CASE Server \/ Stdin \/ Stdout \/ Peer
    BY <2>1
       DEF Server, ServerOpen, ServerFails, ServerEnds, ServerHangs, HangUp,
           Stdin, StdinStarted, StdinOpen, QuitPeer, QuitOutput, QuitServer, CreatePeer,
           Stdout, StdoutOpen, StdoutReceive, StdoutSleep,
           Peer, PeerOpen, PeerEnds, PeerHangs, HangUp
  <2>2. ASSUME NEW u \in Workers, Finish(u) \/ PostText(u)
        PROVE  main' \in MainPc
    BY <2>2 DEF Finish, PeerNotify, Drained, WorkerClose, MainSendAdd, MainSendWake, PostText
  <2>3. CASE Main
    BY <2>3
       DEF Main, MainSpin, MainJoinServer, MainCreate, MainOpen, MainToken, MainReceive,
           MainReceiveEmpty, MainJoin, MainCheck, MainFree, MainExit
  <2>4. QED
    BY <2>1, <2>2, <2>3 DEF Next
<1>5. closing' \subseteq {"server", "peer"}
  <2> USE DEF TypeOK
  <2>1. CASE Server \/ Stdin \/ Stdout \/ Peer
    BY <2>1
       DEF Server, ServerOpen, ServerFails, ServerEnds, ServerHangs, HangUp,
           Stdin, StdinStarted, StdinOpen, QuitPeer, QuitOutput, QuitServer, CreatePeer,
           Stdout, StdoutOpen, StdoutReceive, StdoutSleep,
           Peer, PeerOpen, PeerEnds, PeerHangs, HangUp
  <2>2. ASSUME NEW u \in Workers, Finish(u) \/ PostText(u)
        PROVE  closing' \subseteq {"server", "peer"}
    BY <2>2 DEF Finish, PeerNotify, Drained, WorkerClose, MainSendAdd, MainSendWake, PostText
  <2>3. CASE Main
    BY <2>3
       DEF Main, MainSpin, MainJoinServer, MainCreate, MainOpen, MainToken, MainReceive,
           MainReceiveEmpty, MainJoin, MainCheck, MainFree, MainExit
  <2>4. QED
    BY <2>1, <2>2, <2>3 DEF Next
<1>6. texts' \in 0..MaxTexts
  <2>1. CASE UNCHANGED texts
    BY <2>1 DEF TypeOK
  <2>2. CASE texts < MaxTexts /\ texts' = texts + 1
    BY <2>2, ClientAssumption DEF TypeOK
  <2>3. CASE Server \/ Stdin \/ Stdout \/ Peer
    BY <2>1, <2>3
       DEF Server, ServerOpen, ServerFails, ServerEnds, ServerHangs, HangUp,
           Stdin, StdinStarted, StdinOpen, QuitPeer, QuitOutput, QuitServer, CreatePeer,
           Stdout, StdoutOpen, StdoutReceive, StdoutSleep,
           Peer, PeerOpen, PeerEnds, PeerHangs, HangUp
  <2>4. ASSUME NEW u \in Workers, Finish(u) \/ PostText(u)
        PROVE  texts' \in 0..MaxTexts
    BY <2>1, <2>2, <2>4 DEF Finish, PeerNotify, Drained, WorkerClose, MainSendAdd, MainSendWake, PostText
  <2>5. CASE Main
    BY <2>1, <2>5
       DEF Main, MainSpin, MainJoinServer, MainCreate, MainOpen, MainToken, MainReceive,
           MainReceiveEmpty, MainJoin, MainCheck, MainFree, MainExit
  <2>6. QED
    BY <2>3, <2>4, <2>5 DEF Next
<1>7. /\ out' \in Seq({"close", "text"}) /\ (state'["output"] = "CLOSED" => out' = <<>>)
      /\ outWait' \in {"locked", "unlocked"}
  <2>1. CASE UNCHANGED outBox /\ (state'["output"] = "CLOSED" => state["output"] = "CLOSED")
    BY <2>1 DEF TypeOK
  <2>2. CASE UNCHANGED state /\ (PostOut("close") \/ PostOut("text"))
    BY <2>2, PostOutTypes
  <2>3. CASE out' = <<>> /\ outWait' = "unlocked"
    BY <2>3
  <2>4. CASE StdoutOpen
    BY <1>1, <2>4 DEF StdoutOpen, TypeOK, Modules
  <2>5. CASE StdoutReceive
    <3>1. out # <<>> /\ out' = Front(out) /\ UNCHANGED state /\ outWait' \in {"locked", "unlocked"}
      BY <2>5 DEF StdoutReceive
    <3>2. Front(out) \in Seq({"close", "text"})
      BY <3>1, FrontSeq DEF TypeOK
    <3>3. QED
      BY <3>1, <3>2 DEF TypeOK
  <2>6. CASE Server
    BY <1>1, <2>1, <2>6 DEF Server, ServerOpen, ServerFails, ServerEnds, ServerHangs, HangUp, TypeOK, Modules
  <2>7. CASE Stdin
    BY <1>1, <2>1, <2>2, <2>7
       DEF Stdin, StdinStarted, StdinOpen, QuitPeer, QuitOutput, QuitServer, CreatePeer, TypeOK, Modules
  <2>8. CASE Stdout
    BY <2>1, <2>4, <2>5, <2>8 DEF Stdout, StdoutSleep
  <2>9. ASSUME NEW u \in Peers, PeerOpen(u) \/ PeerEnds(u) \/ PeerHangs(u) \/ HangUp(u)
        PROVE  UNCHANGED outBox /\ (state'["output"] = "CLOSED" => state["output"] = "CLOSED")
    BY <2>9, ModuleFacts DEF PeerOpen, PeerEnds, PeerHangs, HangUp, TypeOK, Modules
  <2>10. ASSUME NEW u \in Workers, WorkerClose(u), u # "stdout"
         PROVE  UNCHANGED outBox /\ (state'["output"] = "CLOSED" => state["output"] = "CLOSED")
    <3>1. ModuleOf(u) # "output" /\ state' = [state EXCEPT ![ModuleOf(u)] = "CLOSED"] /\ UNCHANGED outBox
      BY <2>10, ModuleFacts DEF WorkerClose, Permanent
    <3>2. QED
      BY <3>1 DEF TypeOK, Modules
  <2>11. ASSUME NEW u \in Workers, Finish(u) \/ PostText(u)
         PROVE  \/ UNCHANGED outBox /\ (state'["output"] = "CLOSED" => state["output"] = "CLOSED")
                \/ UNCHANGED state /\ PostOut("text")
                \/ out' = <<>> /\ outWait' = "unlocked"
    BY <2>10, <2>11 DEF Finish, PeerNotify, Drained, WorkerClose, MainSendAdd, MainSendWake, PostText
  <2>12. CASE Main
    BY <2>1, <2>12
       DEF Main, MainSpin, MainJoinServer, MainCreate, MainOpen, MainToken, MainReceive,
           MainReceiveEmpty, MainJoin, MainCheck, MainFree, MainExit
  <2>13. QED
    BY <2>1, <2>2, <2>3, <2>6, <2>7, <2>8, <2>9, <2>11, <2>12 DEF Next, Peer
<1>8. mainWait' \in {"locked", "unlocked"}
  <2> USE DEF TypeOK
  <2>1. CASE Server \/ Stdin \/ Stdout \/ Peer
    BY <2>1
       DEF Server, ServerOpen, ServerFails, ServerEnds, ServerHangs, HangUp,
           Stdin, StdinStarted, StdinOpen, QuitPeer, QuitOutput, QuitServer, CreatePeer,
           Stdout, StdoutOpen, StdoutReceive, StdoutSleep,
           Peer, PeerOpen, PeerEnds, PeerHangs, HangUp
  <2>2. ASSUME NEW u \in Workers, Finish(u) \/ PostText(u)
        PROVE  mainWait' \in {"locked", "unlocked"}
    BY <2>2 DEF Finish, PeerNotify, Drained, WorkerClose, MainSendAdd, MainSendWake, PostText
  <2>3. CASE Main
    BY <2>3
       DEF Main, MainSpin, MainJoinServer, MainCreate, MainOpen, MainToken, MainReceive,
           MainReceiveEmpty, MainJoin, MainCheck, MainFree, MainExit
  <2>4. QED
    BY <2>1, <2>2, <2>3 DEF Next
<1>9. ids' \in Seq({t \in Workers : pc'[t] \in {"wake", "sleep", "end"}})
  <2>1. CASE UNCHANGED ids
    BY <2>1, StaysJoinable, IdsKept
  <2>2. ASSUME NEW u \in Workers, MainSendAdd(u)
        PROVE  ids' \in Seq({t \in Workers : pc'[t] \in {"wake", "sleep", "end"}})
    <3> DEFINE S == {t \in Workers : pc'[t] \in {"wake", "sleep", "end"}}
    <3>1. ids \in Seq({t \in Workers : pc[t] \in Joinable})
      BY DEF TypeOK, Joinable
    <3>2. ids \in Seq(S)
      BY <3>1, StaysJoinable, Widens DEF Joinable
    <3>3. u \in S /\ ids' = Append(ids, u)
      BY <2>2 DEF MainSendAdd, TypeOK
    <3>4. QED
      BY <3>2, <3>3
  <2>3. CASE MainReceive
    <3> DEFINE S == {t \in Workers : pc[t] \in {"wake", "sleep", "end"}}
    <3>1. ids \in Seq(S) /\ ids # <<>> /\ ids' = Front(ids) /\ UNCHANGED pc
      BY <2>3 DEF MainReceive, TypeOK
    <3>2. ids' \in Seq(S)
      BY <3>1, FrontSeq
    <3>3. QED
      BY <3>1, <3>2
  <2>4. CASE Server \/ Stdin \/ Stdout \/ Peer
    BY <2>1, <2>4
       DEF Server, ServerOpen, ServerFails, ServerEnds, ServerHangs, HangUp,
           Stdin, StdinStarted, StdinOpen, QuitPeer, QuitOutput, QuitServer, CreatePeer,
           Stdout, StdoutOpen, StdoutReceive, StdoutSleep,
           Peer, PeerOpen, PeerEnds, PeerHangs, HangUp
  <2>5. ASSUME NEW u \in Workers, Finish(u) \/ PostText(u)
        PROVE  UNCHANGED ids \/ MainSendAdd(u)
    BY <2>5 DEF Finish, PeerNotify, Drained, WorkerClose, MainSendWake, PostText
  <2>6. CASE Main
    BY <2>1, <2>3, <2>6
       DEF Main, MainSpin, MainJoinServer, MainCreate, MainOpen, MainToken,
           MainReceiveEmpty, MainJoin, MainCheck, MainFree, MainExit
  <2>7. QED
    BY <2>1, <2>2, <2>4, <2>5, <2>6 DEF Next
<1>10. num' \in Workers
  <2>1. CASE UNCHANGED num
    BY <2>1 DEF TypeOK
  <2>2. CASE MainReceive
    <3> DEFINE S == {t \in Workers : pc[t] \in {"wake", "sleep", "end"}}
    <3>1. ids \in Seq(S) /\ ids # <<>> /\ num' = Last(ids)
      BY <2>2 DEF MainReceive, TypeOK
    <3>2. num' \in S
      BY <3>1, FrontSeq
    <3>3. QED
      BY <3>2
  <2>3. CASE Server \/ Stdin \/ Stdout \/ Peer
    BY <2>1, <2>3
       DEF Server, ServerOpen, ServerFails, ServerEnds, ServerHangs, HangUp,
           Stdin, StdinStarted, StdinOpen, QuitPeer, QuitOutput, QuitServer, CreatePeer,
           Stdout, StdoutOpen, StdoutReceive, StdoutSleep,
           Peer, PeerOpen, PeerEnds, PeerHangs, HangUp
  <2>4. ASSUME NEW u \in Workers, Finish(u) \/ PostText(u)
        PROVE  UNCHANGED num
    BY <2>4 DEF Finish, PeerNotify, Drained, WorkerClose, MainSendAdd, MainSendWake, PostText
  <2>5. CASE Main
    BY <2>1, <2>2, <2>5
       DEF Main, MainSpin, MainJoinServer, MainCreate, MainOpen, MainToken,
           MainReceiveEmpty, MainJoin, MainCheck, MainFree, MainExit, Workers
  <2>6. QED
    BY <2>1, <2>3, <2>4, <2>5 DEF Next
<1>11. overlaps' \subseteq Peers
  BY OverlapsStay DEF TypeOK
<1>12. QED
  BY <1>2, <1>3, <1>4, <1>5, <1>6, <1>7, <1>8, <1>9, <1>10, <1>11 DEF TypeOK

------------------------------------------------------------------------------
(* What a worker does, in the terms of the invariant                        *)

(* A peer thread has a module of its own: the permanent workers and their   *)
(* modules are as they were, and main too.                                  *)
LEMMA PeerThreadSteps ==
  ASSUME TypeOK, NEW t \in Peers,
         CreatePeer(t) \/ PeerOpen(t) \/ PeerEnds(t) \/ PeerHangs(t) \/ HangUp(t)
         \/ Finish(t) \/ PostText(t)
  PROVE  /\ \A u \in Permanent : pc'[u] = pc[u] /\ state'[ModuleOf(u)] = state[ModuleOf(u)]
         /\ UNCHANGED <<main, num>>
<1>1. /\ ModuleOf(t) = "peer" /\ t \notin Permanent /\ t \in Workers
      /\ Permanent \subseteq Workers
      /\ \A u \in Permanent : ModuleOf(u) \in Modules \ {"peer"}
  BY ModuleFacts DEF Permanent, Modules
<1>2. pc \in [Workers -> WorkerPc] /\ state \in [Modules -> States]
  BY DEF TypeOK
<1>3. \/ pc' = pc
      \/ \E l : pc' = [pc EXCEPT ![t] = l]
  BY DEF CreatePeer, PeerOpen, PeerEnds, PeerHangs, HangUp, Finish, PeerNotify, Drained,
         WorkerClose, MainSendAdd, MainSendWake, PostText, Goto
<1>4. \/ state' = state
      \/ \E l : state' = [state EXCEPT !["peer"] = l]
  BY <1>1 DEF CreatePeer, PeerOpen, PeerEnds, PeerHangs, HangUp, Finish, PeerNotify, Drained,
         WorkerClose, MainSendAdd, MainSendWake, PostText, SetState
<1>5. UNCHANGED <<main, num>>
  BY DEF CreatePeer, PeerOpen, PeerEnds, PeerHangs, HangUp, Finish, PeerNotify, Drained,
         WorkerClose, MainSendAdd, MainSendWake, PostText
<1>6. QED
  BY <1>1, <1>2, <1>3, <1>4, <1>5

(* A permanent worker is done just when its module is closed.             *)
LEMMA PlacedStep ==
  ASSUME TypeOK, Placed, Checked, Next
  PROVE  Placed'
<1> USE DEF Goto, MainTo, SetState
<1>1. /\ ModuleOf("server") = "server" /\ ModuleOf("stdin") = "input" /\ ModuleOf("stdout") = "output"
      /\ Permanent \subseteq Workers
  BY ModuleFacts
<1>2. pc \in [Workers -> WorkerPc] /\ state \in [Modules -> States]
  BY DEF TypeOK
<1>3. CASE Server
  BY <1>1, <1>2, <1>3
     DEF Server, ServerOpen, ServerFails, ServerEnds, ServerHangs, HangUp, Placed, Permanent, Done, Modules
<1>4. CASE StdinStarted \/ QuitServer
  BY <1>1, <1>2, <1>4
     DEF StdinStarted, StdinOpen, QuitPeer, QuitOutput, QuitServer, Placed, Permanent, Done, Modules
<1>5. CASE Stdout
  BY <1>1, <1>2, <1>5
     DEF Stdout, StdoutOpen, StdoutReceive, StdoutSleep, Placed, Permanent, Done, Modules
<1>6. ASSUME NEW t \in Peers,
             CreatePeer(t) \/ PeerOpen(t) \/ PeerEnds(t) \/ PeerHangs(t) \/ HangUp(t)
             \/ Finish(t) \/ PostText(t)
      PROVE  Placed'
  BY <1>1, <1>6, PeerThreadSteps DEF Placed, Permanent, Done, Modules
<1>7. ASSUME NEW t \in Permanent, Finish(t) \/ PostText(t)
      PROVE  Placed'
  <2>1. t \notin Peers /\ t \in Workers
    BY <1>7, ModuleFacts
  <2>2. CASE PostText(t)
    BY <1>1, <2>2 DEF PostText, Placed, Permanent, Done, Modules
  <2>3. CASE PeerNotify(t) \/ Drained(t)
    BY <1>7, <2>3 DEF PeerNotify, Drained, Placed
  <2>4. CASE WorkerClose(t)
    BY <1>1, <1>2, <1>7, <2>1, <2>4 DEF WorkerClose, Placed, Permanent, Done, Modules
  <2>5. CASE MainSendAdd(t) \/ MainSendWake(t)
    BY <1>1, <1>2, <1>7, <2>1, <2>5 DEF MainSendAdd, MainSendWake, Placed, Permanent, Done, Modules
  <2>6. QED
    BY <1>7, <2>2, <2>3, <2>4, <2>5 DEF Finish
<1>8. CASE MainCreate
  BY <1>1, <1>2, <1>8 DEF MainCreate, Placed, Permanent, Done, Modules
<1>9. CASE MainExit
  BY <1>1, <1>2, <1>9 DEF MainExit, Checked, Placed, Permanent, Done, Modules
<1>10. CASE Main /\ ~MainCreate /\ ~MainExit
  BY <1>1, <1>2, <1>10
     DEF Main, MainSpin, MainJoinServer, MainOpen, MainToken, MainReceive,
         MainReceiveEmpty, MainJoin, MainCheck, MainFree, Placed, Permanent, Done, Modules
<1>11. QED
  BY <1>3, <1>4, <1>5, <1>6, <1>7, <1>8, <1>9, <1>10, ModuleFacts
     DEF Next, Stdin, Peer

(* What isManagerModuleOpen has seen closed stays so.                     *)
LEMMA CheckedStep ==
  ASSUME TypeOK, Placed, Checked, Next
  PROVE  Checked'
<1> USE DEF Goto, MainTo, SetState
<1>1. /\ ModuleOf("server") = "server" /\ ModuleOf("stdin") = "input" /\ ModuleOf("stdout") = "output"
      /\ Permanent \subseteq Workers
  BY ModuleFacts
<1>2. pc \in [Workers -> WorkerPc] /\ state \in [Modules -> States]
  BY DEF TypeOK
<1>3. CASE Server
  BY <1>1, <1>2, <1>3
     DEF Server, ServerOpen, ServerFails, ServerEnds, ServerHangs, HangUp, Placed, Checked, Permanent, Done, Modules
<1>4. CASE StdinStarted \/ QuitServer
  BY <1>1, <1>2, <1>4
     DEF StdinStarted, StdinOpen, QuitPeer, QuitOutput, QuitServer, Placed, Checked, Permanent, Done, Modules
<1>5. CASE Stdout
  BY <1>1, <1>2, <1>5
     DEF Stdout, StdoutOpen, StdoutReceive, StdoutSleep, Placed, Checked, Permanent, Done, Modules
<1>6. ASSUME NEW t \in Peers,
             CreatePeer(t) \/ PeerOpen(t) \/ PeerEnds(t) \/ PeerHangs(t) \/ HangUp(t)
             \/ Finish(t) \/ PostText(t)
      PROVE  Checked'
  BY <1>1, <1>6, PeerThreadSteps DEF Placed, Checked, Permanent, Done, Modules
<1>7. ASSUME NEW t \in Permanent, Finish(t) \/ PostText(t)
      PROVE  Checked'
  <2>1. t \notin Peers /\ t \in Workers
    BY <1>7, ModuleFacts
  <2>2. CASE PostText(t)
    BY <1>1, <2>2 DEF PostText, Placed, Checked, Permanent, Done, Modules
  <2>3. CASE PeerNotify(t) \/ Drained(t)
    BY <1>7, <2>3 DEF PeerNotify, Drained, Placed
  <2>4. CASE WorkerClose(t)
    BY <1>1, <1>2, <1>7, <2>1, <2>4 DEF WorkerClose, Placed, Checked, Permanent, Done, Modules
  <2>5. CASE MainSendAdd(t) \/ MainSendWake(t)
    BY <1>1, <1>2, <1>7, <2>1, <2>5 DEF MainSendAdd, MainSendWake, Placed, Checked, Permanent, Done, Modules
  <2>6. QED
    BY <1>7, <2>2, <2>3, <2>4, <2>5 DEF Finish
<1>8. CASE MainCreate
  BY <1>1, <1>2, <1>8 DEF MainCreate, Placed, Checked, Permanent, Done, Modules
<1>9. CASE MainExit
  BY <1>1, <1>2, <1>9 DEF MainExit, Placed, Checked, Permanent, Done, Modules
<1>10. CASE Main /\ ~MainCreate /\ ~MainExit
  BY <1>1, <1>2, <1>10
     DEF Main, MainSpin, MainJoinServer, MainOpen, MainToken, MainReceive,
         MainReceiveEmpty, MainJoin, MainCheck, MainFree, Placed, Checked, Permanent, Done, Modules
<1>11. QED
  BY <1>3, <1>4, <1>5, <1>6, <1>7, <1>8, <1>9, <1>10, ModuleFacts
     DEF Next, Stdin, Peer

(* The steps of the permanent workers leave the peer threads alone.         *)
LEMMA PermanentSteps ==
  ASSUME TypeOK, Placed,
         \/ Server \/ StdinStarted \/ QuitServer \/ Stdout
         \/ \E t \in Permanent : Finish(t) \/ PostText(t)
  PROVE  /\ \A u \in Peers : pc'[u] = pc[u]
         /\ state'["peer"] = state["peer"]
         /\ pc'["stdin"] = "none" <=> pc["stdin"] = "none"
         /\ UNCHANGED <<main, num>>
<1> USE DEF Goto, SetState
<1>1. /\ ModuleOf("server") = "server" /\ ModuleOf("stdin") = "input" /\ ModuleOf("stdout") = "output"
      /\ \A u \in Peers : u \in Workers /\ u \notin Permanent
      /\ Permanent \subseteq Workers
      /\ "server" \in Permanent /\ "stdin" \in Permanent /\ "stdout" \in Permanent
  BY ModuleFacts DEF Permanent
<1>2. pc \in [Workers -> WorkerPc] /\ state \in [Modules -> States] /\ "peer" \in Modules
  BY DEF TypeOK, Modules
<1>3. CASE Server
  BY <1>1, <1>2, <1>3 DEF Server, ServerOpen, ServerFails, ServerEnds, ServerHangs, HangUp
<1>4. CASE StdinStarted \/ QuitServer
  BY <1>1, <1>2, <1>4 DEF StdinStarted, StdinOpen, QuitPeer, QuitOutput, QuitServer
<1>5. CASE Stdout
  BY <1>1, <1>2, <1>5 DEF Stdout, StdoutOpen, StdoutReceive, StdoutSleep
<1>6. CASE \E t \in Permanent : Finish(t) \/ PostText(t)
  <2>1. PICK t \in Permanent : Finish(t) \/ PostText(t)
    BY <1>6
  <2>2. CASE PostText(t)
    BY <2>2 DEF PostText
  <2>3. CASE PeerNotify(t) \/ Drained(t)
    BY <2>3 DEF PeerNotify, Drained, Placed
  <2>4. CASE WorkerClose(t)
    BY <1>1, <1>2, <2>4 DEF WorkerClose, Permanent
  <2>5. CASE MainSendAdd(t) \/ MainSendWake(t)
    BY <1>1, <1>2, <2>5 DEF MainSendAdd, MainSendWake, Permanent
  <2>6. QED
    BY <2>1, <2>2, <2>3, <2>4, <2>5 DEF Finish
<1>7. QED
  BY <1>3, <1>4, <1>5, <1>6

(* PEER has one thread at a time, if the user has started one only while it *)
(* was closed; once main has seen it closed after INPUT it stays so.        *)
LEMMA SingleStep ==
  ASSUME TypeOK, Placed, Checked, Single, Next
  PROVE  Single'
<1> SUFFICES ASSUME overlaps' = {} PROVE OneChat'
  BY DEF Single
<1> USE DEF Goto, SetState
<1>0. overlaps = {} /\ OneChat
  BY OverlapsStay DEF Single
<1> USE <1>0
<1>1. /\ \A u \in Peers : ModuleOf(u) = "peer" /\ u \in Workers /\ u # "stdin" /\ u # "stdout"
      /\ "stdin" \in Workers /\ "peer" \in Modules
  BY ModuleFacts DEF Modules, Permanent
<1>2. pc \in [Workers -> WorkerPc] /\ state \in [Modules -> States]
  BY DEF TypeOK
<1>3. CASE \/ Server \/ StdinStarted \/ QuitServer \/ Stdout
           \/ \E t \in Permanent : Finish(t) \/ PostText(t)
  BY <1>3, PermanentSteps DEF OneChat
<1>4. ASSUME NEW t \in Peers, CreatePeer(t)
      PROVE  OneChat'
  <2>1. /\ state["peer"] = "CLOSED" /\ state'["peer"] = "IN_PROGRESS"
        /\ pc["stdin"] = "run" /\ pc' = [pc EXCEPT ![t] = "start"] /\ main' = main
    BY <1>1, <1>2, <1>4 DEF CreatePeer
  <2>2. \A u \in Peers : pc[u] \notin Live
    BY <2>1 DEF OneChat
  <2>3. main \notin {"free", "freed", "exited"}
    BY <2>1 DEF Checked, Done
  <2>4. QED
    BY <1>1, <1>2, <2>1, <2>2, <2>3 DEF OneChat
<1>5. ASSUME NEW t \in Peers, PeerOpen(t) \/ PeerEnds(t) \/ PeerHangs(t) \/ HangUp(t)
      PROVE  OneChat'
  <2>1. /\ pc[t] \in Live /\ UNCHANGED main
        /\ state'["peer"] \in {"OPEN", state["peer"]}
        /\ \E l : pc' = [pc EXCEPT ![t] = l]
    BY <1>1, <1>2, <1>5 DEF PeerOpen, PeerEnds, PeerHangs, HangUp, Live
  <2>2. /\ pc'["stdin"] = pc["stdin"]
        /\ \A u \in Peers : pc'[u] \in Live => pc[u] \in Live
    BY <1>1, <1>2, <2>1
  <2>3. state["peer"] # "CLOSED" /\ \A u \in Peers : pc[u] \in Live => u = t
    BY <2>1 DEF OneChat
  <2>4. QED
    BY <2>1, <2>2, <2>3 DEF OneChat
<1>6. ASSUME NEW t \in Peers, WorkerClose(t)
      PROVE  OneChat'
  <2>1. /\ pc[t] = "close" /\ pc'[t] \notin Live /\ state'["peer"] = "CLOSED"
        /\ \E l : pc' = [pc EXCEPT ![t] = l]
    BY <1>1, <1>2, <1>6 DEF WorkerClose, Live
  <2>2. \A u \in Peers : pc[u] \in Live => u = t
    BY <2>1 DEF OneChat, Live
  <2>3. \A u \in Peers : pc'[u] \notin Live
    BY <1>1, <1>2, <2>1, <2>2
  <2>4. QED
    BY <2>1, <2>3 DEF OneChat
<1>7. ASSUME NEW t \in Peers, PeerNotify(t) \/ Drained(t) \/ MainSendAdd(t) \/ MainSendWake(t) \/ PostText(t)
      PROVE  OneChat'
  <2>1. UNCHANGED <<state, main>> /\ pc'["stdin"] = pc["stdin"]
    BY <1>1, <1>2, <1>7 DEF PeerNotify, Drained, MainSendAdd, MainSendWake, PostText
  <2>2. \A u \in Peers : pc'[u] \in Live => pc[u] \in Live
    BY <1>1, <1>2, <1>7 DEF PeerNotify, Drained, MainSendAdd, MainSendWake, PostText, Live
  <2>3. QED
    BY <2>1, <2>2 DEF OneChat
<1>8. CASE Main
  <2>1. UNCHANGED state /\ \A u \in Peers : pc'[u] \in Live => pc[u] \in Live
    BY <1>1, <1>2, <1>8
       DEF Main, MainSpin, MainJoinServer, MainCreate, MainOpen, MainToken, MainReceive,
           MainReceiveEmpty, MainJoin, MainCheck, MainFree, MainExit, Live, MainTo
  <2>2. pc'["stdin"] # "none" /\ main' \in {"free", "freed", "exited"} => state["peer"] = "CLOSED"
    BY <1>1, <1>2, <1>8
       DEF Main, MainSpin, MainJoinServer, MainCreate, MainOpen, MainToken, MainReceive,
           MainReceiveEmpty, MainJoin, MainCheck, MainFree, MainExit, MainTo, OneChat, Placed
  <2>3. QED
    BY <2>1, <2>2 DEF OneChat
<1>9. QED
  BY <1>3, <1>4, <1>5, <1>6, <1>7, <1>8, ModuleFacts DEF Next, Stdin, Peer, Finish

(* An id is in MAIN, or main has one, whenever main is to wake.             *)
LEMMA HeardStep ==
  ASSUME TypeOK, Placed, Heard, Next
  PROVE  Heard'
<1> USE DEF Goto, MainTo
<1>1. pc \in [Workers -> WorkerPc] /\ num \in Workers
  BY DEF TypeOK
<1>2. \A t \in Workers : pc[t] \in Joinable => pc'[t] \in Joinable
  BY StaysJoinable
<1>3. ASSUME UNCHANGED <<ids, mainWait, main, num>>,
             \A t \in Workers : pc'[t] = "wake" => pc[t] = "wake"
      PROVE  Heard'
  BY <1>1, <1>2, <1>3 DEF Heard, Told, JoinsFinishedThread, Joinable
<1>4. CASE Server \/ Stdin \/ Stdout \/ Peer
  <2>1. UNCHANGED <<ids, mainWait, main, num>> /\ \A t \in Workers : pc'[t] = "wake" => pc[t] = "wake"
    BY <1>1, <1>4
       DEF Server, ServerOpen, ServerFails, ServerEnds, ServerHangs, HangUp,
           Stdin, StdinStarted, StdinOpen, QuitPeer, QuitOutput, QuitServer, CreatePeer,
           Stdout, StdoutOpen, StdoutReceive, StdoutSleep,
           Peer, PeerOpen, PeerEnds, PeerHangs, HangUp
  <2>2. QED
    BY <1>3, <2>1
<1>5. ASSUME NEW t \in Workers, PeerNotify(t) \/ Drained(t) \/ WorkerClose(t) \/ PostText(t)
      PROVE  Heard'
  <2>1. UNCHANGED <<ids, mainWait, main, num>> /\ \A u \in Workers : pc'[u] = "wake" => pc[u] = "wake"
    BY <1>1, <1>5 DEF PeerNotify, Drained, WorkerClose, PostText
  <2>2. QED
    BY <1>3, <2>1
<1>6. ASSUME NEW t \in Workers, MainSendAdd(t)
      PROVE  Heard'
  <2>1. ids' # <<>> /\ UNCHANGED <<main, num>>
    BY <1>6 DEF MainSendAdd, TypeOK
  <2>2. JoinsFinishedThread'
    BY <1>1, <1>2, <2>1 DEF Heard, JoinsFinishedThread, Joinable
  <2>3. QED
    BY <2>1, <2>2 DEF Heard, Told
<1>7. ASSUME NEW t \in Workers, MainSendWake(t)
      PROVE  Heard'
  <2>1. /\ pc[t] = "wake" /\ UNCHANGED <<ids, main, num>>
        /\ \A u \in Workers : pc'[u] = "wake" => pc[u] = "wake"
    BY <1>1, <1>7 DEF MainSendWake
  <2>2. main \in Late => Told'
    BY <1>1, <1>2, <2>1 DEF Heard, Told
  <2>3. JoinsFinishedThread'
    BY <1>1, <1>2, <2>1 DEF Heard, JoinsFinishedThread, Joinable
  <2>4. main \in Early => ids # <<>>
    BY <2>1 DEF Heard
  <2>5. QED
    BY <2>1, <2>2, <2>3, <2>4 DEF Heard
<1>8. CASE MainReceive
  <2> DEFINE S == {t \in Workers : pc[t] \in {"wake", "sleep", "end"}}
  <2>1. ids \in Seq(S) /\ ids # <<>> /\ num' = Last(ids) /\ UNCHANGED pc /\ main' = "join"
    BY <1>8 DEF MainReceive, TypeOK
  <2>2. num' \in S
    BY <2>1, FrontSeq
  <2>3. Told' /\ JoinsFinishedThread'
    BY <2>1, <2>2 DEF Told, JoinsFinishedThread, Joinable
  <2>4. QED
    BY <2>1, <2>3 DEF Heard, Early
<1>9. CASE MainReceiveEmpty
  <2>1. /\ main = "recv" /\ ids = <<>> /\ main' = "join"
        /\ UNCHANGED <<ids, mainWait, pc, num>>
    BY <1>9 DEF MainReceiveEmpty
  <2>2. Told /\ pc[num] \in Joinable
    BY <2>1 DEF Heard, Told, Late
  <2>3. QED
    BY <2>1, <2>2 DEF Heard, Told, Early, JoinsFinishedThread, Joinable
<1>10. CASE MainOpen \/ MainToken
  BY <1>10 DEF MainOpen, MainToken, Heard, Told, Early, Late, JoinsFinishedThread
<1>11. CASE MainCreate
  BY <1>1, <1>11 DEF MainCreate, Heard, Early, Late, JoinsFinishedThread
<1>12. CASE MainExit \/ MainFree \/ MainJoinServer
  BY <1>12 DEF MainExit, MainFree, MainJoinServer, Heard, Early, Late, JoinsFinishedThread
<1>13. CASE MainSpin
  BY <1>13 DEF MainSpin, Heard, Early, Late, JoinsFinishedThread
<1>14. CASE MainJoin
  BY <1>14 DEF MainJoin, Heard, Told, Early, Late, JoinsFinishedThread
<1>15. CASE \/ MainCheck("check_input", "input", "check_output")
            \/ MainCheck("check_output", "output", "check_server")
            \/ MainCheck("check_server", "server", "check_peer")
            \/ MainCheck("check_peer", "peer", "free")
  BY <1>15 DEF MainCheck, Heard, Told, Early, Late, JoinsFinishedThread
<1>16. QED
  BY <1>4, <1>5, <1>6, <1>7, <1>8, <1>9, <1>10, <1>11, <1>12, <1>13, <1>14, <1>15
     DEF Next, Finish, Main

------------------------------------------------------------------------------
(* What holds for any number of peer threads                                *)

IInv == TypeOK /\ Placed /\ Checked /\ Heard

LEMMA StutterStep == ASSUME IInv, UNCHANGED vars PROVE IInv' /\ (Single => Single')
BY DEF IInv, TypeOK, Placed, Checked, Heard, Told, JoinsFinishedThread, Single, OneChat, outBox, mainBox

LEMMA Invariance == Spec => []IInv
<1>1. Init => IInv
  BY ClientInit DEF IInv
<1>2. IInv /\ [Next]_vars => IInv'
  <2>1. CASE Next
    BY <2>1, TypesStep, PlacedStep, CheckedStep, HeardStep DEF IInv
  <2>2. CASE UNCHANGED vars
    BY <2>2, StutterStep
  <2>3. QED
    BY <2>1, <2>2
<1>3. QED
  BY <1>1, <1>2, PTL DEF Spec

LEMMA SingleThread == Spec => []Single
<1>1. Init => Single
  BY ClientInit
<1>2. IInv /\ Single /\ [Next]_vars => Single'
  <2>1. CASE Next
    BY <2>1, SingleStep DEF IInv
  <2>2. CASE UNCHANGED vars
    BY <2>2, StutterStep
  <2>3. QED
    BY <2>1, <2>2
<1>3. QED
  BY <1>1, <1>2, Invariance, PTL DEF Spec

(* main.c and manager.c: the client's variables keep their types; OUTPUT    *)
(* holds nothing while it is closed and an id in MAIN is that of a thread   *)
(* that has closed its module, whatever the peer threads the user starts.   *)
THEOREM ClientTypeCorrect == Spec => []TypeOK
<1>1. IInv => TypeOK
  BY DEF IInv
<1>2. QED
  BY <1>1, Invariance, PTL

(* main.c, the loop before closeApp: main never waits in pthread_join for   *)
(* a thread that still serves the user, although managerMainReceive does    *)
(* not always set num_t.                                                    *)
THEOREM ClientJoinsFinished == Spec => []JoinsFinishedThread
<1>1. IInv => JoinsFinishedThread
  BY DEF IInv, Heard
<1>2. QED
  BY <1>1, Invariance, PTL

(* main.c, closeApp: once the client has begun, main frees the manager only *)
(* when INPUT, OUTPUT and SERVER are closed, and PEER too unless the user   *)
(* has started a chat during another.                                       *)
THEOREM ClientFreesClosedModules == Spec => []NoModuleLeftOpen
<1>1. IInv /\ Single => NoModuleLeftOpen
  <2> SUFFICES ASSUME IInv, Single, freed, pc["stdin"] # "none", NEW m \in Modules
               PROVE  state[m] = "CLOSED" \/ (m = "peer" /\ overlaps # {})
    BY DEF NoModuleLeftOpen, Modules
  <2>1. state["peer"] = "CLOSED" \/ overlaps # {}
    BY DEF Single, OneChat, freed
  <2>2. \A t \in Permanent : state[ModuleOf(t)] = "CLOSED"
    BY DEF IInv, Checked, Placed, Permanent, freed
  <2>3. state["server"] = "CLOSED" /\ state["input"] = "CLOSED" /\ state["output"] = "CLOSED"
    BY <2>2, ModuleFacts DEF Permanent
  <2>4. QED
    BY <2>1, <2>3 DEF Modules
<1>2. QED
  BY <1>1, Invariance, SingleThread, PTL

==============================================================================

---------------------------- MODULE ClientThreads ----------------------------
(***************************************************************************)
(* The threads of the client and how the program starts and ends:          *)
(* src/client/main.c, the two loops of src/client/tui.c, the creation and  *)
(* the end of a peer thread in src/network/p2p-com.c, commandQuit, and the *)
(* MAIN module of src/network/manager.c, through which a thread asks main  *)
(* to join it before main frees everything (closeApp).                     *)
(*                                                                         *)
(* Each operation of a module other than MAIN is one step: Manager shows   *)
(* that it behaves so.  The wait tokens of MAIN and OUTPUT are kept, for   *)
(* main and stdout block on them.  pthread_create always succeeds.         *)
(***************************************************************************)
EXTENDS Integers, Sequences, SequencesExt

CONSTANTS
  Peers,      \* peer threads the user may start, one each
  QuitWaits,  \* modules, of OUTPUT and MAIN, the user sees open before /quit
  MaxTexts    \* bound on the texts posted to the output

Modules == {"server", "input", "output", "peer"}
Workers == {"server", "stdin", "stdout"} \union Peers
States == {"CLOSED", "IN_PROGRESS", "OPEN"}

ASSUME ClientAssumption ==
  /\ Peers \intersect {"server", "stdin", "stdout"} = {}
  /\ QuitWaits \subseteq {"output", "main"}
  /\ MaxTexts \in Nat

VARIABLES
  state,      \* state of each module but MAIN
  closing,    \* modules (server, peer) with a P2P_CLOSE in their buffer
  out, outWait,    \* buffer and mutex_wait_read of OUTPUT
  ids, mainWait,   \* buffer and mutex_wait_read of MAIN
  pc,         \* where each worker is
  main,       \* where main is
  num,        \* num_t: the thread main joins next
  texts,      \* history: number of texts posted to the output
  overlaps    \* history: peer threads created while PEER was not closed

outBox == <<out, outWait>>
mainBox == <<ids, mainWait>>
history == <<texts, overlaps>>
vars == <<state, closing, outBox, mainBox, pc, main, num, history>>

(* The module whose state a worker sets. *)
ModuleOf(t) ==
  CASE t = "server" -> "server" [] t = "stdin" -> "input"
    [] t = "stdout" -> "output" [] OTHER -> "peer"

freed == main \in {"freed", "exited"}

WorkerPc == {"none", "start", "run", "quit_server", "quit_peer", "quit_output",
             "hangup", "close", "notify", "drain", "add", "wake", "sleep", "end"}
MainPc == {"spin", "join_server", "create", "open", "wait", "recv", "join",
           "check_input", "check_output", "check_server", "check_peer",
           "free", "freed", "exited"}

(* main up to the creation of threadServer (lines 71-77). *)
Init ==
  /\ state = [m \in Modules |-> IF m = "peer" THEN "CLOSED" ELSE "IN_PROGRESS"]
  /\ closing = {}
  /\ out = <<>> /\ outWait = "locked"
  /\ ids = <<>> /\ mainWait = "unlocked"
  /\ pc = [t \in Workers |-> IF t = "server" THEN "start" ELSE "none"]
  /\ main = "spin" /\ num = "server"
  /\ texts = 0 /\ overlaps = {}

Goto(t, l) == pc' = [pc EXCEPT ![t] = l]

(* managerSetState(module of t, s), and managerSend(OUTPUT, p). *)
SetState(t, s) == state' = [state EXCEPT ![ModuleOf(t)] = s]

\* mutant: the packet is kept whatever the state of OUTPUT
PostOutAnyState(p) ==
  /\ outWait' = "unlocked"
  /\ out' = Append(out, p)

PostOut(p) ==
  /\ outWait' = "unlocked"
  /\ out' = IF state["output"] = "CLOSED" THEN out ELSE Append(out, p)

------------------------------------------------------------------------------
(* threadServer *)

(* tlsOpenCom succeeds. *)
ServerOpen ==
  /\ pc["server"] = "start"
  /\ SetState("server", "OPEN")
  /\ Goto("server", "run")
  /\ UNCHANGED <<closing, outBox, mainBox, main, num, history>>

(* tlsOpenCom fails: the thread returns without telling main. *)
ServerFails ==
  /\ pc["server"] = "start"
  /\ SetState("server", "CLOSED")
  /\ Goto("server", "end")
  /\ UNCHANGED <<closing, outBox, mainBox, main, num, history>>

(* tlsStartListenning returns because the server left. *)
ServerEnds ==
  /\ pc["server"] = "run"
  /\ Goto("server", "close")
  /\ UNCHANGED <<state, closing, outBox, mainBox, main, num, history>>

(* tlsStartListenning pops a P2P_CLOSE and calls tlsCloseCom. *)
ServerHangs ==
  /\ pc["server"] = "run" /\ "server" \in closing
  /\ closing' = closing \ {"server"}
  /\ Goto("server", "hangup")
  /\ UNCHANGED <<state, outBox, mainBox, main, num, history>>

(* tlsCloseCom returns: it has read the end of the other side's packets,    *)
(* for which it waits without a limit.                                      *)
HangUp(t) ==
  /\ pc[t] = "hangup"
  /\ Goto(t, "close")
  /\ UNCHANGED <<state, closing, outBox, mainBox, main, num, history>>

------------------------------------------------------------------------------
(* stdinHandler *)

StdinOpen ==
  /\ pc["stdin"] = "start"
  /\ SetState("stdin", "OPEN")
  /\ Goto("stdin", "run")
  /\ UNCHANGED <<closing, outBox, mainBox, main, num, history>>

(* p2pCreateThreadPeer, for /request, /accept and /direct, whatever the     *)
(* state of PEER.                                                           *)
CreatePeer(t) ==
  /\ pc["stdin"] = "run"
  /\ pc[t] = "none"
  /\ state' = [state EXCEPT !["peer"] = "IN_PROGRESS"]
  /\ overlaps' = IF state["peer"] = "CLOSED" THEN overlaps ELSE overlaps \union {t}
  /\ Goto(t, "start")
  /\ UNCHANGED <<closing, outBox, mainBox, main, num, texts>>

(* commandQuit posts P2P_CLOSE to SERVER, then PEER, then OUTPUT; the loop  *)
(* of stdinHandler then ends.                                               *)
QuitServer ==
  /\ pc["stdin"] = "run"
  /\ "output" \in QuitWaits => state["output"] = "OPEN"
  /\ "main" \in QuitWaits => main # "open"
  /\ closing' = IF state["server"] = "CLOSED" THEN closing ELSE closing \union {"server"}
  /\ Goto("stdin", "quit_peer")
  /\ UNCHANGED <<state, outBox, mainBox, main, num, history>>

QuitPeer ==
  /\ pc["stdin"] = "quit_peer"
  /\ closing' = IF state["peer"] = "CLOSED" THEN closing ELSE closing \union {"peer"}
  /\ Goto("stdin", "quit_output")
  /\ UNCHANGED <<state, outBox, mainBox, main, num, history>>

\* mutant: the output is not told
QuitOutputForgotten ==
  /\ pc["stdin"] = "quit_output"
  /\ Goto("stdin", "close")
  /\ UNCHANGED <<state, closing, outBox, mainBox, main, num, history>>

QuitOutput ==
  /\ pc["stdin"] = "quit_output"
  /\ PostOut("close")
  /\ Goto("stdin", "close")
  /\ UNCHANGED <<state, closing, mainBox, main, num, history>>

------------------------------------------------------------------------------
(* stdoutHandler *)

(* setStateOpen takes the token, whatever was posted meanwhile. *)
StdoutOpen ==
  /\ pc["stdout"] = "start"
  /\ SetState("stdout", "OPEN")
  /\ outWait' = "locked"
  /\ Goto("stdout", "run")
  /\ UNCHANGED <<closing, out, mainBox, main, num, history>>

(* One turn of the loop: managerReceiveBlocking pops the last packet, and   *)
(* P2P_CLOSE ends the loop.                                                 *)
StdoutReceive ==
  /\ pc["stdout"] = "run"
  /\ outWait = "unlocked" /\ out # <<>>
  /\ out' = Front(out)
  /\ outWait' = IF Len(out) > 1 THEN "unlocked" ELSE "locked"
  /\ Goto("stdout", IF Last(out) = "close" THEN "close" ELSE "run")
  /\ UNCHANGED <<state, closing, mainBox, main, num, history>>

(* sleep(500), after main was told. *)
StdoutSleep ==
  /\ pc["stdout"] = "sleep"
  /\ Goto("stdout", "end")
  /\ UNCHANGED <<state, closing, outBox, mainBox, main, num, history>>

------------------------------------------------------------------------------
(* funStartPeer and funStartPeerDirect *)

PeerOpen(t) ==
  /\ pc[t] = "start"
  /\ SetState(t, "OPEN")
  /\ Goto(t, "run")
  /\ UNCHANGED <<closing, outBox, mainBox, main, num, history>>

(* The chat or the attempt to open it ends, on a P2P_CLOSE of the other     *)
(* side, a refusal or an error.                                             *)
PeerEnds(t) ==
  /\ pc[t] \in {"start", "run"}
  /\ Goto(t, "close")
  /\ UNCHANGED <<state, closing, outBox, mainBox, main, num, history>>

(* A P2P_CLOSE is popped from PEER: an open connection is closed first. *)
PeerHangs(t) ==
  /\ pc[t] \in {"start", "run"} /\ "peer" \in closing
  /\ closing' = closing \ {"peer"}
  /\ Goto(t, "hangup") \/ (pc[t] = "start" /\ Goto(t, "close"))
  /\ UNCHANGED <<state, outBox, mainBox, main, num, history>>

(* exitThreadPeer: the text for the output is posted after PEER is closed,  *)
(* then a connection that is still there is closed.                         *)
PeerNotify(t) ==
  /\ pc[t] = "notify"
  /\ PostOut("text")
  /\ Goto(t, "add") \/ Goto(t, "drain")
  /\ UNCHANGED <<state, closing, mainBox, main, num, history>>

(* This tlsCloseCom, too, returns when the other side has closed its end.   *)
Drained(t) ==
  /\ pc[t] = "drain"
  /\ Goto(t, "add")
  /\ UNCHANGED <<state, closing, outBox, mainBox, main, num, history>>

------------------------------------------------------------------------------
(* Any worker: what a running one posts to the output, and how it ends. *)

PostText(t) ==
  /\ pc[t] = "run" /\ t # "stdout"
  /\ texts < MaxTexts
  /\ PostOut("text")
  /\ texts' = texts + 1
  /\ UNCHANGED <<state, closing, mainBox, pc, main, num, overlaps>>

(* managerSetState(module, CLOSED) empties the module and frees its token.  *)
(* A peer that leaves through exitThreadPeer notifies the output.           *)
WorkerClose(t) ==
  /\ pc[t] = "close"
  /\ SetState(t, "CLOSED")
  /\ closing' = closing \ {ModuleOf(t)}
  /\ IF t = "stdout" THEN out' = <<>> /\ outWait' = "unlocked" ELSE UNCHANGED outBox
  /\ Goto(t, "add") \/ (t \in Peers /\ Goto(t, "notify"))
  /\ UNCHANGED <<mainBox, main, num, history>>

(* managerMainSendPthreadToJoin: the id is added under mutex_access_buffer, *)
(* mutex_wait_read is unlocked only after that mutex is.                    *)
MainSendAdd(t) ==
  /\ pc[t] = "add"
  /\ ids' = Append(ids, t)
  /\ Goto(t, "wake")
  /\ UNCHANGED <<state, closing, outBox, mainWait, main, num, history>>

MainSendWake(t) ==
  /\ pc[t] = "wake"
  /\ mainWait' = "unlocked"
  /\ Goto(t, IF t = "stdout" THEN "sleep" ELSE "end")
  /\ UNCHANGED <<state, closing, outBox, ids, main, num, history>>

------------------------------------------------------------------------------
(* main *)

MainTo(l) == main' = l /\ UNCHANGED <<closing, outBox>>

(* Lines 82-86: wait until the server thread is open, or closed. *)
MainSpin ==
  /\ main = "spin" /\ state["server"] # "IN_PROGRESS"
  /\ MainTo(IF state["server"] = "CLOSED" THEN "join_server" ELSE "create")
  /\ UNCHANGED <<state, mainBox, pc, num, history>>

MainJoinServer ==
  /\ main = "join_server" /\ pc["server"] = "end"
  /\ MainTo("free")
  /\ UNCHANGED <<state, mainBox, pc, num, history>>

(* Lines 89-96: num_t is left with the id of the stdout thread. *)
MainCreate ==
  /\ main = "create"
  /\ pc' = [pc EXCEPT !["stdin"] = "start", !["stdout"] = "start"]
  /\ num' = "stdout"
  /\ MainTo("open")
  /\ UNCHANGED <<state, mainBox, history>>

\* mutant: MAIN is opened without taking the token
MainOpenFree ==
  /\ main = "open"
  /\ MainTo("wait")
  /\ UNCHANGED <<state, mainBox, pc, num, history>>

(* managerSetState(MAIN, OPEN) takes the token. *)
MainOpen ==
  /\ main = "open"
  /\ mainWait' = "locked"
  /\ MainTo("wait")
  /\ UNCHANGED <<state, ids, pc, num, history>>

(* managerMainReceive: wait for the token, then pop an id.  With none there *)
(* it answers MANAGER_ERR_RETRY, which main ignores, and num_t keeps its    *)
(* value.                                                                   *)
MainToken ==
  /\ main = "wait" /\ mainWait = "unlocked"
  /\ mainWait' = "locked"
  /\ MainTo("recv")
  /\ UNCHANGED <<state, ids, pc, num, history>>

MainReceive ==
  /\ main = "recv" /\ ids # <<>>
  /\ num' = Last(ids)
  /\ ids' = Front(ids)
  /\ mainWait' = IF Len(ids) > 1 THEN "unlocked" ELSE mainWait
  /\ MainTo("join")
  /\ UNCHANGED <<state, pc, history>>

MainReceiveEmpty ==
  /\ main = "recv" /\ ids = <<>>
  /\ MainTo("join")
  /\ UNCHANGED <<state, mainBox, pc, num, history>>

(* pthread_join waits for the end of the thread; joining a thread a second  *)
(* time is undefined, taken here to return an error.                        *)
MainJoin ==
  /\ main = "join" /\ pc[num] = "end"
  /\ MainTo("check_input")
  /\ UNCHANGED <<state, mainBox, pc, num, history>>

\* mutant: the state of PEER is read first and that of INPUT last
MainCheckPeerFirst(l, m, next) ==
  LET first == IF m = "input" THEN "peer" ELSE IF m = "peer" THEN "input" ELSE m
  IN /\ main = l
     /\ MainTo(IF state[first] = "CLOSED" THEN next ELSE "wait")
     /\ UNCHANGED <<state, mainBox, pc, num, history>>

(* isManagerModuleOpen reads the states one after the other, unlocked. *)
MainCheck(l, m, next) ==
  /\ main = l
  /\ MainTo(IF state[m] = "CLOSED" THEN next ELSE "wait")
  /\ UNCHANGED <<state, mainBox, pc, num, history>>

(* closeApp: the manager and the TLS connection are freed, then exit(0)     *)
(* ends the threads that are left.                                          *)
MainFree ==
  /\ main = "free"
  /\ MainTo("freed")
  /\ UNCHANGED <<state, mainBox, pc, num, history>>

MainExit ==
  /\ main = "freed"
  /\ MainTo("exited")
  /\ pc' = [t \in Workers |-> IF pc[t] = "none" THEN "none" ELSE "end"]
  /\ UNCHANGED <<state, mainBox, num, history>>

------------------------------------------------------------------------------
\* the end of a worker, once it has begun
Finish(t) == PeerNotify(t) \/ Drained(t) \/ WorkerClose(t) \/ MainSendAdd(t) \/ MainSendWake(t)

Server == ServerOpen \/ ServerFails \/ ServerEnds \/ ServerHangs \/ HangUp("server")
StdinStarted == StdinOpen \/ QuitPeer \/ QuitOutput
Stdin == StdinStarted \/ QuitServer \/ \E t \in Peers : CreatePeer(t)
Stdout == StdoutOpen \/ StdoutReceive \/ StdoutSleep
Peer == \E t \in Peers : PeerOpen(t) \/ PeerEnds(t) \/ PeerHangs(t) \/ HangUp(t)

Main == \/ MainSpin \/ MainJoinServer \/ MainCreate \/ MainOpen
        \/ MainToken \/ MainReceive \/ MainReceiveEmpty \/ MainJoin
        \/ MainCheck("check_input", "input", "check_output")
        \/ MainCheck("check_output", "output", "check_server")
        \/ MainCheck("check_server", "server", "check_peer")
        \/ MainCheck("check_peer", "peer", "free")
        \/ MainFree \/ MainExit

Next ==
  \/ Server \/ Stdin \/ Stdout \/ Peer
  \/ \E t \in Workers : Finish(t) \/ PostText(t)
  \/ Main

Spec == Init /\ [][Next]_vars

(* Every thread that can run is run, and one that has a P2P_CLOSE in its    *)
(* module reads it.  The other ends of the connections and the user owe     *)
(* nothing: tlsCloseCom may never return (HangUp and Drained are not fair). *)
FairSpec ==
  /\ Spec
  /\ WF_vars(Main)
  /\ WF_vars((ServerOpen \/ ServerFails))
  /\ WF_vars(ServerHangs)
  /\ WF_vars(StdinStarted)
  /\ WF_vars(Stdout)
  /\ \A t \in Peers : WF_vars(PeerHangs(t))
  /\ \A t \in Workers : WF_vars(pc[t] # "drain" /\ Finish(t))

------------------------------------------------------------------------------
(* Every variable has its type; OUTPUT holds nothing while it is closed,    *)
(* and an id is in MAIN only once its thread has closed its module.         *)
TypeOK ==
  /\ state \in [Modules -> States]
  /\ closing \subseteq {"server", "peer"}
  /\ out \in Seq({"close", "text"}) /\ (state["output"] = "CLOSED" => out = <<>>)
  /\ ids \in Seq({t \in Workers : pc[t] \in {"wake", "sleep", "end"}})
  /\ {outWait, mainWait} \subseteq {"locked", "unlocked"}
  /\ pc \in [Workers -> WorkerPc] /\ main \in MainPc /\ num \in Workers
  /\ texts \in 0..MaxTexts /\ overlaps \subseteq Peers

(* Once the threads are created, main frees the manager only when INPUT,    *)
(* OUTPUT and SERVER are closed, and PEER too unless the user has started a *)
(* chat during another.  It holds because isManagerModuleOpen looks at      *)
(* INPUT before it looks at PEER: the input thread is the one that opens    *)
(* PEER.                                                                    *)
NoModuleLeftOpen ==
  (freed /\ pc["stdin"] # "none") =>
    /\ \A m \in Modules \ {"peer"} : state[m] = "CLOSED"
    /\ state["peer"] = "CLOSED" \/ overlaps # {}

(* main waits in pthread_join only for a thread that has closed its module  *)
(* and said so, never for one that still serves the user: num_t starts with *)
(* the id of the running output thread and managerMainReceive does not      *)
(* always set it.                                                           *)
JoinsFinishedThread == main = "join" => pc[num] \in {"wake", "sleep", "end"}

(* main.c, before the loop that ends in closeApp: "wait threads".  No       *)
(* thread has a step left that uses the manager main has freed.             *)
ManagerOutlivesThreads ==
  freed => \A t \in Workers : pc[t] \in {"none", "sleep", "end"}

(* command.h: "/quit: Exits the application."  It does, unless the other    *)
(* end of a connection never lets tlsCloseCom return, or the user has       *)
(* started a chat during another, of which one P2P_CLOSE ends one only.     *)
QuitExits ==
  \/ <>[](\E t \in Workers : pc[t] \in {"hangup", "drain"})
  \/ pc["stdin"] = "quit_peer" ~> (main = "exited" \/ overlaps # {})
==============================================================================

----------------------------- MODULE PeerSession -----------------------------
(***************************************************************************)
(* A chat between two clients, from the command that asks for it to the    *)
(* last byte of its connection: the peer thread of each client             *)
(* (funStartPeer and funStartPeerDirect of src/network/p2p-com.c), the     *)
(* connection it opens, reads, writes and closes (src/network/tls-com.c),  *)
(* the commands of its user and the messages of the server.                *)
(*                                                                         *)
(* Each operation of the PEER module is one step, as Manager shows, and    *)
(* genListPop gives the last packet.  The server is reduced to what it     *)
(* tells the clients (RequestHandler has the rest).  A connection loses    *)
(* nothing until it breaks, and its buffers never fill.  The user asks for *)
(* a chat only while PEER is closed.                                       *)
(***************************************************************************)
EXTENDS Integers, Sequences, SequencesExt, FiniteSets

CONSTANTS
  Clients,    \* the two clients
  MaxStarts,  \* bound on the peer threads each client creates
  MaxCloses,  \* bound on the /close commands of all
  MaxTexts    \* bound on the messages typed by all

ASSUME PeerAssumption ==
  /\ IsFiniteSet(Clients) /\ Cardinality(Clients) = 2
  /\ MaxStarts \in Nat /\ MaxCloses \in Nat /\ MaxTexts \in Nat

Other(c) == CHOOSE d \in Clients : d # c

VARIABLES
  state, inbox,  \* the PEER module of each client and its packets
  pc,            \* where its peer thread is
  direct,        \* it runs funStartPeerDirect
  link,          \* the chat it holds, an index of chats, or 0
  drains,        \* chats that exitThreadPeer closes after PEER: <<client, chat>>
  chats,         \* the connections made so far, see NewChat
  typing,        \* the chat the user types a message for, or 0
  chatOf,        \* history: the chat each message was typed for
  shown,         \* history: messages the output of the other client was given
  starts,        \* number of peer threads each client has created
  closes,        \* number of /close commands
  fromServer,    \* messages of the server on their way to each client
  asked,         \* clients whose request the server has not answered
  shake, infos   \* the handshake of the server, <<requester>> or <<>>, and its answers

moduleVars == <<state, inbox>>
threadVars == <<pc, direct, link, drains>>
userVars == <<typing, chatOf, starts, closes>>
serverVars == <<fromServer, asked, shake, infos>>
vars == <<moduleVars, threadVars, userVars, serverVars, chats, shown>>

\* tlsOpenCom in mode TLS_SERVER is "accept", in mode TLS_CLIENT "connect"
TlsModes == {"accept", "connect"}
PeerPc ==
  {"none", "infos", "try", "retry", "fail", "linked", "listen", "stop"} \union TlsModes

P2P == [type : {"close", "reject", "get_infos"}]
       \union [type : {"try"}, mode : TlsModes]
Packet == P2P \union [type : {"text"}, n : 1..MaxTexts]
Fin == [type |-> "fin"]    \* close_notify of SSL_shutdown

(* A connection: what each end has sent and the other has not read, the     *)
(* ends that have called SSL_shutdown and close, whether it broke, and (a   *)
(* history) what was done that may end the chat.                            *)
NewChat(bad, why) ==
  [wire |-> [c \in Clients |-> <<>>], shut |-> {}, gone |-> {}, broken |-> bad, why |-> why]

Init ==
  /\ state = [c \in Clients |-> "CLOSED"] /\ inbox = [c \in Clients |-> <<>>]
  /\ pc = [c \in Clients |-> "none"]
  /\ direct = [c \in Clients |-> FALSE]
  /\ link = [c \in Clients |-> 0]
  /\ drains = {} /\ chats = <<>>
  /\ typing = [c \in Clients |-> 0] /\ chatOf = <<>> /\ shown = {}
  /\ starts = [c \in Clients |-> 0] /\ closes = 0
  /\ fromServer = [c \in Clients |-> <<>>]
  /\ asked = {} /\ shake = <<>> /\ infos = {}

Goto(c, l) == pc' = [pc EXCEPT ![c] = l]

\* managerReceive: the packet read is the last of the buffer
Has(c, types) == inbox[c] # <<>> /\ Last(inbox[c]).type \in types
Pop(c) == inbox' = [inbox EXCEPT ![c] = Front(@)]

\* managerSend: refused while the module is closed
Posted(c, m) == IF state[c] = "CLOSED" THEN inbox[c] ELSE Append(inbox[c], m)

\* mutant: the buffer is kept
ClosesOnly(c) ==
  /\ state' = [state EXCEPT ![c] = "CLOSED"]
  /\ inbox' = inbox
  /\ link' = [link EXCEPT ![c] = 0]
  /\ direct' = [direct EXCEPT ![c] = FALSE]
  /\ Goto(c, "none")

(* managerSetState(PEER, CLOSED), which empties the buffer, and the end of  *)
(* the thread; the chat is closed already, or left to a drain.              *)
Closes(c) ==
  /\ state' = [state EXCEPT ![c] = "CLOSED"]
  /\ inbox' = [inbox EXCEPT ![c] = <<>>]
  /\ link' = [link EXCEPT ![c] = 0]
  /\ direct' = [direct EXCEPT ![c] = FALSE]
  /\ Goto(c, "none")

------------------------------------------------------------------------------
(* One end of a connection *)

(* SSL_write; what is sent to an end that is closed, or over a connection   *)
(* that is broken, is lost: the process survives the SIGPIPE of it here.    *)
Sent(ch, c, m) ==
  IF ch.broken \/ Other(c) \in ch.gone THEN ch ELSE [ch EXCEPT !.wire[c] = Append(@, m)]

\* mutant: the end of the stream is not sent
ShutSilent(ch, c) ==
  IF c \in ch.shut THEN ch ELSE [ch EXCEPT !.shut = @ \union {c}]

\* SSL_shutdown, once
Shut(ch, c) ==
  IF c \in ch.shut THEN ch ELSE [Sent(ch, c, Fin) EXCEPT !.shut = @ \union {c}]

\* SSL_read: the end of the stream is read again and again
Readable(c, k) == chats[k].wire[Other(c)] # <<>>
Incoming(c, k) == Head(chats[k].wire[Other(c)])
Read(c, k) == [chats EXCEPT ![k].wire[Other(c)] = Tail(@)]

Finished(c, k) == chats[k].broken \/ (Readable(c, k) /\ Incoming(c, k) = Fin)

------------------------------------------------------------------------------
(* p2pCreateThreadPeer, by the input thread of c for one of the commands    *)

Idle(c) == typing[c] = 0

Creates(c, l, d) ==
  /\ Idle(c) /\ state[c] = "CLOSED" /\ starts[c] < MaxStarts
  /\ state' = [state EXCEPT ![c] = "IN_PROGRESS"]
  /\ direct' = [direct EXCEPT ![c] = d]
  /\ Goto(c, l)
  /\ starts' = [starts EXCEPT ![c] = @ + 1]

(* /direct: funStartPeerDirect begins in p2pTryToConnect.                   *)
UserDirect(c, m) ==
  /\ Creates(c, m, TRUE)
  /\ UNCHANGED <<inbox, link, drains, chats, typing, chatOf, closes, shown, serverVars>>

(* /request: funStartPeer, then REQUEST_OUT to the server.                  *)
UserRequest(c) ==
  /\ Creates(c, "infos", FALSE)
  /\ asked' = asked \union {c}
  /\ UNCHANGED <<inbox, link, drains, chats, typing, chatOf, closes, shown,
                 fromServer, shake, infos>>

(* /accept: funStartPeer, then ACCEPT to the server, which begins a         *)
(* handshake with a P2P_GET_INFOS to both.                                  *)
UserAccept(c) ==
  /\ Other(c) \in asked /\ shake = <<>>
  /\ Creates(c, "infos", FALSE)
  /\ asked' = asked \ {Other(c)}
  /\ shake' = <<Other(c)>>
  /\ fromServer' = [d \in Clients |-> Append(fromServer[d], [type |-> "get_infos"])]
  /\ UNCHANGED <<inbox, link, drains, chats, typing, chatOf, closes, shown, infos>>

(* SERVER is closed: either command posts a P2P_CLOSE for the new thread.   *)
UserUnserved(c) ==
  /\ Creates(c, "infos", FALSE)
  /\ inbox' = [inbox EXCEPT ![c] = Append(@, [type |-> "close"])]
  /\ UNCHANGED <<link, drains, chats, typing, chatOf, closes, shown, serverVars>>

(* /close: p2pCloseCom.                                                     *)
UserClose(c) ==
  /\ Idle(c) /\ state[c] # "CLOSED" /\ closes < MaxCloses
  /\ closes' = closes + 1
  /\ inbox' = [inbox EXCEPT ![c] = Append(@, [type |-> "close"])]
  /\ chats' = IF link[c] = 0 THEN chats
              ELSE [chats EXCEPT ![link[c]].why = @ \union {"close"}]
  /\ UNCHANGED <<state, threadVars, typing, chatOf, starts, serverVars, shown>>

(* A message: chatSendMessage looks at the state of PEER ...                *)
UserTypes(c) ==
  /\ Idle(c) /\ state[c] = "OPEN"
  /\ Len(chatOf) + Cardinality({d \in Clients : ~Idle(d)}) < MaxTexts
  /\ typing' = [typing EXCEPT ![c] = link[c]]
  /\ UNCHANGED <<moduleVars, threadVars, chatOf, starts, closes, serverVars, chats, shown>>

(* ... and sends to it; PEER may be closed meanwhile.                       *)
UserSends(c) ==
  /\ ~Idle(c)
  /\ inbox' = [inbox EXCEPT ![c] = Posted(c, [type |-> "text", n |-> Len(chatOf) + 1])]
  /\ chatOf' = IF state[c] = "CLOSED" THEN chatOf ELSE Append(chatOf, typing[c])
  /\ typing' = [typing EXCEPT ![c] = 0]
  /\ UNCHANGED <<state, threadVars, starts, closes, serverVars, chats, shown>>

------------------------------------------------------------------------------
(* The server, and the SERVER thread of each client *)

(* A request is refused, by the server or by the other user.  When the      *)
(* user refuses, rejecttHandler may tell any client.                        *)
ServerRejects(c, d) ==
  /\ c \in asked
  /\ asked' = asked \ {c}
  /\ fromServer' = [fromServer EXCEPT ![d] = Append(@, [type |-> "reject"])]
  /\ UNCHANGED <<moduleVars, threadVars, userVars, chats, shown, shake, infos>>

(* createP2Pconnection has both P2P_INFOS.                                  *)
ServerTries ==
  /\ shake # <<>> /\ infos = Clients
  /\ LET try(m) == [type |-> "try", mode |-> m]
     IN fromServer' = [c \in Clients |-> Append(fromServer[c],
          try(IF c = shake[1] THEN "accept" ELSE "connect"))]
  /\ shake' = <<>> /\ infos' = {}
  /\ UNCHANGED <<moduleVars, threadVars, userVars, chats, shown, asked>>

(* tlsManagerPacketReceived(SERVER): all of these go to PEER.               *)
Deliver(c) ==
  /\ fromServer[c] # <<>>
  /\ LET m == Head(fromServer[c])
     IN /\ inbox' = [inbox EXCEPT ![c] = Posted(c, m)]
        /\ chats' = IF m.type # "reject" \/ link[c] = 0 THEN chats
                    ELSE [chats EXCEPT ![link[c]].why = @ \union {"reject"}]
  /\ fromServer' = [fromServer EXCEPT ![c] = Tail(@)]
  /\ UNCHANGED <<state, threadVars, userVars, asked, shake, infos, shown>>

------------------------------------------------------------------------------
(* funStartPeer before it has a connection.  exitThreadPeer without one is  *)
(* Closes.                                                                  *)

ThreadOnly == UNCHANGED <<userVars, serverVars, shown>>

(* P2P_GET_INFOS is the only packet it goes on for; the P2P_INFOS it posts  *)
(* reach the server.                                                        *)
PeerInfos(c) ==
  /\ pc[c] = "infos" /\ Has(c, {"get_infos"})
  /\ Pop(c)
  /\ Goto(c, "try")
  /\ infos' = infos \union {c}
  /\ UNCHANGED <<state, direct, link, drains, userVars, fromServer, asked, shake,
                 chats, shown>>

(* Any other packet ends the thread, and so does a SERVER that is closed    *)
(* when the P2P_INFOS are posted.                                           *)
PeerRefused(c) ==
  /\ pc[c] = "infos" /\ inbox[c] # <<>>
  /\ Closes(c)
  /\ UNCHANGED <<drains, chats>> /\ ThreadOnly

PeerTries(c) ==
  /\ pc[c] = "try" /\ Has(c, {"try"})
  /\ Goto(c, Last(inbox[c]).mode)
  /\ Pop(c)
  /\ UNCHANGED <<state, direct, link, drains, chats>> /\ ThreadOnly

PeerGivesUp(c) ==
  /\ pc[c] = "try" /\ Has(c, {"close", "reject"})
  /\ Closes(c)
  /\ UNCHANGED <<drains, chats>> /\ ThreadOnly

PeerIgnores(c) ==
  /\ pc[c] = "try" /\ Has(c, {"get_infos"})
  /\ Pop(c)
  /\ UNCHANGED <<state, threadVars, chats>> /\ ThreadOnly

------------------------------------------------------------------------------
(* p2pTryToConnect *)

\* what waits in the buffers of both when a connection is made
Reasons == {m.type : m \in UNION {Range(inbox[c]) : c \in Clients}} \intersect {"close", "reject"}

(* tlsOpenCom of both succeeds: accept and connect meet, and the TLS        *)
(* handshake.                                                               *)
Meet(c) ==
  /\ pc[c] = "accept" /\ pc[Other(c)] = "connect"
  /\ chats' = Append(chats, NewChat(FALSE, Reasons))
  /\ link' = [d \in Clients |-> Len(chats) + 1]
  /\ pc' = [d \in Clients |-> "linked"]
  /\ UNCHANGED <<moduleVars, direct, drains>> /\ ThreadOnly

(* SSL_connect of the client succeeds, and SSL_accept of the server fails.  *)
HalfMeet(c) ==
  /\ pc[c] = "accept" /\ pc[Other(c)] = "connect"
  /\ chats' = Append(chats, [NewChat(TRUE, {"broken"}) EXCEPT !.shut = {c}, !.gone = {c}])
  /\ link' = [link EXCEPT ![Other(c)] = Len(chats) + 1]
  /\ pc' = [pc EXCEPT ![c] = "fail", ![Other(c)] = "linked"]
  /\ UNCHANGED <<moduleVars, direct, drains>> /\ ThreadOnly

(* TLS_ERROR: the port is taken, the other client does not listen for the   *)
(* whole timeout, or a call fails.                                          *)
OpenFails(c) ==
  /\ pc[c] \in TlsModes
  /\ Goto(c, "fail")
  /\ UNCHANGED <<moduleVars, direct, link, drains, chats>> /\ ThreadOnly

(* TLS_RETRY: accept has waited TIMEOUT_DIRECT_SERVER seconds.              *)
AcceptTimesOut(c) ==
  /\ pc[c] = "accept"
  /\ Goto(c, "retry")
  /\ UNCHANGED <<moduleVars, direct, link, drains, chats>> /\ ThreadOnly

\* mutant: the close request is dropped like any other packet
RetryCloseIgnored(c) ==
  /\ pc[c] = "retry" /\ Has(c, {"close"})
  /\ Pop(c)
  /\ Goto(c, IF direct[c] THEN "accept" ELSE "fail")
  /\ UNCHANGED <<state, direct, link, drains, chats>> /\ ThreadOnly

(* One non-blocking read of PEER: a close request ends the attempt, ...     *)
RetryClose(c) ==
  /\ pc[c] = "retry" /\ Has(c, {"close"})
  /\ Closes(c)
  /\ UNCHANGED <<drains, chats>> /\ ThreadOnly

(* ... another packet is dropped, and without `loop' TLS_ERROR is returned. *)
RetryAgain(c) ==
  /\ pc[c] = "retry" /\ ~Has(c, {"close"})
  /\ inbox' = [inbox EXCEPT ![c] = IF @ = <<>> THEN @ ELSE Front(@)]
  /\ Goto(c, IF direct[c] THEN "accept" ELSE "fail")
  /\ UNCHANGED <<state, direct, link, drains, chats>> /\ ThreadOnly

(* The packet dropped may be sent between the trylock of that read and its  *)
(* lock: mutex_wait_read is left unlocked, the blocking read that follows   *)
(* finds nothing, and MANAGER_ERR_RETRY ends the thread.                    *)
RetryLost(c) ==
  /\ pc[c] = "retry" /\ ~direct[c] /\ Len(inbox[c]) = 1 /\ ~Has(c, {"close"})
  /\ Closes(c)
  /\ UNCHANGED <<drains, chats>> /\ ThreadOnly

(* After TLS_ERROR funStartPeerDirect leaves, and funStartPeer waits for    *)
(* another mode to try.                                                     *)
TryFailed(c) ==
  /\ pc[c] = "fail" /\ ~direct[c]
  /\ Goto(c, "try")
  /\ UNCHANGED <<moduleVars, direct, link, drains, chats>> /\ ThreadOnly

DirectFailed(c) ==
  /\ pc[c] = "fail" /\ direct[c]
  /\ Closes(c)
  /\ UNCHANGED <<drains, chats>> /\ ThreadOnly

\* mutant: the thread listens before PEER is open
OpensForgotten(c) ==
  /\ pc[c] = "linked"
  /\ Goto(c, "listen")
  /\ UNCHANGED <<moduleVars, direct, link, drains, chats>> /\ ThreadOnly

(* managerSetState(PEER, OPEN), and tlsStartListenning begins.              *)
Opens(c) ==
  /\ pc[c] = "linked"
  /\ state' = [state EXCEPT ![c] = "OPEN"]
  /\ Goto(c, "listen")
  /\ UNCHANGED <<inbox, direct, link, drains, chats>> /\ ThreadOnly

------------------------------------------------------------------------------
(* tlsStartListenning(PEER), and the end of both thread functions           *)

Listening(c) == pc[c] = "listen"

(* Next packet of PEER: P2P_CLOSE begins tlsCloseCom, ...                   *)
ListenClose(c) ==
  /\ Listening(c) /\ Has(c, {"close"})
  /\ chats' = [chats EXCEPT ![link[c]] = Shut(@, c)]
  /\ Pop(c)
  /\ Goto(c, "stop")
  /\ UNCHANGED <<state, direct, link, drains>> /\ ThreadOnly

(* ... and any other packet is sent to the other client, also the messages  *)
(* of the server that came too late.                                        *)
ListenForward(c) ==
  /\ Listening(c) /\ inbox[c] # <<>> /\ ~Has(c, {"close"})
  /\ chats' = [chats EXCEPT ![link[c]] = Sent(@, c, Last(inbox[c]))]
  /\ Pop(c)
  /\ UNCHANGED <<state, threadVars>> /\ ThreadOnly

\* tlsReceiveNonBlocking has read a packet, the end of the stream or an error
Hears(c, types) ==
  /\ Listening(c) /\ Readable(c, link[c])
  /\ Incoming(c, link[c]).type \in types

\* mutant: the message is read and not given to OUTPUT
ReadTextDropped(c) ==
  /\ Hears(c, {"text"})
  /\ chats' = Read(c, link[c])
  /\ UNCHANGED <<moduleVars, threadVars>> /\ ThreadOnly

ReadText(c) ==
  /\ Hears(c, {"text"})
  /\ shown' = shown \union {Incoming(c, link[c]).n}
  /\ chats' = Read(c, link[c])
  /\ UNCHANGED <<moduleVars, threadVars, userVars, serverVars>>

\* mutant: an unsupported packet ends the chat
ReadUnsupportedEnds(c) ==
  /\ Hears(c, {"get_infos", "try"})
  /\ chats' = [Read(c, link[c]) EXCEPT ![link[c]] = Shut(@, c)]
  /\ Goto(c, "stop")
  /\ UNCHANGED <<moduleVars, direct, link, drains>> /\ ThreadOnly

\* TLS_ERROR of tlsManagerPacketReceived does not end the loop
ReadUnsupported(c) ==
  /\ Hears(c, {"get_infos", "try"})
  /\ chats' = Read(c, link[c])
  /\ UNCHANGED <<moduleVars, threadVars>> /\ ThreadOnly

(* P2P_REJECT, or the end of the stream, returns TLS_CLOSE at once: the     *)
(* thread of /request and /accept shuts its end with PEER still OPEN ...    *)
Unread(c) == IF Hears(c, {"reject"}) THEN Read(c, link[c]) ELSE chats

ReadEnds(c) ==
  /\ Hears(c, {"reject", "fin"}) /\ ~direct[c]
  /\ chats' = [Unread(c) EXCEPT ![link[c]] = Shut(@, c)]
  /\ Goto(c, "stop")
  /\ UNCHANGED <<moduleVars, direct, link, drains>> /\ ThreadOnly

(* ... and that of /direct closes PEER first (exitThreadPeer).              *)
ReadEndsDirect(c) ==
  /\ Hears(c, {"reject", "fin"}) /\ direct[c]
  /\ chats' = Unread(c)
  /\ drains' = drains \union {<<c, link[c]>>}
  /\ Closes(c)
  /\ ThreadOnly

(* A read error: tlsCloseCom, then TLS_ERROR.                               *)
ReadFails(c) ==
  /\ Listening(c) /\ chats[link[c]].broken
  /\ chats' = [chats EXCEPT ![link[c]] = Shut(@, c)]
  /\ Goto(c, "stop")
  /\ UNCHANGED <<moduleVars, direct, link, drains>> /\ ThreadOnly

------------------------------------------------------------------------------
(* tlsCloseCom after SSL_shutdown: everything the other client sent is read *)
(* and dropped, up to the end of its stream, before the socket is closed.   *)

Dropping(c, k) == Readable(c, k) /\ Incoming(c, k) # Fin /\ chats' = Read(c, k)

\* mutant: the socket is closed without waiting for the other end
ReleasedAtOnce(c, k) == chats' = [chats EXCEPT ![k].gone = @ \union {c}]

Released(c, k) == Finished(c, k) /\ chats' = [chats EXCEPT ![k].gone = @ \union {c}]

StopReads(c) ==
  /\ pc[c] = "stop" /\ Dropping(c, link[c])
  /\ UNCHANGED <<moduleVars, threadVars>> /\ ThreadOnly

StopEnds(c) ==
  /\ pc[c] = "stop" /\ Released(c, link[c])
  /\ Closes(c)
  /\ UNCHANGED drains /\ ThreadOnly

\* deinitTLSInfos of exitThreadPeer
DrainShuts(c, k) ==
  /\ <<c, k>> \in drains /\ c \notin chats[k].shut
  /\ chats' = [chats EXCEPT ![k] = Shut(@, c)]
  /\ UNCHANGED <<moduleVars, threadVars>> /\ ThreadOnly

DrainReads(c, k) ==
  /\ <<c, k>> \in drains /\ c \in chats[k].shut /\ Dropping(c, k)
  /\ UNCHANGED <<moduleVars, threadVars>> /\ ThreadOnly

DrainEnds(c, k) ==
  /\ <<c, k>> \in drains /\ c \in chats[k].shut /\ Released(c, k)
  /\ drains' = drains \ {<<c, k>>}
  /\ UNCHANGED <<moduleVars, pc, direct, link>> /\ ThreadOnly

(* The network loses a connection, with what was on its way.                *)
LinkBreaks(k) ==
  /\ ~chats[k].broken /\ chats[k].gone # Clients
  /\ chats' = [chats EXCEPT ![k].broken = TRUE, ![k].why = @ \union {"broken"},
                            ![k].wire = [c \in Clients |-> <<>>]]
  /\ UNCHANGED <<moduleVars, threadVars>> /\ ThreadOnly

------------------------------------------------------------------------------

User(c) ==
  \/ \E m \in TlsModes : UserDirect(c, m)
  \/ UserRequest(c) \/ UserAccept(c) \/ UserUnserved(c) \/ UserClose(c) \/ UserTypes(c)

Connecting(c) ==
  \/ PeerInfos(c) \/ PeerRefused(c) \/ PeerTries(c) \/ PeerGivesUp(c) \/ PeerIgnores(c)
  \/ Meet(c) \/ HalfMeet(c) \/ OpenFails(c) \/ AcceptTimesOut(c)
  \/ RetryClose(c) \/ RetryAgain(c) \/ RetryLost(c) \/ TryFailed(c) \/ DirectFailed(c)

Chatting(c) ==
  \/ Opens(c) \/ ListenClose(c) \/ ListenForward(c)
  \/ ReadText(c) \/ ReadUnsupported(c) \/ ReadEnds(c) \/ ReadEndsDirect(c) \/ ReadFails(c)
  \/ StopReads(c) \/ StopEnds(c)

PeerThread(c) == Connecting(c) \/ Chatting(c)

Drains(c, k) == DrainShuts(c, k) \/ DrainReads(c, k) \/ DrainEnds(c, k)

Next ==
  \/ \E c \in Clients : User(c) \/ UserSends(c) \/ Deliver(c) \/ PeerThread(c)
  \/ \E c, d \in Clients : ServerRejects(c, d)
  \/ ServerTries
  \/ \E k \in DOMAIN chats : LinkBreaks(k) \/ \E c \in Clients : Drains(c, k)

Spec == Init /\ [][Next]_vars

(* The operating system runs the threads that hold a chat: nothing else is  *)
(* assumed, neither of the users nor of the server and the network.         *)
FairSpec ==
  /\ Spec
  /\ \A c \in Clients :
       WF_vars(PeerThread(c)) /\ WF_vars(\E k \in DOMAIN chats : Drains(c, k))

------------------------------------------------------------------------------
(* Properties *)

Types ==
  /\ state \in [Clients -> {"CLOSED", "IN_PROGRESS", "OPEN"}]
  /\ inbox \in [Clients -> Seq(Packet)]
  /\ pc \in [Clients -> PeerPc]
  /\ direct \in [Clients -> BOOLEAN]
  /\ link \in [Clients -> 0..Len(chats)]
  /\ drains \subseteq Clients \X (1..Len(chats))
  /\ chats \in Seq([wire : [Clients -> Seq(Packet \union {Fin})],
                    shut : SUBSET Clients, gone : SUBSET Clients, broken : BOOLEAN,
                    why : SUBSET {"close", "reject", "broken"}])
  /\ typing \in [Clients -> 0..Len(chats)]
  /\ chatOf \in Seq(1..Len(chats)) /\ shown \subseteq 1..Len(chatOf)
  /\ starts \in [Clients -> 0..MaxStarts] /\ closes \in 0..MaxCloses
  /\ fromServer \in [Clients -> Seq(P2P)]
  /\ asked \subseteq Clients /\ infos \subseteq Clients
  /\ shake \in {<<>>} \union {<<c>> : c \in Clients}

(* The type invariant: PEER is closed exactly while its client has no peer  *)
(* thread and open only with a connection in hand, and a thread listens or  *)
(* stops on a connection whose own end it has not closed.                   *)
TypeOK ==
  /\ Types
  /\ \A c \in Clients :
       /\ state[c] = "CLOSED" <=> pc[c] = "none"
       /\ state[c] = "OPEN" <=> pc[c] \in {"listen", "stop"}
       /\ link[c] # 0 <=> pc[c] \in {"linked", "listen", "stop"}
       /\ link[c] # 0 => c \notin chats[link[c]].gone

\* messages of a sequence of packets
Texts(q) == {m \in Range(q) : m.type = "text"}

(* A message travels and is queued only in the chat its user typed it for:  *)
(* chatSendMessage tests the state of PEER long before managerSend posts    *)
(* the packet, and a chat may end and another begin around it.              *)
ChatsSeparate ==
  /\ \A k \in DOMAIN chats, c \in Clients :
       \A m \in Texts(chats[k].wire[c]) : chatOf[m.n] = k
  /\ \A c \in Clients : \A m \in Texts(inbox[c]) : chatOf[m.n] = link[c]

(* No end of a connection is closed before the other has said it will send  *)
(* no more: tlsCloseCom reads to the end of the stream first.  A write to a *)
(* closed end would raise SIGPIPE, which the program does not handle.       *)
OrderlyRelease ==
  \A k \in DOMAIN chats :
    chats[k].gone # {} => chats[k].shut = Clients \/ chats[k].broken

(* A chat ends only by a /close of one of its users, by a P2P_REJECT of the *)
(* server that one of them received, or with the network: no other packet,  *)
(* late or unsupported, makes tlsStartListenning return.                    *)
ChatEndsForAReason ==
  \A k \in DOMAIN chats : chats[k].shut # {} => chats[k].why # {}

(* What a user closes is closed: once the P2P_CLOSE of p2pCloseCom waits in *)
(* PEER the module closes, wherever its thread is and whatever came before. *)
CloseEnds ==
  \A c \in Clients :
    (\E i \in DOMAIN inbox[c] : inbox[c][i].type = "close") ~> state[c] = "CLOSED"

(* When one end of a chat shuts, both clients close it in the end: neither  *)
(* waits in tlsCloseCom for a peer that waits too.                          *)
EndIsShared ==
  []<>(\A k \in DOMAIN chats : chats[k].shut # {} => chats[k].gone = Clients)

(* A message posted to a chat is shown to the other user, unless the chat   *)
(* begins to end or breaks.                                                 *)
TextsArrive ==
  []<>(\A n \in DOMAIN chatOf :
         n \in shown \/ chats[chatOf[n]].shut # {} \/ chats[chatOf[n]].broken)
==============================================================================

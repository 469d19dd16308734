--------------------------- MODULE RequestHandler ---------------------------
(***************************************************************************)
(* The rendezvous server, src/server/request-handler.c, and the clients    *)
(* that talk to it: the thread requestHandler that reads the connected     *)
(* clients in turn, one startConnection thread for each connection that    *)
(* has not logged in, and one createP2Pconnection thread (a handshake) for *)
(* each accepted request.  They share the ClientList user, the fields of   *)
(* its Clients and the TLS connections, without a lock on the last two.    *)
(*                                                                         *)
(* A session is one TLS connection of a client.  The client is reduced to  *)
(* what its user can type and to the peer thread (funStartPeer) that waits *)
(* for the server; messages of a connection stay in order.  A crash is one *)
(* outcome of a NULL or uninitialised pointer or index, of a use after     *)
(* free, of exitl, or of SIGPIPE when a client that has ended is written   *)
(* to.                                                                     *)
(***************************************************************************)
EXTENDS Integers, Sequences, SequencesExt

CONSTANTS
  Sessions,   \* TLS connections a client may open
  UserOf,     \* the user who logs in on a session
  Connected,  \* the ClientList when the model starts
  Habits,     \* what users may do, see below
  MaxCmds     \* bound on the commands the users type

Users == {UserOf[s] : s \in Sessions}

\* leave: the client ends.  list: /list while its peer thread waits for the
\* server.  cancel: /close meanwhile.  refuse: /reject.  unasked: /accept and
\* /reject of requests that were not made, /connect by one who is connected.
AllHabits == {"leave", "list", "cancel", "refuse", "unasked"}

ASSUME ServerAssumption ==
  /\ UserOf \in [Sessions -> Users]
  /\ Connected \in Seq(Sessions) /\ IsInjective(Connected)
  /\ Habits \subseteq AllHabits
  /\ MaxCmds \in Nat

VARIABLES
  clients,    \* ClientList user: the sessions in it
  conn,       \* what the server has done with a session
  etat,       \* Client.etat
  requestBy,  \* Client.request_by: users
  rh,         \* requestHandler: 0 in tlsWaitOnMultiple, else the index i
  hand,       \* the createP2Pconnection threads, in order of creation
  accepting,  \* accepteUser still accepts connections
  crashed,    \* the server process is dead
  toServer,   \* messages of each session not read yet
  toClient,
  left,       \* sessions whose client process has ended
  logged,     \* /connect: "no", "asked", "yes"
  peer,       \* the peer thread: "closed", "waiting", "ready", "try"
  invites,    \* users whose request the output has shown, not answered yet
  cmds,       \* number of commands typed
  strayed,    \* clients whose requests the server may have lost track of
  chatty      \* clients that sent a message a handshake does not expect

(* The last two record, for the properties, which clients have met a case   *)
(* the server does not handle:                                              *)
(* - strayed: the user has typed /close while the peer thread waits;        *)
(*   somebody has answered a request of the client that he was not shown;   *)
(*   the client was sent the P2P_REJECT of another; or it shares its user   *)
(*   name with another session;                                             *)
(* - chatty: the user has typed /list or /reject while the peer thread      *)
(*   waits, or /connect once connected.                                     *)
history == <<strayed, chatty>>

listVars == <<clients, etat, requestBy>>
serverVars == <<listVars, conn, rh, hand, accepting, crashed>>
clientVars == <<left, logged, peer, invites, cmds, history>>
vars == <<serverVars, toServer, toClient, clientVars>>

Etats == {"AVAILABLE", "IN_CONNECTION", "TRY_CONNECTION"}

(* Messages: only what the receiver looks at. *)
ToServer == [type : {"connect"}, good : BOOLEAN]
            \union [type : {"request", "accept", "reject"}, peer : Users]
            \union [type : {"infos", "list", "close"}]
ToClient == [type : {"ok", "ko", "reject", "available", "get_infos"}]
            \union [type : {"request_in"}, peer : Users]
            \union [type : {"try"}, good : BOOLEAN]

\* steps of a handshake, and what its receive1 and receive2 hold
HandPc == {"ask", "recv1", "recv2", "try", "end1", "end2", "done"}
Received == {"unset", "infos", "junk"}

\* the sessions of a user
Namesakes(u) == {t \in Sessions : UserOf[t] = u}

\* in Init the sessions of Connected are logged in, the others yet to come
Init ==
  /\ clients = Connected
  /\ conn = [s \in Sessions |-> IF s \in Range(Connected) THEN "open" ELSE "none"]
  /\ etat = [s \in Sessions |-> "AVAILABLE"]
  /\ requestBy = [s \in Sessions |-> {}]
  /\ rh = 0 /\ hand = <<>> /\ accepting = TRUE /\ crashed = FALSE
  /\ toServer = [s \in Sessions |-> <<>>]
  /\ toClient = [s \in Sessions |-> <<>>]
  /\ left = {}
  /\ logged = [s \in Sessions |-> IF s \in Range(Connected) THEN "yes" ELSE "no"]
  /\ peer = [s \in Sessions |-> "closed"]
  /\ invites = [s \in Sessions |-> {}] /\ cmds = 0
  /\ strayed = {s \in Sessions : \E t \in Namesakes(UserOf[s]) : t # s}
  /\ chatty = {}

\* what has no defined outcome if p
MayCrash(p) == crashed' \in BOOLEAN /\ (crashed' => p)

(* tlsSend to a client; what is sent to a client that has ended is lost, if *)
(* SIGPIPE does not end the server.                                         *)
Put(s, q, m) == IF s \in left THEN q ELSE Append(q, m)
Tell(s, m) == toClient' = [toClient EXCEPT ![s] = Put(s, @, m)]

Readable(s) == toServer[s] # <<>>

(* SSL_read: the end of the stream is read again and again. *)
Consume(s) ==
  toServer' = IF Head(toServer[s]).type = "close" THEN toServer
              ELSE [toServer EXCEPT ![s] = Tail(@)]

------------------------------------------------------------------------------
(* accepteUser and startConnection *)

Connect(s) ==
  /\ accepting
  /\ conn[s] = "none"
  /\ conn' = [conn EXCEPT ![s] = "tls"]
  /\ UNCHANGED <<listVars, rh, hand, accepting, crashed, toServer, toClient, clientVars>>

(* The TLS handshake with a client fails and tlsAcceptCom returns NULL: the *)
(* thread ends for good.                                                    *)
AcceptFails(s) ==
  /\ accepting
  /\ conn[s] = "none"
  /\ accepting' = FALSE
  /\ conn' = [conn EXCEPT ![s] = "gone"]
  /\ UNCHANGED <<listVars, rh, hand, crashed, toServer, toClient, clientVars>>

(* One turn of the loop.  The client is in the list before it is told so.   *)
StartLogin(s) ==
  /\ conn[s] = "tls" /\ Readable(s)
  /\ Head(toServer[s]).type = "connect" /\ Head(toServer[s]).good
  /\ Consume(s)
  /\ conn' = [conn EXCEPT ![s] = "listed"]
  /\ clients' = Append(clients, s)
  /\ UNCHANGED <<etat, requestBy, rh, hand, accepting, crashed, toClient, clientVars>>

\* mutant: a wrong password is not answered
StartRefuseSilent(s) ==
  /\ conn[s] = "tls" /\ Readable(s)
  /\ Head(toServer[s]).type = "connect" /\ ~Head(toServer[s]).good
  /\ Consume(s)
  /\ UNCHANGED <<serverVars, toClient, clientVars>>

StartRefuse(s) ==
  /\ conn[s] = "tls" /\ Readable(s)
  /\ Head(toServer[s]).type = "connect" /\ ~Head(toServer[s]).good
  /\ Consume(s)
  /\ Tell(s, [type |-> "ko"]) /\ MayCrash(s \in left)
  /\ UNCHANGED <<listVars, conn, rh, hand, accepting, clientVars>>

StartClosed(s) ==
  /\ conn[s] = "tls" /\ Readable(s)
  /\ Head(toServer[s]).type = "close"
  /\ conn' = [conn EXCEPT ![s] = "gone"]
  /\ UNCHANGED <<listVars, rh, hand, accepting, crashed, toServer, toClient, clientVars>>

(* CONNECTION_OK is sent, and the thread ends.  If requestHandler has       *)
(* removed the client meanwhile, tlsSend does nothing (see RhClosed).       *)
StartWelcome(s) ==
  /\ conn[s] = "listed"
  /\ Tell(s, [type |-> "ok"]) /\ MayCrash(s \in left)
  /\ conn' = [conn EXCEPT ![s] = "open"]
  /\ UNCHANGED <<listVars, rh, hand, accepting, toServer, clientVars>>

------------------------------------------------------------------------------
(* requestHandler *)

\* tlsWaitOnMultiple: poll counts the readable connections, and the test
\* res & POLLIN looks at the parity of that count
Ready == {i \in DOMAIN clients : Readable(clients[i])}

RhWait ==
  /\ rh = 0
  /\ Cardinality(Ready) % 2 = 1
  /\ rh' = 1
  /\ UNCHANGED <<listVars, conn, hand, accepting, crashed, toServer, toClient, clientVars>>

\* the client at index i of the scan, and the message read from it
Scanned == clients[rh]
Request == Head(toServer[Scanned])

Scans == rh \in DOMAIN clients

(* tlsReceiveNonBlocking succeeds with a message of this type. *)
Reads(type) ==
  /\ Scans
  /\ etat[Scanned] # "TRY_CONNECTION"
  /\ Readable(Scanned) /\ Request.type = type

RhNext == rh' = rh + 1 /\ UNCHANGED <<hand, accepting>>

(* TLS_RETRY: nothing to read, or a handshake reads this client. *)
RhSkip ==
  /\ Scans
  /\ etat[Scanned] = "TRY_CONNECTION" \/ ~Readable(Scanned)
  /\ RhNext
  /\ UNCHANGED <<listVars, conn, crashed, toServer, toClient, clientVars>>

RhScanned ==
  /\ rh > Len(clients)
  /\ rh' = 0
  /\ UNCHANGED <<listVars, conn, hand, accepting, crashed, toServer, toClient, clientVars>>

\* mutant: the client before is removed
RhClosedOther ==
  /\ Reads("close")
  /\ clients' = RemoveAt(clients, IF rh > 1 THEN rh - 1 ELSE rh)
  /\ conn' = [conn EXCEPT ![Scanned] = "gone"]
  /\ RhNext
  /\ UNCHANGED <<etat, requestBy, crashed, toServer, toClient, clientVars>>

(* TLS_CLOSE: clientListDelete.  The index moves on all the same, past the  *)
(* client that has taken the place of the one removed.  startConnection may *)
(* be writing CONNECTION_OK to the connection that is freed.                *)
RhClosed ==
  /\ Reads("close")
  /\ clients' = RemoveAt(clients, rh)
  /\ conn' = [conn EXCEPT ![Scanned] = "gone"]
  /\ MayCrash(conn[Scanned] = "listed")
  /\ RhNext
  /\ UNCHANGED <<etat, requestBy, toServer, toClient, clientVars>>

\* clientListGetId(user, getId(conn, u)): the first session of the user, if any
Named(u) == {i \in DOMAIN clients : UserOf[clients[i]] = u}
ClientsOf(u) == {clients[i] : i \in {j \in Named(u) : \A k \in Named(u) : j <= k}}

(* requestP2PtHandler *)
RhRequestRefused ==
  /\ Reads("request")
  /\ \A t \in ClientsOf(Request.peer) : etat[t] # "AVAILABLE"
  /\ Consume(Scanned)
  /\ Tell(Scanned, [type |-> "reject"]) /\ MayCrash(Scanned \in left)
  /\ RhNext
  /\ UNCHANGED <<listVars, conn, clientVars>>

\* mutant: a request for a client in a handshake is passed on
RhRequestAny ==
  /\ Reads("request")
  /\ \E t \in ClientsOf(Request.peer) :
       /\ requestBy' = [requestBy EXCEPT ![t] = @ \union {UserOf[Scanned]}]
       /\ Tell(t, [type |-> "request_in", peer |-> UserOf[Scanned]])
  /\ Consume(Scanned)
  /\ RhNext
  /\ UNCHANGED <<clients, etat, conn, crashed, clientVars>>

RhRequest ==
  /\ Reads("request")
  /\ \E t \in ClientsOf(Request.peer) :
       /\ etat[t] = "AVAILABLE"
       /\ requestBy' = [requestBy EXCEPT ![t] = @ \union {UserOf[Scanned]}]
       /\ Tell(t, [type |-> "request_in", peer |-> UserOf[Scanned]])
       /\ MayCrash(t \in left)
  /\ Consume(Scanned)
  /\ RhNext
  /\ UNCHANGED <<clients, etat, conn, clientVars>>

\* mutant: the requester goes on being read by requestHandler
RhAcceptHalf ==
  /\ Reads("accept")
  /\ Request.peer \in requestBy[Scanned]
  /\ \E c1 \in ClientsOf(Request.peer) :
       hand' = Append(hand, [c1 |-> c1, c2 |-> Scanned, at |-> "ask",
                             r1 |-> "unset", r2 |-> "unset"])
  /\ etat' = [etat EXCEPT ![Scanned] = "TRY_CONNECTION"]
  /\ Consume(Scanned)
  /\ rh' = rh + 1
  /\ UNCHANGED <<clients, requestBy, conn, accepting, crashed, toClient, clientVars>>

(* acceptHandler: a handshake begins between the requester and the client. *)
RhAccept ==
  /\ Reads("accept")
  /\ Request.peer \in requestBy[Scanned]
  /\ \E c1 \in ClientsOf(Request.peer) :
       /\ hand' = Append(hand, [c1 |-> c1, c2 |-> Scanned, at |-> "ask",
                                r1 |-> "unset", r2 |-> "unset"])
       /\ etat' = [etat EXCEPT ![Scanned] = "TRY_CONNECTION", ![c1] = "TRY_CONNECTION"]
  /\ Consume(Scanned)
  /\ rh' = rh + 1
  /\ UNCHANGED <<clients, requestBy, conn, accepting, crashed, toClient, clientVars>>

(* The requester has gone: acceptHandler uses the NULL it gets for him.     *)
RhAcceptGone ==
  /\ Reads("accept")
  /\ Request.peer \in requestBy[Scanned] /\ ClientsOf(Request.peer) = {}
  /\ crashed' = TRUE
  /\ UNCHANGED <<listVars, conn, rh, hand, accepting, toServer, toClient, clientVars>>

(* rejecttHandler uses an index it has not set: any client is told, or      *)
(* clientListGet leaves the program.                                        *)
RhReject ==
  /\ Reads("reject")
  /\ Request.peer \in requestBy[Scanned]
  /\ Consume(Scanned)
  /\ \E i \in DOMAIN clients :
       /\ Tell(clients[i], [type |-> "reject"]) /\ MayCrash(clients[i] \in left)
       /\ strayed' = strayed \union ({clients[i]} \ Namesakes(Request.peer))
  /\ RhNext
  /\ UNCHANGED <<listVars, conn, left, logged, peer, invites, cmds, chatty>>

RhRejectFails ==
  /\ Reads("reject")
  /\ Request.peer \in requestBy[Scanned]
  /\ crashed' = TRUE
  /\ UNCHANGED <<listVars, conn, rh, hand, accepting, toServer, toClient, clientVars>>

(* getAvailableHandler *)
RhAvailable ==
  /\ Reads("list")
  /\ Consume(Scanned)
  /\ Tell(Scanned, [type |-> "available"]) /\ MayCrash(Scanned \in left)
  /\ RhNext
  /\ UNCHANGED <<listVars, conn, clientVars>>

(* Any other message, and an answer to a request never made, is dropped.    *)
RhDrop ==
  /\ Reads("infos") \/ Reads("connect")
     \/ (\E t \in {"accept", "reject"} : Reads(t) /\ Request.peer \notin requestBy[Scanned])
  /\ Consume(Scanned)
  /\ RhNext
  /\ UNCHANGED <<listVars, conn, crashed, toClient, clientVars>>

------------------------------------------------------------------------------
(* createP2Pconnection, the thread of handshake h *)

HandAt(h, l) == hand[h].at = l
HandTo(h, l) == hand' = [hand EXCEPT ![h].at = l]

(* The first client is told m, then the second n. *)
TellBoth(h, m, n) ==
  LET told == [toClient EXCEPT ![hand[h].c1] = Put(hand[h].c1, @, m)]
  IN /\ toClient' = [told EXCEPT ![hand[h].c2] = Put(hand[h].c2, @, n)]
     /\ MayCrash({hand[h].c1, hand[h].c2} \cap left # {})

(* P2P_GET_INFOS is sent to both. *)
HandAsk(h) ==
  /\ HandAt(h, "ask")
  /\ TellBoth(h, [type |-> "get_infos"], [type |-> "get_infos"])
  /\ HandTo(h, "recv1")
  /\ UNCHANGED <<listVars, conn, rh, accepting, toServer, clientVars>>

\* what tlsReceiveBlocking leaves in receive1 or receive2
Answer(s) ==
  LET type == Head(toServer[s]).type
  IN IF type = "close" THEN "unset" ELSE IF type = "infos" THEN "infos" ELSE "junk"

\* mutant: the second message is read from the first client
HandReceive2Same(h) ==
  /\ HandAt(h, "recv2") /\ Readable(hand[h].c1)
  /\ hand' = [hand EXCEPT ![h].at = "try", ![h].r2 = Answer(hand[h].c1)]
  /\ Consume(hand[h].c1)
  /\ UNCHANGED <<listVars, conn, rh, accepting, crashed, toClient, clientVars>>

\* mutant: tlsReceiveNonBlocking instead of tlsReceiveBlocking
HandReceive1NonBlocking(h) ==
  /\ HandAt(h, "recv1")
  /\ hand' = [hand EXCEPT ![h].at = "recv2",
                          ![h].r1 = IF Readable(hand[h].c1) THEN Answer(hand[h].c1) ELSE "unset"]
  /\ IF Readable(hand[h].c1) THEN Consume(hand[h].c1) ELSE UNCHANGED toServer
  /\ UNCHANGED <<listVars, conn, rh, accepting, crashed, toClient, clientVars>>

(* The result and the type of what is received are not looked at.           *)
HandReceive1(h) ==
  /\ HandAt(h, "recv1") /\ Readable(hand[h].c1)
  /\ hand' = [hand EXCEPT ![h].at = "recv2", ![h].r1 = Answer(hand[h].c1)]
  /\ Consume(hand[h].c1)
  /\ UNCHANGED <<listVars, conn, rh, accepting, crashed, toClient, clientVars>>

HandReceive2(h) ==
  /\ HandAt(h, "recv2") /\ Readable(hand[h].c2)
  /\ hand' = [hand EXCEPT ![h].at = "try", ![h].r2 = Answer(hand[h].c2)]
  /\ Consume(hand[h].c2)
  /\ UNCHANGED <<listVars, conn, rh, accepting, crashed, toClient, clientVars>>

(* Each is told to try the address of the other: TRY_SERVER_MODE to c1,     *)
(* TRY_CLIENT_MODE to c2.  The address of a message that is not P2P_INFOS,  *)
(* or of no message, has no valid port.                                     *)
HandTry(h) ==
  /\ HandAt(h, "try")
  /\ LET try(r) == [type |-> "try", good |-> r = "infos"]
     IN TellBoth(h, try(hand[h].r2), try(hand[h].r1))
  /\ HandTo(h, "end1")
  /\ UNCHANGED <<listVars, conn, rh, accepting, toServer, clientVars>>

(* receive1 or receive2 was never set and is dereferenced.                  *)
HandTryFails(h) ==
  /\ HandAt(h, "try") /\ "unset" \in {hand[h].r1, hand[h].r2}
  /\ crashed' = TRUE
  /\ UNCHANGED <<listVars, conn, rh, hand, accepting, toServer, toClient, clientVars>>

HandEnd1(h) ==
  /\ HandAt(h, "end1")
  /\ etat' = [etat EXCEPT ![hand[h].c1] = "IN_CONNECTION"]
  /\ HandTo(h, "end2")
  /\ UNCHANGED <<clients, requestBy, conn, rh, accepting, crashed, toServer, toClient, clientVars>>

\* mutant: the second client stays marked as trying
HandEnd2Forgets(h) ==
  /\ HandAt(h, "end2")
  /\ HandTo(h, "done")
  /\ UNCHANGED <<listVars, conn, rh, accepting, crashed, toServer, toClient, clientVars>>

HandEnd2(h) ==
  /\ HandAt(h, "end2")
  /\ etat' = [etat EXCEPT ![hand[h].c2] = "IN_CONNECTION"]
  /\ HandTo(h, "done")
  /\ UNCHANGED <<clients, requestBy, conn, rh, accepting, crashed, toServer, toClient, clientVars>>

------------------------------------------------------------------------------
(* The user.  A chat is asked for only while the peer thread is closed.     *)

Present(s) == s \notin left /\ conn[s] \in {"tls", "listed", "open"}
Post(s, m) == toServer' = [toServer EXCEPT ![s] = Append(@, m)]

Command(s) == Present(s) /\ cmds < MaxCmds /\ cmds' = cmds + 1

\* a message sent while the peer thread waits for the server
Chats(s) == chatty' = chatty \union (IF peer[s] \in {"waiting", "ready"} THEN {s} ELSE {})

(* /connect, p2pConnectToServer: no other command until the answer.         *)
UserConnect(s, good) ==
  /\ Command(s)
  /\ logged[s] = "no" \/ (logged[s] = "yes" /\ "unasked" \in Habits)
  /\ Post(s, [type |-> "connect", good |-> good])
  /\ logged' = [logged EXCEPT ![s] = "asked"]
  /\ chatty' = chatty \union (IF logged[s] = "yes" THEN {s} ELSE {})
  /\ UNCHANGED <<serverVars, toClient, left, peer, invites, strayed>>

(* /request: the peer thread is created, then REQUEST_OUT is posted.        *)
UserRequest(s, u) ==
  /\ Command(s) /\ logged[s] = "yes" /\ peer[s] = "closed"
  /\ peer' = [peer EXCEPT ![s] = "waiting"]
  /\ Post(s, [type |-> "request", peer |-> u])
  /\ UNCHANGED <<serverVars, toClient, left, logged, invites, history>>

(* /accept and /reject.                                                     *)
Answers(s, u) ==
  /\ logged[s] = "yes"
  /\ u \in invites[s] \/ "unasked" \in Habits
  /\ strayed' = strayed \union (IF u \in invites[s] THEN {} ELSE Namesakes(u))

UserAccept(s, u) ==
  /\ Command(s) /\ Answers(s, u) /\ peer[s] = "closed"
  /\ invites' = [invites EXCEPT ![s] = @ \ {u}]
  /\ peer' = [peer EXCEPT ![s] = "waiting"]
  /\ Post(s, [type |-> "accept", peer |-> u])
  /\ UNCHANGED <<serverVars, toClient, left, logged, chatty>>

UserReject(s, u) ==
  /\ "refuse" \in Habits
  /\ Command(s) /\ Answers(s, u) /\ Chats(s)
  /\ invites' = [invites EXCEPT ![s] = @ \ {u}]
  /\ Post(s, [type |-> "reject", peer |-> u])
  /\ UNCHANGED <<serverVars, toClient, left, logged, peer>>

(* /list *)
UserList(s) ==
  /\ Command(s) /\ logged[s] = "yes"
  /\ peer[s] \in {"waiting", "ready"} => "list" \in Habits
  /\ Chats(s)
  /\ Post(s, [type |-> "list"])
  /\ UNCHANGED <<serverVars, toClient, left, logged, peer, invites, strayed>>

(* /close while the peer thread waits: the server is not told.              *)
UserCancel(s) ==
  /\ "cancel" \in Habits
  /\ Command(s) /\ peer[s] \in {"waiting", "ready"}
  /\ peer' = [peer EXCEPT ![s] = "closed"]
  /\ strayed' = strayed \union {s}
  /\ UNCHANGED <<serverVars, toServer, toClient, left, logged, invites, chatty>>

\* the client process ends and its connection with it
Leaves(s) ==
  /\ left' = left \union {s}
  /\ Post(s, [type |-> "close"])
  /\ peer' = [peer EXCEPT ![s] = "closed"]

UserLeave(s) ==
  /\ "leave" \in Habits /\ Command(s)
  /\ Leaves(s)
  /\ UNCHANGED <<serverVars, toClient, logged, invites, history>>

------------------------------------------------------------------------------
(* The client's threads: a message of the server, and the peer thread. *)

Arrives(s, type) ==
  /\ Present(s)
  /\ toClient[s] # <<>> /\ Head(toClient[s]).type = type

Take(s) == toClient' = [toClient EXCEPT ![s] = Tail(@)]
PeerTo(s, l) == peer' = [peer EXCEPT ![s] = l]

ClientAnswered(s) ==
  /\ \/ Arrives(s, "ok") /\ logged' = [logged EXCEPT ![s] = "yes"]
     \/ Arrives(s, "ko") /\ logged' = [logged EXCEPT ![s] = "no"]
  /\ Take(s)
  /\ UNCHANGED <<serverVars, toServer, left, peer, invites, cmds, history>>

ClientInvited(s) ==
  /\ Arrives(s, "request_in")
  /\ invites' = [invites EXCEPT ![s] = @ \union {Head(toClient[s]).peer}]
  /\ Take(s)
  /\ UNCHANGED <<serverVars, toServer, left, logged, peer, cmds, history>>

(* P2P_REJECT goes to the peer module: the peer thread, or the chat it is   *)
(* in, ends.                                                                *)
ClientRejected(s) ==
  /\ Arrives(s, "reject")
  /\ PeerTo(s, "closed")
  /\ Take(s)
  /\ UNCHANGED <<serverVars, toServer, left, logged, invites, cmds, history>>

ClientInfos(s) ==
  /\ Arrives(s, "get_infos") /\ peer[s] = "waiting"
  /\ PeerTo(s, "ready")
  /\ Post(s, [type |-> "infos"])
  /\ Take(s)
  /\ UNCHANGED <<serverVars, left, logged, invites, cmds, history>>

(* A peer thread that waits for GET_INFOS gives up on a TRY; one that is    *)
(* ready for it tries; initTLSInfos asserts that the port is valid.         *)
ClientTry(s) ==
  /\ Arrives(s, "try") /\ peer[s] \in {"waiting", "ready"}
  /\ peer[s] = "ready" => Head(toClient[s]).good
  /\ PeerTo(s, IF peer[s] = "ready" THEN "try" ELSE "closed")
  /\ Take(s)
  /\ UNCHANGED <<serverVars, toServer, left, logged, invites, cmds, history>>

ClientAborts(s) ==
  /\ Arrives(s, "try") /\ peer[s] = "ready" /\ ~Head(toClient[s]).good
  /\ Leaves(s)
  /\ UNCHANGED <<serverVars, toClient, logged, invites, cmds, history>>

(* What only the output shows, and what no peer thread waits for.           *)
ClientDrops(s) ==
  /\ \/ Arrives(s, "available")
     \/ Arrives(s, "get_infos") /\ peer[s] # "waiting"
     \/ Arrives(s, "try") /\ peer[s] \in {"closed", "try"}
  /\ Take(s)
  /\ UNCHANGED <<serverVars, toServer, clientVars>>

(* The connection to the other client fails, or the chat is over.           *)
ChatEnds(s) ==
  /\ peer[s] = "try"
  /\ PeerTo(s, "ready") \/ PeerTo(s, "closed")
  /\ UNCHANGED <<serverVars, toServer, toClient, left, logged, invites, cmds, history>>

------------------------------------------------------------------------------
Start(s) == StartLogin(s) \/ StartRefuse(s) \/ StartClosed(s) \/ StartWelcome(s)

Rh == \/ RhWait \/ RhSkip \/ RhScanned \/ RhClosed
      \/ RhRequestRefused \/ RhRequest
      \/ RhAccept \/ RhAcceptGone \/ RhReject \/ RhRejectFails
      \/ RhAvailable \/ RhDrop

Hand(h) == \/ HandAsk(h) \/ HandReceive1(h) \/ HandReceive2(h)
           \/ HandTry(h) \/ HandTryFails(h) \/ HandEnd1(h) \/ HandEnd2(h)

User(s) == \/ \E good \in BOOLEAN : UserConnect(s, good)
           \/ \E u \in Users : UserRequest(s, u) \/ UserAccept(s, u) \/ UserReject(s, u)
           \/ UserList(s) \/ UserCancel(s) \/ UserLeave(s)

Client(s) == \/ ClientAnswered(s) \/ ClientInvited(s) \/ ClientRejected(s)
             \/ ClientInfos(s) \/ ClientTry(s) \/ ClientAborts(s) \/ ClientDrops(s)

Next ==
  /\ ~crashed
  /\ \/ \E s \in Sessions : Connect(s) \/ AcceptFails(s) \/ Start(s) 
                              \/ User(s) \/ Client(s) \/ ChatEnds(s)
     \/ Rh
     \/ \E h \in DOMAIN hand : Hand(h)

Spec == Init /\ [][Next]_vars

(* The threads of the server and of the clients run; users owe nothing.  A  *)
(* message sent arrives.                                                    *)
FairSpec ==
  /\ Spec
  /\ WF_vars(~crashed /\ Rh)
  /\ \A s \in Sessions : WF_vars(~crashed /\ Start(s)) /\ WF_vars(~crashed /\ Client(s))
  /\ \A h \in 1..MaxCmds : WF_vars(~crashed /\ h \in DOMAIN hand /\ Hand(h))

------------------------------------------------------------------------------
(* Every variable has its type, and the list holds each session that has    *)
(* logged in and has not been deleted, once.                                *)
TypeOK ==
  /\ clients \in Seq(Sessions) /\ IsInjective(clients)
  /\ Range(clients) = {s \in Sessions : conn[s] \in {"listed", "open"}}
  /\ conn \in [Sessions -> {"none", "tls", "listed", "open", "gone"}]
  /\ etat \in [Sessions -> Etats]
  /\ requestBy \in [Sessions -> SUBSET Users]
  /\ rh \in Nat /\ accepting \in BOOLEAN /\ crashed \in BOOLEAN
  /\ hand \in Seq([c1 : Sessions, c2 : Sessions, at : HandPc, r1 : Received, r2 : Received])
  /\ toServer \in [Sessions -> Seq(ToServer)] /\ toClient \in [Sessions -> Seq(ToClient)]
  /\ left \subseteq Sessions /\ logged \in [Sessions -> {"no", "asked", "yes"}]
  /\ peer \in [Sessions -> {"closed", "waiting", "ready", "try"}]
  /\ invites \in [Sessions -> SUBSET Users] /\ cmds \in 0..MaxCmds
  /\ strayed \subseteq Sessions /\ chatty \subseteq Sessions

\* the clients a handshake has not given back to requestHandler
Served(h) ==
  CASE hand[h].at = "done" -> {}
    [] hand[h].at = "end2" -> {hand[h].c2}
    [] OTHER -> {hand[h].c1, hand[h].c2}

(* requestHandler leaves a client marked TRY_CONNECTION alone (it reads     *)
(* neither its messages nor its disconnection): then some handshake is at   *)
(* work for it.  Whatever the users do.                                     *)
TryingIsServed ==
  \A s \in Sessions : etat[s] = "TRY_CONNECTION" => \E h \in DOMAIN hand : s \in Served(h)

(* clientlist.h: TRY_CONNECTION, "client trying to establish a p2p          *)
(* connection".  A client whose requests are in order is so marked for as   *)
(* long as a handshake uses it, whatever other users do: then               *)
(* requestHandler neither steals a message of the handshake nor frees the   *)
(* Client under it.                                                         *)
ServedIsTrying ==
  \A h \in DOMAIN hand : \A s \in Served(h) \ strayed :
    etat[s] = "TRY_CONNECTION" /\ s \in Range(clients)

(* p2p-msg.h: a handshake exchanges the P2P_INFOS of its two clients, "used *)
(* to send p2p info to server".  The message it has taken for that of a     *)
(* client is that, unless r is what a client of S has sent or left unsent.  *)
HeardFrom(s, r, S) == r = "infos" \/ s \in S
Exchanged(S) ==
  \A h \in DOMAIN hand : hand[h].at = "try" =>
    HeardFrom(hand[h].c1, hand[h].r1, S) /\ HeardFrom(hand[h].c2, hand[h].r2, S)

(* What a handshake passes on of a client is what the client said of        *)
(* itself, whatever other users do, if the client has not left, its         *)
(* requests are in order and it has sent nothing else meanwhile.            *)
InfosExchanged == Exchanged(left \union strayed \union chatty)

(* What a handshake passes on is what the other client said of itself,      *)
(* whatever the users type, unless a client left.                           *)
InfosReceived == Exchanged(left)

(* s has asked for t, and the server has not read an answer: the request is *)
(* on its way to t, shown to its user, or answered.                         *)
Asked(s, t) ==
  LET u == UserOf[s]
  IN \/ u \in invites[t]
     \/ \E i \in DOMAIN toClient[t] : toClient[t][i] = [type |-> "request_in", peer |-> u]
     \/ \E i \in DOMAIN toServer[t], answer \in {"accept", "reject"} :
          toServer[t][i] = [type |-> answer, peer |-> u]

Rendezvous == INSTANCE Rendezvous WITH
  connected <- Range(clients),
  asks <- [s \in Sessions |-> {t \in Sessions : s \notin strayed /\ Asked(s, t)}],
  busy <- {s \in Sessions : etat[s] = "TRY_CONNECTION"}

(* The server with its messages, its scan and its handshake threads is the  *)
(* atomic Rendezvous, whatever the users do: a client whose requests are in *)
(* order is introduced only to the one it asked for, who has agreed, and    *)
(* when neither is busy.                                                    *)
ImplementsRendezvous == Rendezvous!Spec

(* A handshake comes to its end, whoever leaves; the two clients are given  *)
(* back.                                                                    *)
HandshakeEnds == []<>(crashed \/ \A h \in DOMAIN hand : hand[h].at = "done")

(* p2pConnectToServer keeps the input thread waiting for CONNECTION_OK or   *)
(* KO: the /connect of a client that has not logged in is answered, however *)
(* its connection is shared with requestHandler once the client is listed.  *)
LoginAnswered ==
  \A s \in Sessions :
    (logged[s] = "asked" /\ conn[s] = "tls") ~> (crashed \/ s \in left \/ logged[s] # "asked")

(* tls-com.h, tlsWaitOnMultiple: "@return TLS_SUCCESS if any packet         *)
(* received".  What a connected client has sent is read, unless a handshake *)
(* has the client.                                                          *)
Unread(s) == s \in Range(clients) /\ Readable(s) /\ etat[s] # "TRY_CONNECTION"
RequestsServed == \A s \in Sessions : Unread(s) ~> (crashed \/ ~Unread(s))
==============================================================================

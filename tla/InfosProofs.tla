----------------------------- MODULE InfosProofs -----------------------------
(***************************************************************************)
(* A handshake of the rendezvous server passes on what its clients say of  *)
(* themselves, for any sessions, users, habits and number of commands.     *)
(* This is about each client that is there, has not strayed and has sent   *)
(* nothing but its answer meanwhile; the others may do as they please.     *)
(***************************************************************************)
EXTENDS HandshakeProofs

USE DEF listVars, serverVars, history, clientVars, vars

\* the clients the theorem is about
Kept == Sessions \ (left \union strayed \union chatty)

------------------------------------------------------------------------------
(* Messages to the server have been read, and none was added.               *)
Shrinks(s) == \/ toServer'[s] = toServer[s]
              \/ toServer[s] # <<>> /\ toServer'[s] = Tail(toServer[s])

\* no message of M is sent to a client
Silent(M) == \A s \in Sessions : Fewer(toClient'[s], toClient[s], M)

Without(M, types) == \A m \in M : m.type \notin types

LEMMA ShrinksFewer ==
  ASSUME ToServerOK, NEW s \in Sessions, Shrinks(s), NEW M
  PROVE  Fewer(toServer'[s], toServer[s], M)
<1>1. toServer[s] \in Seq(ToServer)
  BY DEF ToServerOK
<1> QED BY <1>1, TailHas DEF Shrinks, Fewer

LEMMA ConsumeShrinks ==
  ASSUME ToServerOK, NEW s \in Sessions, Readable(s), Consume(s), NEW t \in Sessions
  PROVE  Shrinks(t)
BY DEF ToServerOK, Consume, Readable, Shrinks

LEMMA TellSilent ==
  ASSUME ToClientOK, NEW s \in Sessions, NEW m \in ToClient, Tell(s, m), NEW M, m \notin M
  PROVE  Silent(M)
BY Told DEF Silent

LEMMA TakeSilent ==
  ASSUME ToClientOK, NEW s \in Sessions, toClient[s] # <<>>, Take(s), NEW M
  PROVE  Silent(M)
BY Taken DEF Silent

LEMMA SameMail ==
  /\ \A s : UNCHANGED toServer => Shrinks(s)
  /\ \A M : UNCHANGED toClient => Silent(M)
BY DEF Shrinks, Silent, Fewer

(* What each component does to the queues, and what it leaves alone.        *)
LEMMA StartMail ==
  ASSUME TypeOK, NEW s \in Sessions, Connect(s) \/ AcceptFails(s) \/ Start(s)
  PROVE  /\ \A t \in Sessions : Shrinks(t)
         /\ \A M : Without(M, {"ok", "ko"}) => Silent(M)
         /\ \A t \in Sessions \ {s} : /\ toClient'[t] = toClient[t]
                                      /\ conn'[t] = conn[t]
         /\ UNCHANGED <<left, logged, peer, hand>>
<1>1. ToServerOK /\ ToClientOK /\ ListOK
  BY TypeParts
<1>2. \A t \in Sessions : Shrinks(t)
  BY <1>1, ConsumeShrinks, SameMail
     DEF Connect, AcceptFails, Start, StartLogin, StartRefuse, StartClosed, StartWelcome
<1>3. ASSUME NEW M, Without(M, {"ok", "ko"}) PROVE Silent(M)
  <2>1. CASE StartRefuse(s) \/ StartWelcome(s)
    <3>1. PICK m \in ToClient : Tell(s, m) /\ m.type \in {"ok", "ko"}
      BY <2>1, ToClientTypes DEF StartRefuse, StartWelcome
    <3> QED BY <1>1, <1>3, <3>1, TellSilent DEF Without
  <2>2. CASE ~StartRefuse(s) /\ ~StartWelcome(s)
    BY <2>2, SameMail DEF Connect, AcceptFails, Start, StartClosed, StartLogin
  <2> QED BY <2>1, <2>2
<1>4. \A t \in Sessions \ {s} : toClient'[t] = toClient[t] /\ conn'[t] = conn[t]
  BY <1>1 DEF Connect, AcceptFails, Start, StartLogin, StartRefuse, StartClosed, StartWelcome,
              Tell, ToClientOK, ListOK
<1>5. UNCHANGED <<left, logged, peer, hand>>
  BY DEF Connect, AcceptFails, Start, StartLogin, StartRefuse, StartClosed, StartWelcome
<1> QED BY <1>2, <1>3, <1>4, <1>5

LEMMA UserMail ==
  ASSUME TypeOK, NEW s \in Sessions, User(s) \/ ChatEnds(s)
  PROVE  /\ \A M : Silent(M)
         /\ \A t \in Sessions \ {s} : /\ toServer'[t] = toServer[t]
                                      /\ peer'[t] = peer[t] /\ logged'[t] = logged[t]
         /\ left \subseteq left' /\ UNCHANGED <<conn, hand>>
<1>1. ToServerOK /\ ClientOK
  BY TypeParts
<1>2. UNCHANGED <<toClient, conn, hand>>
  BY DEF User, UserConnect, UserRequest, UserAccept, UserReject, UserList, UserCancel,
         UserLeave, ChatEnds
<1>3. left \subseteq left'
  BY DEF User, UserConnect, UserRequest, UserAccept, UserReject, UserList, UserCancel,
         UserLeave, Leaves, ChatEnds
<1>4. \A t \in Sessions \ {s} : toServer'[t] = toServer[t]
  BY <1>1 DEF User, UserConnect, UserRequest, UserAccept, UserReject, UserList, UserCancel,
              UserLeave, Leaves, ChatEnds, Post, ToServerOK
<1>5. \A t \in Sessions \ {s} : peer'[t] = peer[t] /\ logged'[t] = logged[t]
  BY <1>1 DEF User, UserConnect, UserRequest, UserAccept, UserReject, UserList, UserCancel,
              UserLeave, Leaves, ChatEnds, PeerTo, ClientOK
<1> QED BY <1>2, <1>3, <1>4, <1>5, SameMail

LEMMA ClientMail ==
  ASSUME TypeOK, NEW s \in Sessions, Client(s)
  PROVE  /\ \A M : Silent(M)
         /\ \A t \in Sessions \ {s} : /\ toServer'[t] = toServer[t]
                                      /\ peer'[t] = peer[t] /\ logged'[t] = logged[t]
         /\ s \notin left /\ left \subseteq left' /\ UNCHANGED <<conn, hand>>
<1>1. ToServerOK /\ ToClientOK /\ ClientOK
  BY TypeParts
<1>2. s \notin left /\ left \subseteq left' /\ UNCHANGED <<conn, hand>>
  BY DEF Client, ClientAnswered, ClientInvited, ClientRejected, ClientInfos, ClientTry,
         ClientAborts, ClientDrops, Leaves, Arrives, Present
<1>3. \A M : Silent(M)
  <2>1. CASE ClientAborts(s)
    BY <2>1, SameMail DEF ClientAborts
  <2>2. CASE ~ClientAborts(s)
    <3>1. toClient[s] # <<>> /\ Take(s)
      BY <2>2 DEF Client, ClientAnswered, ClientInvited, ClientRejected, ClientInfos,
                  ClientTry, ClientDrops, Arrives
    <3> QED BY <1>1, <3>1, TakeSilent
  <2> QED BY <2>1, <2>2
<1>4. \A t \in Sessions \ {s} : toServer'[t] = toServer[t]
  BY <1>1 DEF Client, ClientAnswered, ClientInvited, ClientRejected, ClientInfos, ClientTry,
              ClientAborts, ClientDrops, Leaves, Post, ToServerOK
<1>5. \A t \in Sessions \ {s} : peer'[t] = peer[t] /\ logged'[t] = logged[t]
  BY <1>1 DEF Client, ClientAnswered, ClientInvited, ClientRejected, ClientInfos, ClientTry,
              ClientAborts, ClientDrops, Leaves, PeerTo, ClientOK
<1> QED BY <1>2, <1>3, <1>4, <1>5

LEMMA RhMail ==
  ASSUME TypeOK, Rh
  PROVE  /\ \A t \in Sessions : Shrinks(t)
         /\ \A M : Without(M, {"reject", "request_in", "available"}) => Silent(M)
         /\ \A t \in Sessions : conn'[t] = "listed" => conn[t] = "listed"
         /\ UNCHANGED <<left, logged, peer>>
<1>1. Shape /\ ToServerOK /\ ToClientOK /\ ListOK
  BY TypeParts
<1>2. UNCHANGED <<left, logged, peer>>
  BY DEF Rh, RhWait, RhSkip, RhScanned, RhClosed, RhRequestRefused, RhRequest, RhAccept,
         RhAcceptGone, RhReject, RhRejectFails, RhAvailable, RhDrop
<1>3. \A t \in Sessions : Shrinks(t)
  <2>1. CASE RhRequestRefused \/ RhRequest \/ RhAccept \/ RhReject \/ RhAvailable \/ RhDrop
    <3>1. Consume(Scanned) /\ \E type : Reads(type)
      BY <2>1 DEF RhRequestRefused, RhRequest, RhAccept, RhReject, RhAvailable, RhDrop
    <3>2. PICK x \in Sessions : Readable(x) /\ Consume(x)
      BY <3>1, ReadFacts DEF Read
    <3> QED BY <1>1, <3>2, ConsumeShrinks
  <2>2. CASE RhWait \/ RhSkip \/ RhScanned \/ RhClosed \/ RhAcceptGone \/ RhRejectFails
    BY <2>2, SameMail DEF RhWait, RhSkip, RhScanned, RhClosed, RhAcceptGone, RhRejectFails
  <2> QED BY <2>1, <2>2 DEF Rh
<1>4. ASSUME NEW M, Without(M, {"reject", "request_in", "available"}) PROVE Silent(M)
  <2>1. CASE RhRequestRefused \/ RhAvailable
    <3>1. PICK s \in Sessions : s = Scanned
      BY <2>1, ReadFacts DEF RhRequestRefused, RhAvailable
    <3>2. PICK m \in ToClient : Tell(s, m) /\ m.type \in {"reject", "available"}
      BY <2>1, <3>1, ToClientTypes DEF RhRequestRefused, RhAvailable
    <3> QED BY <1>1, <1>4, <3>2, TellSilent DEF Without
  <2>2. CASE RhRequest
    <3>1. PICK x \in Sessions, v \in Sessions : Passes(x, v)
      BY <2>2, RequestPasses
    <3> QED BY <1>1, <1>4, <3>1, TellSilent DEF Passes, Without
  <2>3. CASE RhReject
    <3>1. PICK s \in Sessions : Tell(s, [type |-> "reject"])
      BY <1>1, <2>3, ElementOfSeq DEF RhReject, Shape
    <3>2. PICK m \in ToClient : Tell(s, m) /\ m.type = "reject"
      BY <3>1, ToClientTypes
    <3> QED BY <1>1, <1>4, <3>2, TellSilent DEF Without
  <2>4. CASE \/ RhWait \/ RhSkip \/ RhScanned \/ RhClosed \/ RhAccept \/ RhAcceptGone
             \/ RhRejectFails \/ RhDrop
    BY <2>4, SameMail DEF RhWait, RhSkip, RhScanned, RhClosed, RhAccept, RhAcceptGone,
                          RhRejectFails, RhDrop
  <2> QED BY <2>1, <2>2, <2>3, <2>4 DEF Rh
<1>5. \A t \in Sessions : conn'[t] = "listed" => conn[t] = "listed"
  BY <1>1 DEF Rh, RhWait, RhSkip, RhScanned, RhClosed, RhRequestRefused, RhRequest, RhAccept,
              RhAcceptGone, RhReject, RhRejectFails, RhAvailable, RhDrop, ListOK
<1> QED BY <1>2, <1>3, <1>4, <1>5

LEMMA HandMail ==
  ASSUME TypeOK, NEW h \in DOMAIN hand, Hand(h)
  PROVE  /\ \A t \in Sessions : Shrinks(t)
         /\ \A M : \/ Without(M, {"get_infos", "try"})
                   \/ Without(M, {"try"}) /\ ~HandAsk(h)
              => Silent(M)
         /\ UNCHANGED <<left, logged, peer, conn>>
<1>1. Shape /\ ToServerOK /\ ToClientOK
  BY TypeParts
<1>2. hand[h].c1 \in Sessions /\ hand[h].c2 \in Sessions 
  BY <1>1, HandSessions
<1>3. UNCHANGED <<left, logged, peer, conn>>
  BY DEF Hand, HandAsk, HandReceive1, HandReceive2, HandTry, HandTryFails, HandEnd1, HandEnd2
<1>4. \A t \in Sessions : Shrinks(t)
  BY <1>1, <1>2, ConsumeShrinks, SameMail
     DEF Hand, HandAsk, HandReceive1, HandReceive2, HandTry, HandTryFails, HandEnd1, HandEnd2
<1>5. ASSUME NEW M, \/ Without(M, {"get_infos", "try"})
                    \/ Without(M, {"try"}) /\ ~HandAsk(h)
      PROVE  Silent(M)
  <2>1. CASE HandAsk(h) \/ HandTry(h)
    <3>1. PICK m \in ToClient, n \in ToClient :
            /\ TellBoth(h, m, n)
            /\ m.type = n.type /\ m.type = IF HandAsk(h) THEN "get_infos" ELSE "try"
      <4>1. CASE HandAsk(h)
        BY <4>1, ToClientTypes DEF HandAsk
      <4>2. CASE ~HandAsk(h)
        <5> DEFINE try(r) == [type |-> "try", good |-> r = "infos"]
        <5>1. TellBoth(h, try(hand[h].r2), try(hand[h].r1))
          BY <2>1, <4>2 DEF HandTry
        <5>2. \A r : try(r) \in ToClient /\ try(r).type = "try"
          BY ToClientTypes
        <5> HIDE DEF try
        <5> QED BY <4>2, <5>1, <5>2
      <4> QED BY <4>1, <4>2
    <3>2. m \notin M /\ n \notin M
      BY <1>5, <3>1 DEF Without
    <3> QED BY <1>1, <3>1, <3>2, BothTold DEF Silent
  <2>2. CASE ~HandAsk(h) /\ ~HandTry(h)
    BY <2>2, SameMail DEF Hand, HandReceive1, HandReceive2, HandTryFails, HandEnd1, HandEnd2
  <2> QED BY <2>1, <2>2
<1> QED BY <1>3, <1>4, <1>5

------------------------------------------------------------------------------
(* A client logs in once, and begins nothing before it has logged in.       *)
Connects == {m \in ToServer : m.type = "connect"}
Replies == {m \in ToClient : m.type \in {"ok", "ko"}}

Login(s) ==
  /\ Once(toServer[s], Connects) /\ Once(toClient[s], Replies)
  /\ Has(toServer[s], Connects) => ~Has(toClient[s], Replies) /\ conn[s] # "listed"
  /\ Has(toClient[s], Replies) => conn[s] # "listed"
  /\ \/ Has(toServer[s], Connects) \/ Has(toClient[s], Replies) \/ conn[s] = "listed"
     => logged[s] = "asked"
  /\ peer[s] # "closed" => logged[s] = "yes"

LEMMA LoginSame ==
  ASSUME NEW s, Login(s),
         Fewer(toServer'[s], toServer[s], Connects), Fewer(toClient'[s], toClient[s], Replies),
         conn'[s] = "listed" => conn[s] = "listed",
         logged'[s] = logged[s],
         peer'[s] # "closed" => peer[s] # "closed" \/ logged[s] = "yes"
  PROVE  Login(s)'
BY DEF Login, Fewer

LEMMA LoginStart ==
  ASSUME TypeOK, NEW c \in Sessions, Login(c), NEW s \in Sessions,
         Connect(s) \/ AcceptFails(s) \/ Start(s)
  PROVE  Login(c)'
<1>1. ToServerOK /\ ToClientOK /\ ListOK
  BY TypeParts
<1>2. Fewer(toServer'[c], toServer[c], Connects) /\ UNCHANGED <<logged, peer>>
  BY <1>1, StartMail, ShrinksFewer
<1>3. CASE c # s
  BY <1>2, <1>3, StartMail, LoginSame DEF Fewer
<1>4. CASE c = s
  <2>1. CASE StartLogin(c) \/ StartRefuse(c)
    <3>1. PICK m \in ToServer : /\ Readable(c) /\ Consume(c) /\ m = Head(toServer[c])
                                /\ m.type = "connect"
      BY <1>1, <2>1, Consumed DEF StartLogin, StartRefuse
    <3>2. m \in Connects /\ toServer[c] \in Seq(ToServer) /\ toServer[c] # <<>>
      BY <1>1, <3>1 DEF Connects, Readable, ToServerOK
    <3>3. Has(toServer[c], Connects) /\ ~Has(toServer'[c], Connects)
      BY <1>1, <3>1, <3>2, TailHas, Consumed DEF Login
    <3>4. conn[c] # "listed" /\ ~Has(toClient[c], Replies) /\ logged[c] = "asked"
      BY <3>3 DEF Login
    <3>5. CASE StartLogin(c)
      <4>1. toClient' = toClient
        BY <3>5 DEF StartLogin
      <4> QED BY <1>2, <3>3, <3>4, <4>1 DEF Login, Fewer
    <3>6. CASE StartRefuse(c)
      <4>1. PICK n \in ToClient : Tell(c, n)
        BY <3>6, ToClientTypes DEF StartRefuse
      <4>2. Once(toClient'[c], Replies)
        BY <1>1, <3>4, <4>1, Told DEF Login
      <4>3. conn' = conn
        BY <3>6 DEF StartRefuse
      <4> QED BY <1>2, <3>3, <3>4, <4>2, <4>3 DEF Login, Fewer
    <3> QED BY <2>1, <3>5, <3>6
  <2>2. CASE StartWelcome(c)
    <3>1. PICK n \in ToClient : Tell(c, n)
      BY <2>2, ToClientTypes DEF StartWelcome
    <3>2. conn[c] = "listed" /\ conn'[c] = "open" /\ toServer' = toServer
      BY <1>1, <2>2 DEF StartWelcome, ListOK
    <3>3. Once(toClient'[c], Replies)
      BY <1>1, <3>1, <3>2, Told DEF Login
    <3> QED BY <1>2, <3>2, <3>3 DEF Login, Fewer
  <2>3. CASE Connect(c) \/ AcceptFails(c) \/ StartClosed(c)
    <3>1. toClient' = toClient /\ conn'[c] # "listed"
      BY <1>1, <2>3 DEF Connect, AcceptFails, StartClosed, ListOK
    <3> QED BY <1>2, <3>1, LoginSame DEF Fewer
  <2> QED BY <1>4, <2>1, <2>2, <2>3 DEF Start
<1> QED BY <1>3, <1>4

LEMMA LoginUser ==
  ASSUME TypeOK, NEW c \in Sessions, c \in Kept', Login(c), NEW s \in Sessions,
         User(s) \/ ChatEnds(s)
  PROVE  Login(c)'
<1>1. ToServerOK /\ ClientOK
  BY TypeParts
<1>2. Fewer(toClient'[c], toClient[c], Replies) /\ UNCHANGED conn
  BY UserMail DEF Silent
<1>3. CASE c # s
  BY <1>2, <1>3, UserMail, LoginSame DEF Fewer
<1>4. CASE c = s
  <2>1. CASE \E good \in BOOLEAN : UserConnect(c, good)
    <3>1. PICK m \in ToServer : Post(c, m)
      BY <2>1, ToServerTypes DEF UserConnect
    <3>2. logged[c] = "no" /\ logged'[c] = "asked" /\ peer' = peer
      BY <1>1, <2>1 DEF UserConnect, Kept, ClientOK
    <3>3. /\ peer[c] = "closed" /\ conn[c] # "listed"
          /\ ~Has(toServer[c], Connects) /\ ~Has(toClient[c], Replies)
      BY <3>2 DEF Login
    <3>4. Once(toServer'[c], Connects)
      BY <1>1, <3>1, <3>3, Posted DEF Login
    <3> QED BY <1>2, <3>2, <3>3, <3>4 DEF Login, Fewer
  <2>2. CASE \/ UserList(c)
             \/ \E u \in Users : UserRequest(c, u) \/ UserAccept(c, u) \/ UserReject(c, u)
    <3>1. PICK m \in ToServer : Post(c, m) /\ m.type # "connect"
      BY <2>2, ToServerTypes DEF UserList, UserRequest, UserAccept, UserReject
    <3>2. logged[c] = "yes" /\ logged' = logged
      BY <2>2 DEF UserList, UserRequest, UserAccept, UserReject, Answers
    <3>3. Fewer(toServer'[c], toServer[c], Connects)
      BY <1>1, <3>1, Posted DEF Connects
    <3> QED BY <1>2, <3>2, <3>3, LoginSame
  <2>3. ~UserCancel(c) /\ ~UserLeave(c)
    BY DEF UserCancel, UserLeave, Leaves, Kept
  <2>4. CASE ChatEnds(c)
    <3>1. peer[c] = "try" /\ UNCHANGED <<toServer, logged>>
      BY <2>4 DEF ChatEnds
    <3> QED BY <1>2, <3>1, LoginSame DEF Fewer
  <2> QED BY <1>4, <2>1, <2>2, <2>3, <2>4 DEF User
<1> QED BY <1>3, <1>4

LEMMA LoginClient ==
  ASSUME TypeOK, NEW c \in Sessions, c \in Kept', Login(c), NEW s \in Sessions, Client(s)
  PROVE  Login(c)'
<1>1. ToServerOK /\ ToClientOK /\ ClientOK
  BY TypeParts
<1>2. Fewer(toClient'[c], toClient[c], Replies) /\ UNCHANGED conn
  BY ClientMail DEF Silent
<1>3. CASE c # s
  BY <1>2, <1>3, ClientMail, LoginSame DEF Fewer
<1>4. CASE c = s
  <2>1. CASE ClientAnswered(c)
    <3>1. /\ toClient[c] # <<>> /\ Take(c) /\ Head(toClient[c]).type \in {"ok", "ko"}
          /\ UNCHANGED <<toServer, peer>>
      BY <2>1 DEF ClientAnswered, Arrives
    <3>2. Head(toClient[c]) \in Replies
      BY <1>1, <3>1, Taken DEF Replies
    <3>3. Has(toClient[c], Replies) /\ ~Has(toClient'[c], Replies)
      BY <1>1, <3>1, <3>2, Taken DEF Login
    <3>4. ~Has(toServer[c], Connects) /\ conn[c] # "listed" /\ peer[c] = "closed"
      BY <3>3 DEF Login
    <3> QED BY <1>2, <3>1, <3>3, <3>4 DEF Login, Fewer
  <2>2. CASE ClientInfos(c)
    <3>1. PICK m \in ToServer : Post(c, m) /\ m.type = "infos"
      BY <2>2, ToServerTypes DEF ClientInfos
    <3>2. Fewer(toServer'[c], toServer[c], Connects)
      BY <1>1, <3>1, Posted DEF Connects
    <3>3. peer[c] = "waiting" /\ logged' = logged
      BY <2>2 DEF ClientInfos
    <3> QED BY <1>2, <3>2, <3>3, LoginSame
  <2>3. ~ClientAborts(c)
    BY DEF ClientAborts, Leaves, Kept
  <2>4. CASE ClientInvited(c) \/ ClientRejected(c) \/ ClientTry(c) \/ ClientDrops(c)
    <3>1. UNCHANGED <<toServer, logged>> /\ (peer'[c] # "closed" => peer[c] # "closed")
      BY <1>1, <2>4 DEF ClientInvited, ClientRejected, ClientTry, ClientDrops, PeerTo, ClientOK
    <3> QED BY <1>2, <3>1, LoginSame DEF Fewer
  <2> QED BY <1>4, <2>1, <2>2, <2>3, <2>4 DEF Client
<1> QED BY <1>3, <1>4

LEMMA LoginStep ==
  ASSUME TypeOK, NEW c \in Sessions, c \in Kept', Login(c), [Next]_vars
  PROVE  Login(c)'
<1>1. ToServerOK
  BY TypeParts
<1>2. CASE UNCHANGED vars
  BY <1>2 DEF Login
<1>3. CASE Rh
  BY <1>1, <1>3, RhMail, ShrinksFewer, LoginSame DEF Silent, Without, Replies
<1>4. ASSUME NEW h \in DOMAIN hand, Hand(h) PROVE Login(c)'
  BY <1>1, <1>4, HandMail, ShrinksFewer, LoginSame DEF Silent, Without, Replies
<1> QED BY <1>2, <1>3, <1>4, LoginStart, LoginUser, LoginClient DEF Next

------------------------------------------------------------------------------
(* Nothing follows a request, an answer or a P2P_INFOS in the queue of a    *)
(* client that has not left.                                                *)
Infos == {m \in ToServer : m.type = "infos"}
GetInfos == {m \in ToClient : m.type = "get_infos"}
Finals == Asking \union Infos
Closes == {m \in ToServer : m.type = "close"}
Tidy(q) == \A i \in DOMAIN q : q[i] \notin Closes /\ (q[i] \in Finals => i = Len(q))

\* only P2P_INFOS
Pure(q) == \A i \in DOMAIN q : q[i] \in Infos

LEMMA TidyTail ==
  ASSUME NEW q \in Seq(ToServer), q # <<>>, Tidy(q)
  PROVE  /\ Tidy(Tail(q)) /\ Head(q) \notin Closes
         /\ Head(q) \in Finals => Tail(q) = <<>>
         /\ Pure(q) => Pure(Tail(q)) /\ Head(q) \in Infos
<1>1. PICK a : a = Tail(q)
  OBVIOUS
<1>2. /\ Len(q) \in Nat \ {0} /\ Len(a) = Len(q) - 1
      /\ DOMAIN q = 1..Len(q) /\ DOMAIN a = 1..(Len(q) - 1)
      /\ \A i \in 1..(Len(q) - 1) : a[i] = q[i + 1]
      /\ Head(q) = q[1]
  BY <1>1
<1>3. Tidy(a)
  <2> SUFFICES ASSUME NEW i \in DOMAIN a PROVE a[i] \notin Closes /\ (a[i] \in Finals => i = Len(a))
    BY DEF Tidy
  <2>1. i + 1 \in DOMAIN q /\ a[i] = q[i + 1]
    BY <1>2
  <2>2. q[i + 1] \notin Closes /\ (q[i + 1] \in Finals => i + 1 = Len(q))
    BY <2>1 DEF Tidy
  <2> QED BY <1>2, <2>1, <2>2
<1>4. Head(q) \notin Closes
  BY <1>2 DEF Tidy
<1>5. ASSUME Head(q) \in Finals PROVE a = <<>>
  <2>1. 1 = Len(q)
    BY <1>2, <1>5 DEF Tidy
  <2> QED BY <1>1, <1>2, <2>1
<1>6. ASSUME Pure(q) PROVE Pure(a) /\ Head(q) \in Infos
  BY <1>2, <1>6 DEF Pure
<1> QED BY <1>1, <1>3, <1>4, <1>5, <1>6

LEMMA TidyAppend ==
  ASSUME NEW q \in Seq(ToServer), NEW m \in ToServer, Tidy(q), ~Has(q, Finals), m \notin Closes
  PROVE  Tidy(Append(q, m))
<1>1. PICK a : a = Append(q, m)
  OBVIOUS
<1>2. /\ Len(q) \in Nat /\ DOMAIN q = 1..Len(q) /\ DOMAIN a = 1..(Len(q) + 1)
      /\ Len(a) = Len(q) + 1
      /\ \A i \in 1..Len(q) : a[i] = q[i]
      /\ a[Len(q) + 1] = m
  BY <1>1
<1>3. Tidy(a)
  <2> SUFFICES ASSUME NEW i \in DOMAIN a PROVE a[i] \notin Closes /\ (a[i] \in Finals => i = Len(a))
    BY DEF Tidy
  <2>1. CASE i = Len(q) + 1
    BY <1>2, <2>1
  <2>2. CASE i # Len(q) + 1
    <3>1. i \in 1..Len(q) /\ a[i] = q[i]
      BY <1>2, <2>2
    <3> QED BY <1>2, <3>1 DEF Tidy, Has
  <2> QED BY <2>1, <2>2
<1> QED BY <1>1, <1>3

(* A client answers GET_INFOS once, while a handshake waits for it, and     *)
(* sends nothing else meanwhile.                                            *)
Orderly(c) ==
  /\ Tidy(toServer[c])
  /\ Asks(c) \/ Pends(c) => peer[c] = "waiting"
  /\ Pends(c) => toServer[c] = <<>>
  /\ Has(toServer[c], Infos) => peer[c] = "ready" /\ InHand(c)
  /\ Has(toClient[c], GetInfos) => peer[c] = "waiting" /\ InHand(c)
  /\ Once(toClient[c], GetInfos)

\* a client of a handshake: not asked yet, asked, and heard (r is received)
Fresh(c) == toServer[c] = <<>> /\ peer[c] = "waiting" /\ ~Has(toClient[c], GetInfos)
Expected(c) == Pure(toServer[c])
Heard(c, r) == toServer[c] = <<>> /\ peer[c] = "ready" /\ r = "infos"

Heeds(c, h) ==
  /\ c \in {hand[h].c1, hand[h].c2} /\ hand[h].at = "ask" => Fresh(c)
  /\ c = hand[h].c1 =>
       /\ hand[h].at = "recv1" => Expected(c)
       /\ hand[h].at \in {"recv2", "try"} => Heard(c, hand[h].r1)
  /\ c = hand[h].c2 =>
       /\ hand[h].at \in {"recv1", "recv2"} => Expected(c)
       /\ hand[h].at = "try" => Heard(c, hand[h].r2)

Rounds(c) == \A h \in DOMAIN hand : Heeds(c, h)

(* A step that only reads messages of c leaves c where it was.              *)
Eases(c) ==
  /\ Shrinks(c) /\ Fewer(toClient'[c], toClient[c], GetInfos)
  /\ peer'[c] = peer[c] /\ FewerAsks(c)

\* the handshakes at work for c are those there were, at the same step
SameHands(c) ==
  /\ InHand(c) => InHand(c)'
  /\ \A h \in DOMAIN hand' : c \in {hand'[h].c1, hand'[h].c2} /\ hand'[h].at \in LivePc
       => h \in DOMAIN hand /\ hand'[h] = hand[h]

LEMMA ShrinksTidy ==
  ASSUME ToServerOK, NEW c \in Sessions, Shrinks(c), Tidy(toServer[c])
  PROVE  /\ Tidy(toServer'[c])
         /\ toServer[c] = <<>> => toServer'[c] = <<>>
         /\ Pure(toServer[c]) => Pure(toServer'[c])
<1>1. toServer[c] \in Seq(ToServer)
  BY DEF ToServerOK
<1> QED BY <1>1, TidyTail DEF Shrinks

LEMMA OrderlyEases ==
  ASSUME ToServerOK, NEW c \in Sessions, Orderly(c), Eases(c), InHand(c) => InHand(c)'
  PROVE  Orderly(c)'
<1>1. Tidy(toServer'[c]) /\ (toServer[c] = <<>> => toServer'[c] = <<>>)
  BY ShrinksTidy DEF Eases, Orderly
<1>2. \A M : Fewer(toServer'[c], toServer[c], M)
  BY ShrinksFewer DEF Eases
<1>3. (Asks(c)' => Asks(c)) /\ (Has(toServer'[c], Infos) => Has(toServer[c], Infos))
  BY <1>2 DEF Asks, Fewer
<1>4. Pends(c)' => Pends(c)
  BY DEF Pends, Eases, FewerAsks
<1> QED BY <1>1, <1>3, <1>4 DEF Orderly, Eases, Fewer

LEMMA SteadyEases ==
  ASSUME ToServerOK, NEW c \in Sessions, Orderly(c), Eases(c)
  PROVE  /\ Fresh(c) => Fresh(c)'
         /\ Expected(c) => Expected(c)'
         /\ \A r : Heard(c, r) => Heard(c, r)'
BY ShrinksTidy DEF Orderly, Eases, Fresh, Expected, Heard, Fewer

LEMMA RoundsEase ==
  ASSUME ToServerOK, NEW c \in Sessions, Orderly(c), Rounds(c), Eases(c), SameHands(c)
  PROVE  Orderly(c)' /\ Rounds(c)'
<1>1. ASSUME NEW h \in DOMAIN hand' PROVE Heeds(c, h)'
  <2>1. CASE c \in {hand'[h].c1, hand'[h].c2} /\ hand'[h].at \in LivePc
    <3>1. Heeds(c, h) /\ hand'[h] = hand[h]
      BY <2>1 DEF SameHands, Rounds
    <3> QED BY <3>1, SteadyEases DEF Heeds
  <2>2. CASE ~(c \in {hand'[h].c1, hand'[h].c2} /\ hand'[h].at \in LivePc)
    BY <2>2 DEF Heeds, LivePc
  <2> QED BY <2>1, <2>2
<1> QED BY <1>1, OrderlyEases DEF Rounds, SameHands

LEMMA HandsSame == ASSUME UNCHANGED hand, NEW c PROVE SameHands(c)
BY DEF SameHands, InHand

(* No handshake works for c: the rest is about its queues.                  *)
LEMMA RoundsFree ==
  ASSUME NEW c, ~InHand(c)'
  PROVE  Rounds(c)'
BY DEF InHand, Rounds, Heeds, LivePc

------------------------------------------------------------------------------
LEMMA OrderStart ==
  ASSUME TypeOK, NEW c \in Sessions, Orderly(c), Rounds(c), FewerAsks(c),
         NEW s \in Sessions, Connect(s) \/ AcceptFails(s) \/ Start(s)
  PROVE  Orderly(c)' /\ Rounds(c)'
<1>1. ToServerOK
  BY TypeParts
<1>2. Silent(GetInfos) /\ Shrinks(c) /\ UNCHANGED <<peer, hand>>
  BY StartMail DEF GetInfos, Without
<1>3. Eases(c) /\ SameHands(c)
  BY <1>2, HandsSame DEF Eases, Silent
<1> QED BY <1>1, <1>3, RoundsEase

(* Nothing is due to or from a client whose peer thread does not wait.      *)
LEMMA FreeClient ==
  ASSUME NEW c \in Sessions, Engaged(c), Orderly(c), c \notin left,
         peer[c] \notin {"waiting", "ready"} \/ Ended(c)
  PROVE  /\ ~Asks(c) /\ ~Pends(c) /\ ~InHand(c)
         /\ Tidy(toServer[c]) /\ ~Has(toServer[c], Finals) /\ ~Has(toServer[c], Infos)
         /\ ~Has(toClient[c], GetInfos) /\ Once(toClient[c], GetInfos)
<1>1. ~Asks(c) /\ ~Pends(c) /\ ~InHand(c)
  BY DEF Engaged, Waits, Idle, Exclusive
<1>2. ~Has(toServer[c], Finals)
  BY <1>1 DEF Orderly, Asks, Has, Finals
<1> QED BY <1>1, <1>2 DEF Orderly

LEMMA OrderUser ==
  ASSUME TypeOK, NEW c \in Sessions, c \in Kept', Engaged(c), Login(c), Orderly(c), Rounds(c),
         FewerAsks(c), NEW s \in Sessions, User(s) \/ ChatEnds(s)
  PROVE  Orderly(c)' /\ Rounds(c)'
<1>1. ToServerOK /\ ClientOK
  BY TypeParts
<1>2. Fewer(toClient'[c], toClient[c], GetInfos) /\ UNCHANGED hand /\ c \notin left
  BY UserMail DEF Silent, Kept
<1>3. CASE c # s
  <2>1. Eases(c) /\ SameHands(c)
    BY <1>2, <1>3, UserMail, HandsSame DEF Eases, Shrinks
  <2> QED BY <1>1, <2>1, RoundsEase
<1>4. CASE c = s
  <2>1. ~UserCancel(c) /\ ~UserLeave(c)
    BY DEF UserCancel, UserLeave, Leaves, Kept
  <2>2. peer[c] \notin {"waiting", "ready"}
    <3>1. CASE \E good \in BOOLEAN : UserConnect(c, good)
      BY <3>1 DEF UserConnect, Kept, Login
    <3>2. CASE \/ UserList(c) \/ ChatEnds(c)
               \/ \E u \in Users : UserRequest(c, u) \/ UserAccept(c, u) \/ UserReject(c, u)
      BY <3>2 DEF UserList, ChatEnds, UserRequest, UserAccept, UserReject, Chats, Kept
    <3> QED BY <1>4, <2>1, <3>1, <3>2 DEF User
  <2>3. /\ ~Asks(c) /\ ~Pends(c) /\ ~InHand(c)
        /\ Tidy(toServer[c]) /\ ~Has(toServer[c], Finals) /\ ~Has(toServer[c], Infos)
        /\ ~Has(toClient[c], GetInfos) /\ Once(toClient[c], GetInfos)
    BY <1>2, <2>2, FreeClient
  <2>4. /\ ~Pends(c)' /\ ~InHand(c)'
        /\ ~Has(toClient'[c], GetInfos) /\ Once(toClient'[c], GetInfos)
    BY <1>2, <2>3 DEF Pends, FewerAsks, InHand, Fewer
  <2>5. CASE ChatEnds(c)
    <3>1. toServer' = toServer
      BY <2>5 DEF ChatEnds
    <3> QED BY <2>3, <2>4, <3>1, RoundsFree DEF Orderly, Asks
  <2>6. CASE ~ChatEnds(c)
    <3>1. PICK m \in ToServer :
            /\ Post(c, m) /\ m.type \in {"connect", "list", "request", "accept", "reject"}
            /\ m.type \in {"request", "accept"} => peer'[c] = "waiting"
      BY <1>1, <1>4, <2>1, <2>6, ToServerTypes
         DEF User, UserConnect, UserRequest, UserAccept, UserReject, UserList, ClientOK
    <3>2. m \notin Infos /\ m \notin Closes /\ (m \in Asking <=> m.type \in {"request", "accept"})
      BY <3>1 DEF Infos, Closes, Asking
    <3>3. ~Has(toServer'[c], Infos) /\ (Asks(c)' => m \in Asking)
      BY <1>1, <2>3, <3>1, <3>2, Posted DEF Asks
    <3>4. toServer[c] \in Seq(ToServer) /\ toServer'[c] = Append(toServer[c], m)
      BY <1>1, <3>1 DEF Post, ToServerOK
    <3>5. Tidy(toServer'[c])
      BY <2>3, <3>2, <3>4, TidyAppend
    <3> QED BY <2>4, <3>1, <3>2, <3>3, <3>5, RoundsFree DEF Orderly
  <2> QED BY <2>5, <2>6
<1> QED BY <1>3, <1>4

LEMMA OrderClient ==
  ASSUME TypeOK, NEW c \in Sessions, c \in Kept', Engaged(c), Orderly(c), Rounds(c),
         FewerAsks(c), NEW s \in Sessions, Client(s)
  PROVE  Orderly(c)' /\ Rounds(c)'
<1>1. ToServerOK /\ ToClientOK /\ ClientOK
  BY TypeParts
<1>2. /\ Fewer(toClient'[c], toClient[c], GetInfos) /\ UNCHANGED hand /\ c \notin left
      /\ SameHands(c)
  BY ClientMail, HandsSame DEF Silent, Kept
<1>3. CASE c # s
  <2>1. Eases(c)
    BY <1>2, <1>3, ClientMail DEF Eases, Shrinks
  <2> QED BY <1>1, <1>2, <2>1, RoundsEase
<1>4. CASE c = s
  <2>1. CASE ClientAnswered(c) \/ ClientInvited(c) \/ ClientDrops(c)
    <3>1. toServer' = toServer /\ peer' = peer
      BY <2>1 DEF ClientAnswered, ClientInvited, ClientDrops
    <3>2. Eases(c)
      BY <1>2, <3>1 DEF Eases, Shrinks
    <3> QED BY <1>1, <1>2, <3>2, RoundsEase
  <2>2. CASE ClientRejected(c) \/ ClientTry(c)
    <3>1. /\ toClient[c] # <<>> /\ Take(c) /\ Head(toClient[c]).type \in {"reject", "try"}
          /\ toServer' = toServer
      BY <2>2 DEF ClientRejected, ClientTry, Arrives
    <3>2. Head(toClient[c]) \in Ending
      BY <1>1, <3>1, Taken, Kinds
    <3>3. Ended(c)
      BY <1>1, <1>2, <3>1, <3>2, Taken DEF Ended
    <3>4. /\ ~Asks(c) /\ ~Pends(c) /\ ~InHand(c)
          /\ Tidy(toServer[c]) /\ ~Has(toServer[c], Infos)
          /\ ~Has(toClient[c], GetInfos) /\ Once(toClient[c], GetInfos)
      BY <1>2, <3>3, FreeClient
    <3>5. /\ ~Pends(c)' /\ ~InHand(c)'
          /\ ~Has(toClient'[c], GetInfos) /\ Once(toClient'[c], GetInfos)
      BY <1>2, <3>4 DEF Pends, FewerAsks, InHand, Fewer
    <3> QED BY <3>1, <3>4, <3>5, RoundsFree DEF Orderly, Asks
  <2>3. CASE ClientInfos(c)
    <3>1. /\ toClient[c] # <<>> /\ Take(c) /\ Head(toClient[c]).type = "get_infos"
          /\ peer[c] = "waiting" /\ peer'[c] = "ready"
      BY <1>1, <2>3 DEF ClientInfos, Arrives, PeerTo, ClientOK
    <3>2. Head(toClient[c]) \in GetInfos
      BY <1>1, <3>1, Taken DEF GetInfos
    <3>3. /\ Has(toClient[c], GetInfos) /\ ~Has(toClient'[c], GetInfos)
          /\ Once(toClient'[c], GetInfos)
      <4>1. Once(toClient[c], GetInfos)
        BY DEF Orderly
      <4> QED BY <1>1, <3>1, <3>2, <4>1, Taken DEF Fewer
    <3>4. InHand(c) /\ ~Asks(c) /\ ~Pends(c) /\ ~Has(toServer[c], Infos)
      BY <3>1, <3>3 DEF Orderly, Engaged, Exclusive
    <3>5. ~Fresh(c) /\ \A r : ~Heard(c, r)
      BY <3>1, <3>3 DEF Fresh, Heard
    <3>6. Expected(c)
      <4>1. PICK h \in DOMAIN hand : hand[h].at \in LivePc /\ c \in {hand[h].c1, hand[h].c2}
        BY <3>4 DEF InHand
      <4>2. Heeds(c, h)
        BY DEF Rounds
      <4>3. hand[h].at \in {"ask", "recv1", "recv2", "try"}
        BY <4>1 DEF LivePc
      <4> HIDE DEF Fresh, Heard
      <4> QED BY <3>5, <4>1, <4>2, <4>3 DEF Heeds
    <3>7. PICK m \in ToServer : Post(c, m) /\ m.type = "infos"
      BY <2>3, ToServerTypes DEF ClientInfos
    <3>8. toServer'[c] = <<m>>
      <4>1. toServer[c] \in Seq(ToServer)
        BY <1>1 DEF ToServerOK
      <4>2. toServer[c] = <<>>
        BY <3>4, <3>6, <4>1 DEF Expected, Pure, Has
      <4> QED BY <1>1, <3>7, <4>2 DEF Post, ToServerOK
    <3>9. m \in Infos /\ m \notin Closes /\ m \notin Asking
      BY <3>7 DEF Infos, Closes, Asking
    <3>10. Tidy(toServer'[c]) /\ Expected(c)' /\ ~Asks(c)'
      BY <3>8, <3>9 DEF Tidy, Expected, Pure, Asks, Has
    <3>11. InHand(c)' /\ ~Pends(c)'
      BY <1>2, <3>4 DEF Pends, FewerAsks, SameHands
    <3>12. Rounds(c)'
      BY <1>2, <3>5, <3>10 DEF Rounds, Heeds
    <3> QED BY <3>1, <3>3, <3>10, <3>11, <3>12 DEF Orderly
  <2>4. ~ClientAborts(c)
    BY DEF ClientAborts, Leaves, Kept
  <2> QED BY <1>4, <2>1, <2>2, <2>3, <2>4 DEF Client
<1> QED BY <1>3, <1>4

------------------------------------------------------------------------------
(* requestHandler reads a request or an answer: it was the last message.    *)
LEMMA FinalRead ==
  ASSUME TypeOK, NEW c \in Sessions, Engaged(c), Orderly(c),
         NEW m \in ToServer, m.type \in {"request", "accept"}, Read(c, m), Consume(c)
  PROVE  /\ toServer'[c] = <<>> /\ peer[c] = "waiting"
         /\ Asks(c) /\ ~Pends(c) /\ ~InHand(c) /\ ~Has(toClient[c], GetInfos)
<1>1. m \in Asking /\ m \in Finals /\ m \notin Closes
  BY DEF Asking, Finals, Closes
<1>2. Asks(c)
  BY <1>1 DEF Read, Asks
<1>3. toServer[c] \in Seq(ToServer) /\ toServer[c] # <<>> /\ m = Head(toServer[c])
  BY TypeParts DEF ToServerOK, Read, Readable
<1>4. toServer'[c] = Tail(toServer[c])
  BY <1>3, TypeParts DEF Consume, ToServerOK
<1>5. toServer'[c] = <<>>
  BY <1>1, <1>3, <1>4, TidyTail DEF Orderly
<1> QED BY <1>2, <1>5 DEF Orderly, Engaged, Exclusive

LEMMA OrderRequest ==
  ASSUME TypeOK, NEW c \in Sessions, Engaged(c), Orderly(c), Rounds(c), RhRequest
  PROVE  Orderly(c)' /\ Rounds(c)'
<1>1. ToServerOK /\ Rh
  BY TypeParts DEF Rh
<1>2. PICK x \in Sessions, v \in Sessions : Passes(x, v)
  BY RequestPasses
<1>3. /\ Shrinks(c) /\ Fewer(toClient'[c], toClient[c], GetInfos)
      /\ UNCHANGED <<left, peer, hand>>
  BY <1>1, <1>2, RhMail DEF Without, GetInfos, Silent, Passes
<1>4. CASE c # x
  <2>1. Eases(c) /\ SameHands(c)
    BY <1>2, <1>3, <1>4, PassRequest, HandsSame DEF Eases, FewerAsks
  <2> QED BY <1>1, <2>1, RoundsEase
<1>5. CASE c = x
  <2>1. PICK m \in ToServer : m.type = "request" /\ Read(c, m) /\ Consume(c)
    BY <1>2, <1>5 DEF Passes
  <2>2. /\ toServer'[c] = <<>> /\ peer[c] = "waiting" /\ ~InHand(c)
        /\ ~Has(toClient[c], GetInfos) /\ Once(toClient[c], GetInfos)
    BY <2>1, FinalRead DEF Orderly
  <2>3. Tidy(<<>>)
    BY DEF Tidy
  <2>4. ~InHand(c)'
    BY <1>3, <2>2 DEF InHand
  <2> QED BY <1>3, <2>2, <2>3, <2>4, EmptyHas, RoundsFree DEF Orderly, Fewer
<1> QED BY <1>4, <1>5

LEMMA OrderAccept ==
  ASSUME TypeOK, NEW c \in Sessions, c \in Kept, Engaged(c), Orderly(c), Rounds(c), RhAccept
  PROVE  Orderly(c)' /\ Rounds(c)'
<1>1. Shape /\ ToServerOK /\ Rh
  BY TypeParts DEF Rh
<1>2. PICK d \in Sessions, x \in Sessions : Begins(d, x)
  BY AcceptBegins
<1>3. Shrinks(c) /\ UNCHANGED <<left, peer, toClient>>
  BY <1>1, <1>2, RhMail DEF Begins
<1>4. PICK n : n = Len(hand) + 1
  OBVIOUS
<1>5. /\ DOMAIN hand' = DOMAIN hand \union {n} /\ n \notin DOMAIN hand
      /\ \A h \in DOMAIN hand : hand'[h] = hand[h]
      /\ hand'[n].c1 = d /\ hand'[n].c2 = x /\ hand'[n].at = "ask"
  BY <1>1, <1>2, <1>4 DEF Shape, Begins
<1>6. CASE c \notin {d, x}
  <2>1. Eases(c)
    BY <1>2, <1>3, <1>6, BeginHandshake DEF Eases, FewerAsks, Fewer
  <2>2. SameHands(c)
    BY <1>5, <1>6 DEF SameHands, InHand
  <2> QED BY <1>1, <2>1, <2>2, RoundsEase
<1>7. CASE c \in {d, x}
  <2>1. /\ toServer'[c] = <<>> /\ peer[c] = "waiting" /\ ~InHand(c)
        /\ ~Has(toClient[c], GetInfos) /\ ~Pends(c)'
    <3>1. CASE c = x
      <4>1. PICK m \in ToServer : m.type = "accept" /\ Read(c, m) /\ Consume(c)
        BY <1>2, <3>1 DEF Begins
      <4>2. ~Pends(c)'
        BY <1>2, <3>1, BeginHandshake DEF Pends
      <4> QED BY <4>1, <4>2, FinalRead
    <3>2. CASE c = d
      <4>1. Pends(c) /\ ~Pends(c)'
        BY <1>2, <3>2, BeginHandshake DEF Pends
      <4>2. toServer[c] = <<>> /\ peer[c] = "waiting" /\ ~InHand(c)
        BY <4>1 DEF Orderly, Engaged, Exclusive
      <4>3. toServer'[c] = <<>>
        BY <1>3, <4>2 DEF Shrinks
      <4> QED BY <4>1, <4>2, <4>3 DEF Orderly
    <3> QED BY <1>7, <3>1, <3>2
  <2>2. Fresh(c)'
    BY <1>3, <2>1 DEF Fresh
  <2>3. Tidy(<<>>)
    BY DEF Tidy
  <2>4. Orderly(c)'
    BY <1>3, <2>1, <2>3, EmptyHas DEF Orderly
  <2>5. ASSUME NEW h \in DOMAIN hand' PROVE Heeds(c, h)'
    <3>1. CASE h = n
      BY <1>5, <2>2, <3>1 DEF Heeds
    <3>2. CASE h # n
      BY <1>5, <2>1, <3>2 DEF Heeds, InHand, LivePc
    <3> QED BY <3>1, <3>2
  <2> QED BY <2>4, <2>5 DEF Rounds
<1> QED BY <1>6, <1>7

LEMMA OrderRh ==
  ASSUME TypeOK, NEW c \in Sessions, Engaged(c), Orderly(c), Rounds(c), FewerAsks(c),
         Rh, ~RhRequest, ~RhAccept
  PROVE  Orderly(c)' /\ Rounds(c)'
<1>1. ToServerOK
  BY TypeParts
<1>2. Shrinks(c) /\ Fewer(toClient'[c], toClient[c], GetInfos) /\ UNCHANGED peer
  BY RhMail DEF Without, GetInfos, Silent
<1>3. UNCHANGED hand
  BY DEF Rh, RhWait, RhSkip, RhScanned, RhClosed, RhRequestRefused, RhAcceptGone,
         RhReject, RhRejectFails, RhAvailable, RhDrop, RhNext
<1>4. Eases(c) /\ SameHands(c)
  BY <1>2, <1>3, HandsSame DEF Eases
<1> QED BY <1>1, <1>4, RoundsEase

------------------------------------------------------------------------------
(* The steps of a handshake.                                                *)
LEMMA MovesHands ==
  ASSUME NEW c, NEW h \in DOMAIN hand, NEW l, NEW r1, NEW r2, Moves(h, l, r1, r2),
         \/ c \notin {hand[h].c1, hand[h].c2}
         \/ hand[h].at \notin LivePc /\ l \notin LivePc
  PROVE  SameHands(c)
<1>1. ASSUME NEW g \in DOMAIN hand', c \in {hand'[g].c1, hand'[g].c2}, hand'[g].at \in LivePc
      PROVE  g \in DOMAIN hand /\ hand'[g] = hand[g]
  BY <1>1, MovesFacts
<1>2. ASSUME InHand(c) PROVE InHand(c)'
  <2>1. PICK g \in DOMAIN hand : hand[g].at \in LivePc /\ c \in {hand[g].c1, hand[g].c2}
    BY <1>2 DEF InHand
  <2>2. g # h
    BY <2>1
  <2> QED BY <2>1, <2>2, MovesFacts DEF InHand
<1> QED BY <1>1, <1>2 DEF SameHands

\* what the handshake of c has to show when it moves
LEMMA MovesRounds ==
  ASSUME NEW c, Engaged(c), NEW h \in DOMAIN hand, hand[h].at \in LivePc,
         c \in {hand[h].c1, hand[h].c2},
         NEW l, NEW r1, NEW r2, Moves(h, l, r1, r2), Heeds(c, h)'
  PROVE  /\ Rounds(c)'
         /\ l \in LivePc => InHand(c)'
         /\ ~Asks(c) /\ ~Pends(c)
<1>1. InHand(c) /\ c \in Served(h)
  BY DEF InHand, Served, LivePc
<1>2. ASSUME NEW g \in DOMAIN hand, g # h PROVE Heeds(c, g)'
  <2>1. ASSUME c \in {hand[g].c1, hand[g].c2}, hand[g].at \in LivePc PROVE FALSE
    <3>1. c \in Served(g)
      BY <2>1 DEF Served, LivePc
    <3> QED BY <1>1, <1>2, <3>1 DEF Engaged, Paired
  <2>2. hand'[g] = hand[g]
    BY <1>2, MovesFacts
  <2>3. ~(c \in {hand'[g].c1, hand'[g].c2} /\ hand'[g].at \in LivePc)
    BY <2>1, <2>2
  <2> QED BY <2>3 DEF Heeds, LivePc
<1>3. Rounds(c)'
  BY <1>2, MovesFacts DEF Rounds
<1> QED BY <1>1, <1>3, MovesFacts DEF InHand, Engaged, Exclusive

\* a handshake receives from c
LEMMA HeardInfos ==
  ASSUME ToServerOK, NEW c \in Sessions, Orderly(c), Expected(c), Readable(c), Consume(c),
         UNCHANGED peer, NEW a, a = Answer(c)
  PROVE  Heard(c, a)'
<1>1. toServer[c] \in Seq(ToServer) /\ toServer[c] # <<>> /\ Pure(toServer[c])
  BY DEF ToServerOK, Readable, Expected
<1>2. Head(toServer[c]) \in Infos /\ Tail(toServer[c]) = <<>>
  BY <1>1, TidyTail DEF Orderly, Finals
<1>3. Head(toServer[c]).type = "infos"
  BY <1>2 DEF Infos
<1>4. toServer'[c] = <<>>
  BY <1>2, <1>3 DEF Consume, ToServerOK
<1>5. peer[c] = "ready"
  BY <1>1, <1>2, TailHas DEF Orderly
<1> QED BY <1>3, <1>4, <1>5 DEF Answer, Heard

LEMMA OrderHand ==
  ASSUME TypeOK, NEW c \in Sessions, c \in Kept, Engaged(c), Orderly(c), Rounds(c), FewerAsks(c),
         NEW h \in DOMAIN hand, Hand(h)
  PROVE  Orderly(c)' /\ Rounds(c)'
<1>1. Shape /\ ToServerOK /\ ToClientOK
  BY TypeParts
<1>2. Shrinks(c) /\ UNCHANGED <<left, peer>>
  BY HandMail
<1>3. ~HandAsk(h) => Fewer(toClient'[c], toClient[c], GetInfos)
  BY HandMail DEF Without, GetInfos, Silent
<1>4. Pends(c)' => Pends(c)
  BY DEF Pends, FewerAsks
<1>5. CASE HandTryFails(h)
  <2>1. UNCHANGED hand /\ ~HandAsk(h)
    BY <1>5 DEF HandTryFails, HandAsk, HandAt
  <2>2. Eases(c) /\ SameHands(c)
    BY <1>2, <1>3, <2>1, HandsSame DEF Eases
  <2> QED BY <1>1, <2>2, RoundsEase
<1>6. CASE ~HandTryFails(h) /\ c \notin {hand[h].c1, hand[h].c2}
  <2>1. PICK l, r1, r2 : Moves(h, l, r1, r2)
    BY <1>1, <1>6, HandMoves DEF Hand
  <2>2. SameHands(c)
    BY <1>6, <2>1, MovesHands
  <2>3. Fewer(toClient'[c], toClient[c], GetInfos)
    <3>1. CASE HandAsk(h)
      <4>1. PICK m \in ToClient : TellBoth(h, m, m)
        BY <3>1, ToClientTypes DEF HandAsk
      <4> QED BY <1>1, <1>6, <4>1, BothTold
    <3> QED BY <1>3, <3>1
  <2> QED BY <1>1, <1>2, <2>2, <2>3, RoundsEase DEF Eases
<1>7. CASE HandEnd1(h) \/ HandEnd2(h)
  <2>1. /\ hand[h].at \in {"end1", "end2"} /\ ~HandAsk(h)
        /\ \E l, r1, r2 : Moves(h, l, r1, r2) /\ l \in {"end2", "done"}
    BY <1>1, <1>7, HandMoves DEF HandEnd1, HandEnd2, HandAsk, HandAt
  <2>2. SameHands(c)
    BY <2>1, MovesHands DEF LivePc
  <2> QED BY <1>1, <1>2, <1>3, <2>1, <2>2, RoundsEase DEF Eases
<1>8. CASE ~HandTryFails(h) /\ c \in {hand[h].c1, hand[h].c2} /\ hand[h].at \in LivePc
  <2>1. hand[h].c1 # hand[h].c2 /\ Heeds(c, h)
    BY <1>8 DEF Engaged, Paired, Rounds
  <2>2. CASE HandAsk(h)
    <3>1. Moves(h, "recv1", hand[h].r1, hand[h].r2) /\ hand[h].at = "ask" /\ toServer' = toServer
      BY <1>1, <2>2, HandMoves DEF HandAsk, HandAt
    <3>2. toServer[c] = <<>> /\ peer[c] = "waiting" /\ ~Has(toClient[c], GetInfos)
      BY <1>8, <2>1, <3>1 DEF Heeds, Fresh
    <3>3. Expected(c)' /\ ~Asks(c)' /\ ~Has(toServer'[c], Infos) /\ Tidy(toServer'[c])
      BY <3>1, <3>2, EmptyHas DEF Expected, Pure, Asks, Tidy
    <3>4. Heeds(c, h)'
      BY <3>1, <3>3, MovesFacts DEF Heeds
    <3>5. Rounds(c)' /\ InHand(c)' /\ ~Pends(c)
      BY <1>8, <3>1, <3>4, MovesRounds DEF LivePc
    <3>6. Once(toClient'[c], GetInfos)
      <4>1. PICK m \in ToClient : TellBoth(h, m, m)
        BY <2>2, ToClientTypes DEF HandAsk
      <4>2. c \notin left /\ Once(toClient[c], GetInfos)
        BY DEF Kept, Orderly
      <4> QED BY <1>1, <2>1, <3>2, <4>1, <4>2, BothTold
    <3> QED BY <1>2, <1>4, <3>2, <3>3, <3>5, <3>6 DEF Orderly
  <2>3. CASE HandReceive1(h) \/ HandReceive2(h)
    <3>1. ~HandAsk(h)
      BY <2>3 DEF HandReceive1, HandReceive2, HandAsk, HandAt
    <3>2. Eases(c)
      BY <1>2, <1>3, <3>1 DEF Eases
    <3>3. /\ Expected(c) => Expected(c)'
          /\ \A r : Heard(c, r) => Heard(c, r)'
      BY <1>1, <3>2, SteadyEases
    <3>4. CASE HandReceive1(h)
      <4>1. Moves(h, "recv2", Answer(hand[h].c1), hand[h].r2) /\ hand[h].at = "recv1"
        BY <1>1, <3>4, HandMoves DEF HandReceive1, HandAt
      <4>2. PICK a : a = Answer(hand[h].c1)
        OBVIOUS
      <4>3. Expected(c)
        BY <1>8, <2>1, <4>1 DEF Heeds
      <4>4. c = hand[h].c1 => Heard(c, a)'
        BY <1>1, <1>2, <3>4, <4>2, <4>3, HeardInfos DEF HandReceive1, Heard
      <4>5. Heeds(c, h)'
        BY <2>1, <3>3, <4>1, <4>2, <4>3, <4>4, MovesFacts DEF Heeds
      <4> QED BY <1>1, <1>8, <3>2, <4>1, <4>5, MovesRounds, OrderlyEases DEF LivePc
    <3>5. CASE HandReceive2(h)
      <4>1. Moves(h, "try", hand[h].r1, Answer(hand[h].c2)) /\ hand[h].at = "recv2"
        BY <1>1, <3>5, HandMoves DEF HandReceive2, HandAt
      <4>2. PICK a : a = Answer(hand[h].c2)
        OBVIOUS
      <4>3. c = hand[h].c2 => Heard(c, a)'
        <5>1. c = hand[h].c2 => Expected(c)
          BY <2>1, <4>1 DEF Heeds
        <5> QED BY <1>1, <1>2, <3>5, <4>2, <5>1, HeardInfos DEF HandReceive2, Heard
      <4>4. c = hand[h].c1 => Heard(c, hand[h].r1)
        BY <2>1, <4>1 DEF Heeds
      <4>5. Heeds(c, h)'
        BY <2>1, <3>3, <4>1, <4>2, <4>3, <4>4, MovesFacts DEF Heeds, Heard
      <4> QED BY <1>1, <1>8, <3>2, <4>1, <4>5, MovesRounds, OrderlyEases DEF LivePc
    <3> QED BY <2>3, <3>4, <3>5
  <2>4. CASE HandTry(h)
    <3>1. Moves(h, "end1", hand[h].r1, hand[h].r2) /\ hand[h].at = "try" /\ toServer' = toServer
      BY <1>1, <2>4, HandMoves DEF HandTry, HandAt
    <3>2. toServer[c] = <<>> /\ peer[c] = "ready"
      BY <1>8, <2>1, <3>1 DEF Heeds, Heard
    <3>3. ~Has(toClient[c], GetInfos) /\ Once(toClient[c], GetInfos)
      BY <3>2 DEF Orderly
    <3>4. ~Has(toClient'[c], GetInfos) /\ Once(toClient'[c], GetInfos)
      BY <1>3, <3>1, <3>3 DEF Fewer, HandAsk, HandAt
    <3>5. Heeds(c, h)'
      BY <3>1, MovesFacts DEF Heeds
    <3>6. Rounds(c)' /\ ~Asks(c) /\ ~Pends(c)
      BY <1>8, <3>1, <3>5, MovesRounds
    <3>7. ~Asks(c)' /\ ~Has(toServer'[c], Infos) /\ Tidy(toServer'[c])
      BY <3>1, <3>2, EmptyHas DEF Asks, Tidy
    <3> QED BY <1>4, <3>4, <3>6, <3>7 DEF Orderly
  <2> QED BY <1>8, <2>2, <2>3, <2>4, <1>7 DEF Hand
<1>9. hand[h].at \in LivePc \/ HandEnd1(h) \/ HandEnd2(h)
  BY DEF Hand, HandAsk, HandReceive1, HandReceive2, HandTry, HandTryFails, HandAt, LivePc
<1> QED BY <1>5, <1>6, <1>7, <1>8, <1>9

------------------------------------------------------------------------------
Polite(c) == Login(c) /\ Orderly(c) /\ Rounds(c)
AllPolite == \A c \in Kept : Polite(c)

LEMMA PoliteInit == Init => AllPolite
<1> SUFFICES ASSUME Init, NEW c \in Sessions PROVE Polite(c)
  BY DEF AllPolite, Kept
<1>1. /\ \A s \in Sessions : toServer[s] = <<>> /\ toClient[s] = <<>> /\ invites[s] = {}
      /\ peer[c] = "closed" /\ conn[c] # "listed"
      /\ DOMAIN hand = {}
  BY DEF Init
<1>2. ~Asks(c) /\ ~Pends(c)
  BY <1>1, EmptyHas, AskedPlaces DEF Asks, Pends, Sent, Shown, Replied
<1>3. Tidy(<<>>)
  BY DEF Tidy
<1> QED BY <1>1, <1>2, <1>3, EmptyHas DEF Polite, Login, Orderly, Rounds

LEMMA PoliteStep ==
  ASSUME TypeOK, AllEngaged, AllPolite, [Next]_vars
  PROVE  AllPolite'
<1> SUFFICES ASSUME NEW c \in Sessions, c \in Kept' PROVE Polite(c)'
  BY DEF AllPolite, Kept
<1>1. Older
  BY TypeParts, HistoryStep
<1>2. c \in Kept /\ c \notin strayed' /\ Engaged(c) /\ Polite(c)
  BY <1>1 DEF Kept, Older, AllEngaged, AllPolite
<1>3. Login(c)'
  BY <1>2, LoginStep DEF Polite
<1>4. Orderly(c)' /\ Rounds(c)'
  <2>1. CASE RhRequest
    BY <1>2, <2>1, OrderRequest DEF Polite
  <2>2. CASE RhAccept
    BY <1>2, <2>2, OrderAccept DEF Polite
  <2>3. CASE ~RhRequest /\ ~RhAccept
    <3>1. FewerAsks(c)
      BY <1>2, <2>3, QuietStep
    <3>2. CASE UNCHANGED vars
      <4>1. Eases(c) /\ SameHands(c) /\ ToServerOK
        BY <3>1, <3>2, HandsSame, TypeParts DEF Eases, Shrinks, Fewer
      <4> QED BY <1>2, <4>1, RoundsEase DEF Polite
    <3> QED BY <1>2, <2>3, <3>1, <3>2, OrderStart, OrderUser, OrderClient, OrderRh, OrderHand
            DEF Next, Polite
  <2> QED BY <2>1, <2>2, <2>3
<1> QED BY <1>3, <1>4 DEF Polite

(* request-handler.c, createP2Pconnection: what a handshake has taken for   *)
(* the P2P_INFOS of a client is that, for any number of clients, whatever   *)
(* the users of the other clients type; unless the client has left, has     *)
(* strayed, or has itself sent a message that is not expected meanwhile.    *)
THEOREM InfosAlwaysExchanged == Spec => []InfosExchanged
<1>1. TypeOK /\ AllEngaged /\ AllPolite /\ [Next]_vars => AllPolite'
  BY PoliteStep
<1>2. TypeOK /\ AllPolite => InfosExchanged
  <2> SUFFICES ASSUME TypeOK, AllPolite, NEW h \in DOMAIN hand, hand[h].at = "try"
               PROVE  /\ hand[h].c1 \in Kept => hand[h].r1 = "infos"
                      /\ hand[h].c2 \in Kept => hand[h].r2 = "infos"
    BY TypeParts, HandSessions DEF InfosExchanged, Exchanged, HeardFrom, Kept
  <2>1. \A c \in Kept : Heeds(c, h)
    BY DEF AllPolite, Polite, Rounds
  <2> QED BY <2>1 DEF Heeds, Heard
<1> QED BY <1>1, <1>2, AlwaysEngaged, PoliteInit, ServerTypeCorrect, PTL DEF Spec

==============================================================================

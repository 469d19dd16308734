--------------------------- MODULE HandshakeProofs ---------------------------
(***************************************************************************)
(* Theorems about the handshakes of the rendezvous server, for any         *)
(* sessions, users, habits and number of commands.  They are about each    *)
(* client that has not strayed, whatever the users of the others do: the   *)
(* invariant Engaged(c) says of one client c only what follows from it for *)
(* this client alone.                                                      *)
(***************************************************************************)
EXTENDS ServerProofs

USE DEF listVars, serverVars, history, clientVars, vars

------------------------------------------------------------------------------
(* Queues: a message of M is in q, at one place at most; and a queue with   *)
(* no more messages of M than q.                                            *)
Has(q, M) == \E i \in DOMAIN q : q[i] \in M
Once(q, M) == \A i, j \in DOMAIN q : q[i] \in M /\ q[j] \in M => i = j
Fewer(p, q, M) == /\ Has(p, M) => Has(q, M)
                  /\ Once(q, M) => Once(p, M)

LEMMA AppendHas ==
  ASSUME NEW S, NEW q \in Seq(S), NEW m \in S, NEW M
  PROVE  /\ Has(Append(q, m), M) <=> Has(q, M) \/ m \in M
         /\ Once(q, M) /\ (m \in M => ~Has(q, M)) => Once(Append(q, m), M)
<1>1. PICK a : a = Append(q, m)
  OBVIOUS
<1>2. /\ Len(q) \in Nat /\ DOMAIN q = 1..Len(q) /\ DOMAIN a = 1..(Len(q) + 1)
      /\ \A i \in 1..Len(q) : a[i] = q[i]
      /\ a[Len(q) + 1] = m
  BY <1>1
<1>3. Has(a, M) <=> Has(q, M) \/ m \in M
  BY <1>2 DEF Has
<1>4. Once(q, M) /\ (m \in M => ~Has(q, M)) => Once(a, M)
  BY <1>2 DEF Has, Once
<1> QED BY <1>1, <1>3, <1>4

LEMMA TailHas ==
  ASSUME NEW S, NEW q \in Seq(S), q # <<>>, NEW M
  PROVE  /\ Has(q, M) <=> Head(q) \in M \/ Has(Tail(q), M)
         /\ Once(q, M) => Once(Tail(q), M)
         /\ Once(q, M) /\ Head(q) \in M => ~Has(Tail(q), M)
<1>1. PICK a : a = Tail(q)
  OBVIOUS
<1>2. /\ Len(q) \in Nat \ {0} /\ DOMAIN q = 1..Len(q) /\ DOMAIN a = 1..(Len(q) - 1)
      /\ \A i \in 1..(Len(q) - 1) : a[i] = q[i + 1]
      /\ Head(q) = q[1]
  BY <1>1
<1>3. ASSUME Has(q, M) PROVE Head(q) \in M \/ Has(a, M)
  <2>1. PICK i \in 1..Len(q) : q[i] \in M
    BY <1>2, <1>3 DEF Has
  <2>2. CASE i = 1
    BY <1>2, <2>1, <2>2
  <2>3. CASE i # 1
    <3>1. i - 1 \in 1..(Len(q) - 1) /\ a[i - 1] = q[i]
      BY <1>2, <2>1, <2>3
    <3> QED BY <1>2, <2>1, <3>1 DEF Has
  <2> QED BY <2>2, <2>3
<1>4. ASSUME Head(q) \in M \/ Has(a, M) PROVE Has(q, M)
  BY <1>2, <1>4 DEF Has
<1>5. ASSUME Once(q, M) PROVE Once(a, M)
  <2> SUFFICES ASSUME NEW i \in DOMAIN a, NEW j \in DOMAIN a, a[i] \in M, a[j] \in M PROVE i = j
    BY DEF Once
  <2>1. i + 1 \in DOMAIN q /\ j + 1 \in DOMAIN q /\ q[i + 1] \in M /\ q[j + 1] \in M
    BY <1>2
  <2>2. i + 1 = j + 1
    BY <1>5, <2>1 DEF Once
  <2> QED BY <1>2, <2>2
<1>6. ASSUME Once(q, M), Head(q) \in M, Has(a, M) PROVE FALSE
  <2>1. PICK i \in 1..(Len(q) - 1) : q[i + 1] \in M
    BY <1>2, <1>6 DEF Has
  <2>2. 1 \in DOMAIN q /\ i + 1 \in DOMAIN q
    BY <1>2
  <2> QED BY <1>2, <1>6, <2>1, <2>2 DEF Once
<1> QED BY <1>1, <1>3, <1>4, <1>5, <1>6

LEMMA EmptyHas == \A M : ~Has(<<>>, M) /\ Once(<<>>, M)
BY DEF Has, Once

------------------------------------------------------------------------------
(* A client that has begun a request or an answer is in one of four states  *)
(* until it is told how it ends: its message is unread, its request waits   *)
(* for an answer, a handshake is at work, or the end is on its way.         *)

Asking == {m \in ToServer : m.type \in {"request", "accept"}}
Ending == {m \in ToClient : m.type \in {"reject", "try"}}
RequestOf(c) == {[type |-> "request_in", peer |-> UserOf[c]]}
AcceptOf(c) == {[type |-> "accept", peer |-> UserOf[c]]}
AnswersTo(c) == {[type |-> a, peer |-> UserOf[c]] : a \in {"accept", "reject"}}

\* where the request of c to t is: on its way, shown, or answered
Sent(c, t) == Has(toClient[t], RequestOf(c))
Shown(c, t) == UserOf[c] \in invites[t]
Replied(c, t) == Has(toServer[t], AnswersTo(c))

LivePc == {"ask", "recv1", "recv2", "try"}
Asks(c) == Has(toServer[c], Asking)
Pends(c) == \E t \in Sessions : Asked(c, t)
InHand(c) == \E h \in DOMAIN hand : hand[h].at \in LivePc /\ c \in {hand[h].c1, hand[h].c2}
Ended(c) == c \notin left /\ Has(toClient[c], Ending)

(* Messages that matter come one at a time. *)
Queues(c) ==
  /\ Once(toServer[c], Asking)
  /\ c \notin left => Once(toClient[c], Ending)
  /\ \A t \in Sessions : Once(toClient[t], RequestOf(c)) /\ Once(toServer[t], AnswersTo(c))

(* The request of c is to one client, and in one place. *)
OnePlace(c) ==
  /\ \A t, v \in Sessions : Asked(c, t) /\ Asked(c, v) => t = v
  /\ \A t \in Sessions : /\ Sent(c, t) => ~Shown(c, t) /\ ~Replied(c, t)
                         /\ Shown(c, t) => ~Replied(c, t)

(* The four states exclude each other. *)
Exclusive(c) ==
  /\ Asks(c) => ~Pends(c) /\ ~InHand(c) /\ ~Ended(c)
  /\ Pends(c) => ~InHand(c) /\ ~Ended(c)
  /\ InHand(c) => ~Ended(c)

Idle(c) == ~Asks(c) /\ ~Pends(c) /\ ~InHand(c) /\ ~Ended(c)

(* Meanwhile the peer thread of c waits, and its user can begin nothing. *)
Waits(c) == c \in left \/ Idle(c) \/ peer[c] \in {"waiting", "ready"}

(* A request that pends is recorded in request_by; c does not accept its   *)
(* own; and no other session has its user.                                 *)
Recorded(c) ==
  /\ \A t \in Sessions : Asked(c, t) => UserOf[c] \in requestBy[t]
  /\ ~Has(toServer[c], AcceptOf(c))
  /\ \A t \in Sessions : UserOf[t] = UserOf[c] => t = c

(* A handshake of c is with another, and no other handshake serves c.       *)
Paired(c) ==
  /\ \A h \in DOMAIN hand : c \in {hand[h].c1, hand[h].c2} => hand[h].c1 # hand[h].c2
  /\ \A h, g \in DOMAIN hand : c \in Served(h) /\ c \in Served(g) => h = g

Unserved(c) == Pends(c) => \A h \in DOMAIN hand : c \notin Served(h)

Marked(c) ==
  \A h \in DOMAIN hand : c \in Served(h) => etat[c] = "TRY_CONNECTION" /\ c \in Range(clients)

Engaged(c) ==
  /\ Queues(c) /\ OnePlace(c) /\ Exclusive(c) /\ Waits(c) /\ Recorded(c)
  /\ Paired(c) /\ Unserved(c) /\ Marked(c)

AllEngaged == \A c \in Sessions \ strayed : Engaged(c)

\* nobody is asked by c who was not
FewerAsks(c) == \A t \in Sessions : Asked(c, t)' => Asked(c, t)

------------------------------------------------------------------------------
(* What each message is.                                                    *)
LEMMA Kinds ==
  /\ \A m \in ToServer :
       /\ m \in Asking <=> m.type \in {"request", "accept"}
       /\ \A c \in Sessions :
            /\ m \in AcceptOf(c) <=> m.type = "accept" /\ m.peer = UserOf[c]
            /\ m \in AnswersTo(c) <=> m.type \in {"accept", "reject"} /\ m.peer = UserOf[c]
  /\ \A m \in ToClient :
       /\ m \in Ending <=> m.type \in {"reject", "try"}
       /\ \A c \in Sessions : m \in RequestOf(c) <=> m.type = "request_in" /\ m.peer = UserOf[c]
<1>1. ASSUME NEW m \in ToServer, NEW c \in Sessions
      PROVE  /\ m \in AcceptOf(c) <=> m.type = "accept" /\ m.peer = UserOf[c]
             /\ m \in AnswersTo(c) <=> m.type \in {"accept", "reject"} /\ m.peer = UserOf[c]
  <2>1. CASE m.type \in {"accept", "reject"}
    <3>1. m = [type |-> m.type, peer |-> m.peer]
      BY <2>1 DEF ToServer
    <3> QED BY <2>1, <3>1 DEF AcceptOf, AnswersTo
  <2>2. CASE m.type \notin {"accept", "reject"}
    BY <2>2 DEF AcceptOf, AnswersTo
  <2> QED BY <2>1, <2>2
<1>2. ASSUME NEW m \in ToClient, NEW c \in Sessions
      PROVE  m \in RequestOf(c) <=> m.type = "request_in" /\ m.peer = UserOf[c]
  <2>1. CASE m.type = "request_in"
    <3>1. m = [type |-> "request_in", peer |-> m.peer]
      BY <2>1 DEF ToClient
    <3> QED BY <2>1, <3>1 DEF RequestOf
  <2>2. CASE m.type # "request_in"
    BY <2>2 DEF RequestOf
  <2> QED BY <2>1, <2>2
<1> QED BY <1>1, <1>2 DEF Asking, Ending

LEMMA AskedPlaces ==
  \A c, t \in Sessions :
    /\ Asked(c, t) <=> Sent(c, t) \/ Shown(c, t) \/ Replied(c, t)
    /\ Asked(c, t)' <=> Sent(c, t)' \/ Shown(c, t)' \/ Replied(c, t)'
BY DEF Asked, Sent, Shown, Replied, Has, RequestOf, AnswersTo

(* The queues after each way of writing them.                               *)
LEMMA Posted ==
  ASSUME ToServerOK, NEW s \in Sessions, NEW m \in ToServer, Post(s, m), NEW M, NEW t \in Sessions
  PROVE  /\ Has(toServer'[t], M) <=> Has(toServer[t], M) \/ (t = s /\ m \in M)
         /\ Once(toServer[t], M) /\ (t = s /\ m \in M => ~Has(toServer[t], M))
              => Once(toServer'[t], M)
         /\ t # s \/ m \notin M => Fewer(toServer'[t], toServer[t], M)
<1>1. toServer'[t] = IF t = s THEN Append(toServer[t], m) ELSE toServer[t]
  BY DEF Post, ToServerOK
<1>2. toServer[t] \in Seq(ToServer)
  BY DEF ToServerOK
<1> QED BY <1>1, <1>2, AppendHas DEF Fewer

LEMMA Told ==
  ASSUME ToClientOK, NEW s \in Sessions, NEW m \in ToClient, Tell(s, m), NEW M, NEW t \in Sessions
  PROVE  /\ Has(toClient'[t], M) <=> Has(toClient[t], M) \/ (t = s /\ s \notin left /\ m \in M)
         /\ Once(toClient[t], M) /\ (t = s /\ s \notin left /\ m \in M => ~Has(toClient[t], M))
              => Once(toClient'[t], M)
         /\ t # s \/ m \notin M => Fewer(toClient'[t], toClient[t], M)
<1>1. toClient'[t] = IF t = s /\ s \notin left THEN Append(toClient[t], m) ELSE toClient[t]
  BY DEF Tell, Put, ToClientOK
<1>2. toClient[t] \in Seq(ToClient)
  BY DEF ToClientOK
<1> QED BY <1>1, <1>2, AppendHas DEF Fewer

LEMMA Consumed ==
  ASSUME ToServerOK, NEW s \in Sessions, Readable(s), Consume(s), NEW M, NEW t \in Sessions
  PROVE  /\ Fewer(toServer'[t], toServer[t], M)
         /\ Head(toServer[s]) \in ToServer
         /\ /\ t = s /\ Head(toServer[s]) \in M /\ Head(toServer[s]).type # "close"
            /\ Once(toServer[t], M)
            => ~Has(toServer'[t], M)
         /\ Head(toServer[s]) \notin M => (Has(toServer'[t], M) <=> Has(toServer[t], M))
<1>1. toServer[s] \in Seq(ToServer) /\ toServer[s] # <<>> /\ Head(toServer[s]) \in ToServer
  BY DEF ToServerOK, Readable
<1>2. CASE Head(toServer[s]).type = "close"
  BY <1>1, <1>2 DEF Consume, Fewer
<1>3. CASE Head(toServer[s]).type # "close"
  <2>1. toServer'[t] = IF t = s THEN Tail(toServer[s]) ELSE toServer[t]
    BY <1>3 DEF Consume, ToServerOK
  <2> QED BY <1>1, <1>3, <2>1, TailHas DEF Fewer
<1> QED BY <1>2, <1>3

LEMMA Taken ==
  ASSUME ToClientOK, NEW s \in Sessions, toClient[s] # <<>>, Take(s), NEW M, NEW t \in Sessions
  PROVE  /\ Fewer(toClient'[t], toClient[t], M)
         /\ Head(toClient[s]) \in ToClient
         /\ Has(toClient[t], M) <=> Has(toClient'[t], M) \/ (t = s /\ Head(toClient[s]) \in M)
         /\ t = s /\ Head(toClient[s]) \in M /\ Once(toClient[t], M) => ~Has(toClient'[t], M)
<1>1. toClient[s] \in Seq(ToClient) /\ Head(toClient[s]) \in ToClient
  BY DEF ToClientOK
<1>2. toClient'[t] = IF t = s THEN Tail(toClient[s]) ELSE toClient[t]
  BY DEF Take, ToClientOK
<1> QED BY <1>1, <1>2, TailHas DEF Fewer

------------------------------------------------------------------------------
(* Most steps are calm for c: they begin nothing of its own, and end a      *)
(* state of it only with the message it waits for.                          *)

ServerCalm(c) ==
  /\ Fewer(toServer'[c], toServer[c], Asking) /\ Fewer(toServer'[c], toServer[c], AcceptOf(c))
  /\ \A t \in Sessions : Fewer(toServer'[t], toServer[t], AnswersTo(c))

ClientCalm(c) ==
  /\ Fewer(toClient'[c], toClient[c], Ending)
  /\ \A t \in Sessions : Fewer(toClient'[t], toClient[t], RequestOf(c))

PeerCalm(c) ==
  /\ left \subseteq left'
  /\ \/ c \in left'
     \/ peer'[c] = peer[c]
     \/ peer'[c] \in {"waiting", "ready"}
     \/ peer[c] \notin {"waiting", "ready"}
     \/ Has(toClient[c], Ending) /\ ~Has(toClient'[c], Ending)

\* a handshake of c is one it had, at the same step or further
HandCalm(c) ==
  \A h \in DOMAIN hand' : c \in {hand'[h].c1, hand'[h].c2} =>
    /\ h \in DOMAIN hand
    /\ hand'[h].c1 = hand[h].c1 /\ hand'[h].c2 = hand[h].c2
    /\ c \in Served(h)' => c \in Served(h)
    /\ hand'[h].at \in LivePc => hand[h].at \in LivePc

ListCalm(c) ==
  /\ \A t \in Sessions : Shown(c, t)' => Shown(c, t)
  /\ \A t \in Sessions : requestBy[t] \subseteq requestBy'[t]

LEMMA HandKept ==
  ASSUME NEW c, Engaged(c), HandCalm(c)
  PROVE  /\ Paired(c)' /\ (InHand(c)' => InHand(c))
         /\ \A h \in DOMAIN hand' : c \in Served(h)' => h \in DOMAIN hand /\ c \in Served(h)
<1>1. \A h \in DOMAIN hand' : c \in Served(h)' => c \in {hand'[h].c1, hand'[h].c2}
  BY DEF Served
<1>2. InHand(c)' => InHand(c)
  BY DEF HandCalm, InHand
<1>3. \A h \in DOMAIN hand' : c \in Served(h)' => h \in DOMAIN hand /\ c \in Served(h)
  BY <1>1 DEF HandCalm
<1>4. Paired(c)'
  BY <1>3 DEF HandCalm, Engaged, Paired
<1> QED BY <1>2, <1>3, <1>4

LEMMA CalmStep ==
  ASSUME NEW c \in Sessions, Engaged(c), ServerCalm(c), ClientCalm(c), PeerCalm(c),
         HandCalm(c), ListCalm(c), Marked(c)'
  PROVE  Engaged(c)' /\ FewerAsks(c)
<1>1. \A t \in Sessions : /\ Sent(c, t)' => Sent(c, t)
                          /\ Shown(c, t)' => Shown(c, t)
                          /\ Replied(c, t)' => Replied(c, t)
  BY DEF Sent, Replied, ServerCalm, ClientCalm, ListCalm, Fewer
<1>2. \A t \in Sessions : Asked(c, t)' => Asked(c, t)
  BY <1>1, AskedPlaces
<1>3. Pends(c)' => Pends(c)
  BY <1>2 DEF Pends
<1>4. Paired(c)' /\ (InHand(c)' => InHand(c))
  BY HandKept
<1>5. Asks(c)' => Asks(c)
  BY DEF Asks, ServerCalm, Fewer
<1>6. Ended(c)' => Ended(c)
  BY DEF Ended, ClientCalm, PeerCalm, Fewer
<1>7. Queues(c)'
  BY DEF Queues, Engaged, ServerCalm, ClientCalm, PeerCalm, Fewer
<1>8. OnePlace(c)'
  BY <1>1, <1>2 DEF OnePlace, Engaged
<1>9. Exclusive(c)'
  BY <1>3, <1>4, <1>5, <1>6 DEF Exclusive, Engaged
<1>10. Waits(c)'
  <2> SUFFICES ASSUME c \notin left', ~Idle(c)' PROVE peer'[c] \in {"waiting", "ready"}
    BY DEF Waits
  <2>1. c \notin left /\ ~Idle(c)
    BY <1>3, <1>4, <1>5, <1>6 DEF Idle, PeerCalm
  <2>2. peer[c] \in {"waiting", "ready"}
    BY <2>1 DEF Waits, Engaged
  <2>3. ASSUME Has(toClient[c], Ending), ~Has(toClient'[c], Ending) PROVE FALSE
    <3>1. Ended(c) /\ ~Ended(c)'
      BY <2>1, <2>3 DEF Ended
    <3>2. Asks(c)' \/ Pends(c)' \/ InHand(c)'
      BY <3>1 DEF Idle
    <3> QED BY <1>3, <1>4, <1>5, <3>1, <3>2 DEF Exclusive, Engaged
  <2> QED BY <2>2, <2>3 DEF PeerCalm
<1>11. Recorded(c)'
  BY <1>2 DEF Recorded, Engaged, ListCalm, ServerCalm, Fewer
<1>12. Unserved(c)'
  BY <1>3, HandKept DEF Unserved, Engaged
<1> QED BY <1>2, <1>4, <1>7, <1>8, <1>9, <1>10, <1>11, <1>12 DEF Engaged, FewerAsks

(* Ways of writing the queues that are calm.                                *)
LEMMA PostCalm ==
  ASSUME ToServerOK, NEW s \in Sessions, NEW m \in ToServer, Post(s, m), NEW c \in Sessions,
         m.type \in {"request", "accept"} => s # c,
         m.type \in {"accept", "reject"} => m.peer # UserOf[c]
  PROVE  ServerCalm(c)
<1>1. /\ s # c \/ m \notin Asking
      /\ m \notin AcceptOf(c) /\ m \notin AnswersTo(c)
  BY Kinds
<1> QED BY <1>1, Posted DEF ServerCalm

LEMMA ConsumeCalm ==
  ASSUME ToServerOK, NEW s \in Sessions, Readable(s), Consume(s), NEW c \in Sessions
  PROVE  ServerCalm(c)
BY Consumed DEF ServerCalm

LEMMA TellCalm ==
  ASSUME ToClientOK, NEW s \in Sessions, NEW m \in ToClient, Tell(s, m), NEW c \in Sessions,
         m.type \in {"reject", "try"} => s # c,
         m.type = "request_in" => m.peer # UserOf[c]
  PROVE  ClientCalm(c)
<1>1. (s # c \/ m \notin Ending) /\ m \notin RequestOf(c)
  BY Kinds
<1> QED BY <1>1, Told DEF ClientCalm

LEMMA TakeCalm ==
  ASSUME ToClientOK, NEW s \in Sessions, toClient[s] # <<>>, Take(s), NEW c \in Sessions
  PROVE  ClientCalm(c)
BY Taken DEF ClientCalm

LEMMA SameCalm ==
  ASSUME NEW c
  PROVE  /\ UNCHANGED toServer => ServerCalm(c)
         /\ UNCHANGED toClient => ClientCalm(c)
         /\ UNCHANGED <<left, peer>> => PeerCalm(c)
         /\ UNCHANGED hand => HandCalm(c)
         /\ UNCHANGED <<invites, requestBy>> => ListCalm(c)
BY DEF ServerCalm, ClientCalm, PeerCalm, HandCalm, ListCalm, Fewer, Shown, Served

\* a client in a handshake stays marked and listed
LEMMA MarkStays ==
  ASSUME NEW c, Marked(c), UNCHANGED <<etat, hand>>,
         etat[c] = "TRY_CONNECTION" /\ c \in Range(clients) => c \in Range(clients')
  PROVE  Marked(c)'
BY DEF Marked, Served

------------------------------------------------------------------------------
(* The steps of the server's other threads and of the users.                *)
LEMMA CalmStart ==
  ASSUME TypeOK, NEW c \in Sessions, Engaged(c), NEW s \in Sessions,
         Connect(s) \/ AcceptFails(s) \/ Start(s)
  PROVE  Engaged(c)' /\ FewerAsks(c)
<1>1. Shape /\ ListOK /\ ToServerOK /\ ToClientOK
  BY TypeParts
<1>2. PeerCalm(c) /\ HandCalm(c) /\ ListCalm(c)
  BY SameCalm DEF Connect, AcceptFails, Start, StartLogin, StartRefuse, StartClosed, StartWelcome
<1>3. ServerCalm(c)
  <2>1. CASE StartLogin(s) \/ StartRefuse(s)
    BY <1>1, <2>1, ConsumeCalm DEF StartLogin, StartRefuse
  <2>2. CASE ~StartLogin(s) /\ ~StartRefuse(s)
    BY <2>2, SameCalm DEF Connect, AcceptFails, Start, StartClosed, StartWelcome
  <2> QED BY <2>1, <2>2
<1>4. ClientCalm(c)
  <2>1. CASE StartRefuse(s) \/ StartWelcome(s)
    <3>1. PICK m \in ToClient : Tell(s, m) /\ m.type \in {"ok", "ko"}
      BY <2>1, ToClientTypes DEF StartRefuse, StartWelcome
    <3> QED BY <1>1, <3>1, TellCalm
  <2>2. CASE ~StartRefuse(s) /\ ~StartWelcome(s)
    BY <2>2, SameCalm DEF Connect, AcceptFails, Start, StartClosed, StartLogin
  <2> QED BY <2>1, <2>2
<1>5. Range(clients) \subseteq Range(clients')
  <2>1. CASE StartLogin(s)
    <3>1. s \notin Range(clients) /\ clients' = Append(clients, s)
      BY <1>1, <2>1 DEF StartLogin, ListOK
    <3> QED BY <1>1, <3>1, AddInjective DEF ListOK
  <2>2. CASE ~StartLogin(s)
    BY <2>2 DEF Connect, AcceptFails, Start, StartClosed, StartRefuse, StartWelcome
  <2> QED BY <2>1, <2>2
<1>6. UNCHANGED <<etat, hand>>
  BY DEF Connect, AcceptFails, Start, StartLogin, StartRefuse, StartClosed, StartWelcome
<1>7. Marked(c)'
  BY <1>5, <1>6, MarkStays DEF Engaged
<1> QED BY <1>2, <1>3, <1>4, <1>7, CalmStep

\* what a user does that is not about c
Elsewhere(c, s, u) ==
  \/ \E good \in BOOLEAN : UserConnect(s, good)
  \/ UserList(s) \/ UserLeave(s) \/ ChatEnds(s)
  \/ s # c /\ (UserCancel(s) \/ UserRequest(s, u))
  \/ u # UserOf[c] /\ ((s # c /\ UserAccept(s, u)) \/ UserReject(s, u))

LEMMA CalmUser ==
  ASSUME TypeOK, NEW c \in Sessions, Engaged(c), NEW s \in Sessions, NEW u \in Users,
         Elsewhere(c, s, u)
  PROVE  Engaged(c)' /\ FewerAsks(c)
<1>1. ToServerOK /\ ClientOK /\ InvitesOK
  BY TypeParts
<1>2. HandCalm(c) /\ ClientCalm(c) /\ UNCHANGED <<clients, etat, hand, requestBy>>
  BY SameCalm DEF Elsewhere, UserConnect, UserList, UserLeave, ChatEnds, UserCancel, UserRequest,
                  UserAccept, UserReject
<1>3. Marked(c)'
  BY <1>2, MarkStays DEF Engaged
<1>4. ServerCalm(c)
  <2>1. CASE ChatEnds(s) \/ UserCancel(s)
    BY <2>1, SameCalm DEF ChatEnds, UserCancel
  <2>2. CASE ~ChatEnds(s) /\ ~UserCancel(s)
    <3>1. PICK m \in ToServer :
            /\ Post(s, m)
            /\ \/ m.type \in {"connect", "list", "close"}
               \/ s # c /\ m.type = "request"
               \/ u # UserOf[c] /\ m.peer = u /\ (m.type = "reject" \/ (s # c /\ m.type = "accept"))
      BY <2>2, ToServerTypes DEF Elsewhere, UserConnect, UserList, UserLeave, Leaves, UserRequest,
                                 UserAccept, UserReject
    <3> QED BY <1>1, <3>1, PostCalm
  <2> QED BY <2>1, <2>2
<1>5. PeerCalm(c)
  <2>1. CASE UserLeave(s)
    BY <1>1, <2>1 DEF UserLeave, Leaves, PeerCalm, ClientOK
  <2>2. CASE ChatEnds(s)
    BY <1>1, <2>2 DEF ChatEnds, PeerTo, PeerCalm, ClientOK
  <2>3. CASE s # c /\ (UserCancel(s) \/ UserRequest(s, u) \/ UserAccept(s, u))
    BY <1>1, <2>3 DEF UserCancel, UserRequest, UserAccept, PeerCalm, ClientOK
  <2>4. CASE UserReject(s, u) \/ UserList(s) \/ \E good \in BOOLEAN : UserConnect(s, good)
    BY <2>4, SameCalm DEF UserConnect, UserList, UserReject
  <2> QED BY <2>1, <2>2, <2>3, <2>4 DEF Elsewhere
<1>6. ListCalm(c)
  <2>1. CASE UserAccept(s, u) \/ UserReject(s, u)
    BY <1>1, <1>2, <2>1 DEF UserAccept, UserReject, ListCalm, Shown, InvitesOK
  <2>2. CASE ~UserAccept(s, u) /\ ~UserReject(s, u)
    BY <2>2, SameCalm DEF Elsewhere, UserConnect, UserList, UserLeave, ChatEnds, UserCancel,
                          UserRequest
  <2> QED BY <2>1, <2>2
<1> QED BY <1>2, <1>3, <1>4, <1>5, <1>6, CalmStep

(* The user of c begins a request, or accepts that of another.              *)
LEMMA BeginAsking ==
  ASSUME TypeOK, NEW c \in Sessions, Engaged(c), NEW u \in Users,
         UserRequest(c, u) \/ (u # UserOf[c] /\ UserAccept(c, u))
  PROVE  Engaged(c)' /\ FewerAsks(c)
<1>1. ToServerOK /\ ClientOK /\ InvitesOK
  BY TypeParts
<1>2. PICK m \in ToServer : /\ Post(c, m)
                            /\ m.type = "request" \/ (m.type = "accept" /\ m.peer # UserOf[c])
  BY ToServerTypes DEF UserRequest, UserAccept
<1>3. m \in Asking /\ m \notin AcceptOf(c) /\ m \notin AnswersTo(c)
  BY <1>2, Kinds
<1>4. c \notin left /\ Idle(c) /\ left' = left /\ peer'[c] = "waiting"
  BY <1>1 DEF UserRequest, UserAccept, Command, Present, Engaged, Waits, ClientOK
<1>5. /\ HandCalm(c) /\ UNCHANGED <<clients, etat, hand, toClient, requestBy>>
      /\ \A t \in Sessions : Shown(c, t)' => Shown(c, t)
  BY <1>1, SameCalm DEF UserRequest, UserAccept, Shown, InvitesOK
<1>6. /\ Once(toServer'[c], Asking) /\ ~Has(toServer'[c], AcceptOf(c))
      /\ \A t \in Sessions : Once(toServer'[t], AnswersTo(c)) /\ (Replied(c, t)' => Replied(c, t))
  BY <1>1, <1>2, <1>3, <1>4, Posted DEF Asks, Replied, Idle, Engaged, Queues, Recorded
<1>7. FewerAsks(c) /\ \A t \in Sessions : ~Asked(c, t)'
  BY <1>4, <1>5, <1>6, AskedPlaces DEF FewerAsks, Sent, Idle, Pends
<1>8. ~Pends(c)' /\ ~InHand(c)' /\ ~Ended(c)'
  BY <1>4, <1>5, <1>7, HandKept DEF Pends, Ended, Idle
<1>9. Queues(c)'
  BY <1>4, <1>5, <1>6 DEF Queues, Engaged
<1>10. OnePlace(c)'
  BY <1>7, AskedPlaces DEF OnePlace
<1>11. Exclusive(c)' /\ Waits(c)' /\ Unserved(c)'
  BY <1>4, <1>8 DEF Exclusive, Waits, Unserved
<1>12. Recorded(c)'
  BY <1>6, <1>7 DEF Recorded, Engaged
<1>13. Paired(c)' /\ Marked(c)'
  BY <1>5, HandKept, MarkStays DEF Engaged
<1> QED BY <1>7, <1>9, <1>10, <1>11, <1>12, <1>13 DEF Engaged

(* A request of c changes places: it is asked of the same client.           *)
LEMMA MovedStep ==
  ASSUME NEW c \in Sessions, Engaged(c),
         \A t \in Sessions : Asked(c, t)' <=> Asked(c, t),
         Queues(c)', OnePlace(c)', ~Has(toServer'[c], AcceptOf(c)),
         Asks(c)' <=> Asks(c), Has(toClient'[c], Ending) <=> Has(toClient[c], Ending),
         peer'[c] = peer[c], UNCHANGED <<left, clients, etat, hand, requestBy>>
  PROVE  Engaged(c)' /\ FewerAsks(c)
<1>1. HandCalm(c)
  BY SameCalm
<1>2. /\ Pends(c)' <=> Pends(c)
      /\ InHand(c)' <=> InHand(c)
      /\ Ended(c)' <=> Ended(c)
  BY DEF Pends, InHand, Ended
<1>3. Exclusive(c)' /\ Waits(c)'
  BY <1>2 DEF Exclusive, Waits, Idle, Engaged
<1>4. Recorded(c)'
  BY DEF Recorded, Engaged
<1>5. Paired(c)' /\ Marked(c)'
  BY <1>1, HandKept, MarkStays DEF Engaged
<1>6. Unserved(c)'
  BY <1>1, <1>2, HandKept DEF Unserved, Engaged
<1> QED BY <1>3, <1>4, <1>5, <1>6 DEF Engaged, FewerAsks

(* The user who was shown the request of c answers it.                      *)
LEMMA MoveAnswer ==
  ASSUME TypeOK, NEW c \in Sessions \ strayed', Engaged(c), NEW s \in Sessions,
         UserAccept(s, UserOf[c]) \/ UserReject(s, UserOf[c])
  PROVE  Engaged(c)' /\ FewerAsks(c)
<1>1. ToServerOK /\ ClientOK /\ InvitesOK
  BY TypeParts
<1>2. Shown(c, s)
  BY DEF UserAccept, UserReject, Answers, Namesakes, Shown
<1>3. Asked(c, s) /\ Pends(c) /\ ~Sent(c, s) /\ ~Replied(c, s)
  BY <1>2, AskedPlaces DEF Pends, Engaged, OnePlace
<1>4. s \notin left /\ (UserAccept(s, UserOf[c]) => s # c)
  BY <1>3 DEF UserAccept, UserReject, Command, Present, Engaged, Waits, Idle
<1>5. PICK m \in ToServer : /\ Post(s, m) /\ m.peer = UserOf[c]
                            /\ m.type = "reject" \/ (s # c /\ m.type = "accept")
  BY <1>4, UserIsUser, ToServerTypes DEF UserAccept, UserReject
<1>6. m \in AnswersTo(c) /\ (s # c \/ m \notin Asking) /\ (s # c \/ m \notin AcceptOf(c))
  BY <1>5, Kinds
<1>7. /\ UNCHANGED <<left, clients, etat, hand, requestBy, toClient>> /\ peer'[c] = peer[c]
      /\ invites' = [invites EXCEPT ![s] = @ \ {UserOf[c]}]
  BY <1>1, <1>4 DEF UserAccept, UserReject, ClientOK
<1>8. /\ Asks(c)' <=> Asks(c)
      /\ Once(toServer'[c], Asking) /\ ~Has(toServer'[c], AcceptOf(c))
      /\ \A t \in Sessions : /\ Once(toServer'[t], AnswersTo(c))
                             /\ Replied(c, t)' <=> Replied(c, t) \/ t = s
  BY <1>1, <1>3, <1>5, <1>6, Posted DEF Asks, Replied, Engaged, Queues, Recorded
<1>9. \A t \in Sessions : /\ Shown(c, t)' <=> Shown(c, t) /\ t # s
                          /\ Sent(c, t)' <=> Sent(c, t)
  BY <1>1, <1>7 DEF Shown, Sent, InvitesOK
<1>10. \A t \in Sessions : Asked(c, t)' <=> Asked(c, t)
  BY <1>2, <1>8, <1>9, AskedPlaces
<1>11. Queues(c)'
  BY <1>7, <1>8 DEF Queues, Engaged
<1>12. OnePlace(c)'
  BY <1>3, <1>8, <1>9, <1>10 DEF OnePlace, Engaged
<1> QED BY <1>7, <1>8, <1>10, <1>11, <1>12, MovedStep

------------------------------------------------------------------------------
(* The client's threads.                                                    *)

(* A request is shown to the user.                                          *)
LEMMA ShowRequest ==
  ASSUME TypeOK, NEW c \in Sessions, Engaged(c), NEW s \in Sessions, ClientInvited(s)
  PROVE  Engaged(c)' /\ FewerAsks(c)
<1>1. ToClientOK /\ InvitesOK
  BY TypeParts
<1>2. toClient[s] # <<>> /\ Take(s) /\ Head(toClient[s]).type = "request_in"
  BY DEF ClientInvited, Arrives
<1>3. PICK m \in ToClient : m = Head(toClient[s]) /\ m.type = "request_in"
  BY <1>1, <1>2, Taken
<1>4. m \notin Ending /\ (m \in RequestOf(c) <=> m.peer = UserOf[c])
  BY <1>3, Kinds
<1>5. /\ UNCHANGED <<clients, etat, hand, toServer, requestBy, left, peer>>
      /\ ServerCalm(c) /\ PeerCalm(c) /\ HandCalm(c)
      /\ invites' = [invites EXCEPT ![s] = @ \union {m.peer}]
  BY <1>3, SameCalm DEF ClientInvited
<1>6. CASE m.peer # UserOf[c]
  <2>1. ClientCalm(c)
    BY <1>1, <1>2, TakeCalm
  <2>2. ListCalm(c)
    BY <1>1, <1>5, <1>6 DEF ListCalm, Shown, InvitesOK
  <2>3. Marked(c)'
    BY <1>5, MarkStays DEF Engaged
  <2> QED BY <1>5, <2>1, <2>2, <2>3, CalmStep
<1>7. CASE m.peer = UserOf[c]
  <2>1. /\ Has(toClient'[c], Ending) <=> Has(toClient[c], Ending)
        /\ Once(toClient[c], Ending) => Once(toClient'[c], Ending)
        /\ \A t \in Sessions : Once(toClient'[t], RequestOf(c))
                               /\ (Sent(c, t)' <=> Sent(c, t) /\ t # s)
        /\ Sent(c, s)
    BY <1>1, <1>2, <1>3, <1>4, <1>7, Taken DEF Sent, Engaged, Queues, Fewer
  <2>2. \A t \in Sessions : /\ Shown(c, t)' <=> Shown(c, t) \/ t = s
                            /\ Replied(c, t)' <=> Replied(c, t)
    BY <1>1, <1>5, <1>7 DEF Shown, Replied, InvitesOK
  <2>3. \A t \in Sessions : Asked(c, t)' <=> Asked(c, t)
    BY <2>1, <2>2, AskedPlaces
  <2>4. Queues(c)'
    BY <1>5, <2>1 DEF Queues, Engaged
  <2>5. OnePlace(c)'
    BY <2>1, <2>2, <2>3 DEF OnePlace, Engaged
  <2>6. (Asks(c)' <=> Asks(c)) /\ ~Has(toServer'[c], AcceptOf(c))
    BY <1>5 DEF Asks, Engaged, Recorded
  <2> QED BY <1>5, <2>1, <2>3, <2>4, <2>5, <2>6, MovedStep
<1> QED BY <1>6, <1>7

LEMMA CalmClient ==
  ASSUME TypeOK, NEW c \in Sessions, Engaged(c), NEW s \in Sessions,
         \/ ClientAnswered(s) \/ ClientRejected(s) \/ ClientInfos(s)
         \/ ClientTry(s) \/ ClientAborts(s) \/ ClientDrops(s)
  PROVE  Engaged(c)' /\ FewerAsks(c)
<1>1. ToServerOK /\ ToClientOK /\ ClientOK
  BY TypeParts
<1>2. HandCalm(c) /\ ListCalm(c) /\ UNCHANGED <<clients, etat, hand>>
  BY SameCalm
     DEF ClientAnswered, ClientRejected, ClientInfos, ClientTry, ClientAborts, ClientDrops
<1>3. Marked(c)'
  BY <1>2, MarkStays DEF Engaged
<1>4. ServerCalm(c)
  <2>1. CASE ClientInfos(s) \/ ClientAborts(s)
    <3>1. PICK m \in ToServer : Post(s, m) /\ m.type \in {"infos", "close"}
      BY <2>1, ToServerTypes DEF ClientInfos, ClientAborts, Leaves
    <3> QED BY <1>1, <3>1, PostCalm
  <2>2. CASE ~ClientInfos(s) /\ ~ClientAborts(s)
    BY <2>2, SameCalm DEF ClientAnswered, ClientRejected, ClientTry, ClientDrops
  <2> QED BY <2>1, <2>2
<1>5. ClientCalm(c)
  <2>1. CASE ClientAborts(s)
    BY <2>1, SameCalm DEF ClientAborts
  <2>2. CASE ~ClientAborts(s)
    <3>1. toClient[s] # <<>> /\ Take(s)
      BY <2>2 DEF ClientAnswered, ClientRejected, ClientInfos, ClientTry, ClientDrops, Arrives
    <3> QED BY <1>1, <3>1, TakeCalm
  <2> QED BY <2>1, <2>2
<1>6. PeerCalm(c)
  <2>1. CASE ClientRejected(s) \/ ClientTry(s)
    <3>1. toClient[s] # <<>> /\ Take(s) /\ Head(toClient[s]).type \in {"reject", "try"}
      BY <2>1 DEF ClientRejected, ClientTry, Arrives
    <3>2. Head(toClient[s]) \in Ending
      BY <1>1, <3>1, Taken, Kinds
    <3>3. UNCHANGED left /\ s \notin left /\ (s # c => peer'[c] = peer[c])
      BY <1>1, <2>1 DEF ClientRejected, ClientTry, Arrives, Present, PeerTo, ClientOK
    <3>4. CASE s = c
      <4>1. Has(toClient[c], Ending) /\ ~Has(toClient'[c], Ending)
        BY <1>1, <3>1, <3>2, <3>3, <3>4, Taken DEF Engaged, Queues
      <4> QED BY <3>3, <4>1 DEF PeerCalm
    <3> QED BY <3>3, <3>4 DEF PeerCalm
  <2>2. CASE ClientInfos(s) \/ ClientAborts(s)
    BY <1>1, <2>2 DEF ClientInfos, ClientAborts, Leaves, PeerTo, PeerCalm, ClientOK
  <2>3. CASE ClientAnswered(s) \/ ClientDrops(s)
    BY <2>3, SameCalm DEF ClientAnswered, ClientDrops
  <2> QED BY <2>1, <2>2, <2>3
<1> QED BY <1>2, <1>3, <1>4, <1>5, <1>6, CalmStep

------------------------------------------------------------------------------
(* What requestHandler reads: a message of a client x that no handshake     *)
(* serves.                                                                  *)
Read(x, m) ==
  /\ x \in Range(clients) /\ etat[x] # "TRY_CONNECTION"
  /\ Readable(x) /\ m = Head(toServer[x])
  /\ \A M : m \in M => Has(toServer[x], M)

LEMMA ReadFacts ==
  ASSUME TypeOK, NEW type, Reads(type)
  PROVE  \E x \in Sessions, m \in ToServer :
           x = Scanned /\ m = Request /\ m.type = type /\ Read(x, m)
<1>1. Shape /\ ToServerOK
  BY TypeParts
<1>2. PICK x \in Sessions : x = Scanned
  BY <1>1, ScannedSession DEF Reads
<1>3. /\ x \in Range(clients) /\ etat[x] # "TRY_CONNECTION"
      /\ Readable(x) /\ Head(toServer[x]).type = type
  BY <1>1, <1>2 DEF Reads, Request, Scans, Scanned, Range, Shape
<1>4. Head(toServer[x]) \in ToServer /\ toServer[x] \in Seq(ToServer) /\ toServer[x] # <<>>
  BY <1>1, <1>3 DEF ToServerOK, Readable
<1>5. \A M : Head(toServer[x]) \in M => Has(toServer[x], M)
  BY <1>4, TailHas
<1>6. Request = Head(toServer[x])
  BY <1>2 DEF Request
<1> QED BY <1>2, <1>3, <1>4, <1>5, <1>6 DEF Read

\* x is read, and no handshake serves it
LEMMA ReadUnserved ==
  ASSUME NEW c, Engaged(c), NEW m, Read(c, m)
  PROVE  \A h \in DOMAIN hand : c \notin Served(h)
BY DEF Read, Engaged, Marked

LEMMA CalmRh ==
  ASSUME TypeOK, NEW c \in Sessions, Engaged(c),
         \/ RhWait \/ RhSkip \/ RhScanned \/ RhClosed \/ RhAcceptGone
         \/ RhRejectFails \/ RhAvailable \/ RhDrop
  PROVE  Engaged(c)' /\ FewerAsks(c)
<1>1. Shape /\ ListOK /\ ToServerOK /\ ToClientOK
  BY TypeParts
<1>2. PeerCalm(c) /\ HandCalm(c) /\ ListCalm(c) /\ UNCHANGED <<etat, hand>>
  BY SameCalm
     DEF RhWait, RhSkip, RhScanned, RhClosed, RhAcceptGone, RhRejectFails, RhAvailable,
         RhDrop, RhNext
<1>3. ClientCalm(c)
  <2>1. CASE RhAvailable
    <3>1. PICK x \in Sessions : Tell(x, [type |-> "available"])
      BY <2>1, ReadFacts DEF RhAvailable
    <3>2. PICK n \in ToClient : n.type = "available" /\ Tell(x, n)
      BY <3>1, ToClientTypes
    <3> QED BY <1>1, <3>2, TellCalm
  <2>2. CASE ~RhAvailable
    BY <2>2, SameCalm
       DEF RhWait, RhSkip, RhScanned, RhClosed, RhAcceptGone, RhRejectFails, RhDrop, RhNext
  <2> QED BY <2>1, <2>2
<1>4. ServerCalm(c)
  <2>1. CASE RhAvailable \/ RhDrop
    <3>1. PICK type : Reads(type) /\ Consume(Scanned)
      BY <2>1 DEF RhAvailable, RhDrop
    <3>2. PICK x \in Sessions : Readable(x) /\ Consume(x)
      BY <3>1, ReadFacts DEF Read
    <3> QED BY <1>1, <3>2, ConsumeCalm
  <2>2. CASE ~RhAvailable /\ ~RhDrop
    BY <2>2, SameCalm DEF RhWait, RhSkip, RhScanned, RhClosed, RhAcceptGone, RhRejectFails
  <2> QED BY <2>1, <2>2
<1>5. \A s \in Range(clients) : etat[s] = "TRY_CONNECTION" => s \in Range(clients')
  <2>1. CASE RhClosed
    <3>1. PICK k \in DOMAIN clients : k = rh
      BY <2>1 DEF RhClosed, Reads, Scans
    <3>2. clients' = RemoveAt(clients, k) /\ etat[clients[k]] # "TRY_CONNECTION"
      BY <2>1, <3>1 DEF RhClosed, Reads, Scanned
    <3>3. Range(clients') = Range(clients) \ {clients[k]}
      BY <1>1, <3>1, <3>2, DeleteInjective DEF ListOK
    <3> QED BY <3>2, <3>3
  <2>2. CASE ~RhClosed
    BY <2>2 DEF RhWait, RhSkip, RhScanned, RhAcceptGone, RhRejectFails, RhAvailable, RhDrop
  <2> QED BY <2>1, <2>2
<1>6. Marked(c)'
  BY <1>2, <1>5, MarkStays DEF Engaged
<1> QED BY <1>2, <1>3, <1>4, <1>6, CalmStep

(* c is told that its request is at an end: it was read, or it pended.      *)
LEMMA TellEnd ==
  ASSUME TypeOK, NEW c \in Sessions, Engaged(c), ServerCalm(c),
         NEW m \in ToClient, m.type = "reject", Tell(c, m),
         ~Asks(c)', ~InHand(c), ~Ended(c), ~Idle(c),
         \A t \in Sessions : ~Replied(c, t)' /\ ~Sent(c, t) /\ ~Shown(c, t),
         UNCHANGED <<clients, etat, hand, invites, requestBy, left, peer>>
  PROVE  Engaged(c)' /\ FewerAsks(c)
<1>1. ToClientOK
  BY TypeParts
<1>2. m \in Ending /\ m \notin RequestOf(c)
  BY Kinds
<1>3. HandCalm(c)
  BY SameCalm
<1>4. /\ c \notin left => Once(toClient'[c], Ending)
      /\ \A t \in Sessions : Fewer(toClient'[t], toClient[t], RequestOf(c))
  BY <1>1, <1>2, Told DEF Ended, Engaged, Queues
<1>5. \A t \in Sessions : ~Asked(c, t)'
  BY <1>4, AskedPlaces DEF Sent, Shown, Fewer
<1>6. ~Pends(c)' /\ ~InHand(c)'
  BY <1>3, <1>5, HandKept DEF Pends
<1>7. Queues(c)'
  BY <1>4 DEF Queues, Engaged, ServerCalm, Fewer
<1>8. OnePlace(c)'
  BY <1>5, AskedPlaces DEF OnePlace
<1>9. Exclusive(c)' /\ Unserved(c)'
  BY <1>6 DEF Exclusive, Unserved
<1>10. Waits(c)'
  BY DEF Waits, Engaged
<1>11. Recorded(c)'
  BY <1>5 DEF Recorded, Engaged, ServerCalm, Fewer
<1>12. Paired(c)' /\ Marked(c)'
  BY <1>3, HandKept, MarkStays DEF Engaged
<1> QED BY <1>5, <1>7, <1>8, <1>9, <1>10, <1>11, <1>12 DEF Engaged, FewerAsks

(* A request is refused: the requester is told.                             *)
LEMMA RefuseRequest ==
  ASSUME TypeOK, NEW c \in Sessions, Engaged(c), RhRequestRefused
  PROVE  Engaged(c)' /\ FewerAsks(c)
<1>1. ToClientOK /\ ToServerOK
  BY TypeParts
<1>2. PICK x \in Sessions, m \in ToServer :
        x = Scanned /\ m = Request /\ m.type = "request" /\ Read(x, m)
  BY ReadFacts DEF RhRequestRefused
<1>3. PICK n \in ToClient : n.type = "reject" /\ Tell(x, n)
  BY <1>2, ToClientTypes DEF RhRequestRefused
<1>4. /\ UNCHANGED <<clients, etat, hand, invites, requestBy, left, peer>>
      /\ HandCalm(c) /\ PeerCalm(c) /\ ListCalm(c)
  BY SameCalm DEF RhRequestRefused, RhNext
<1>5. Readable(x) /\ Consume(x)
  BY <1>2 DEF RhRequestRefused, Read
<1>6. ServerCalm(c)
  BY <1>1, <1>5, ConsumeCalm
<1>7. CASE x # c
  <2>1. ClientCalm(c) /\ Marked(c)'
    BY <1>1, <1>3, <1>4, <1>7, TellCalm, MarkStays DEF Engaged
  <2> QED BY <1>4, <1>6, <2>1, CalmStep
<1>8. CASE x = c
  <2>1. m \in Asking /\ Asks(c)
    BY <1>2, <1>8, Kinds DEF Read, Asks
  <2>2. ~Pends(c) /\ ~InHand(c) /\ ~Ended(c) /\ ~Idle(c)
    BY <2>1 DEF Engaged, Exclusive, Idle
  <2>3. ~Asks(c)'
    BY <1>1, <1>2, <1>5, <1>8, <2>1, Consumed DEF Asks, Read, Engaged, Queues
  <2>4. \A t \in Sessions : ~Replied(c, t)' /\ ~Sent(c, t) /\ ~Shown(c, t)
    BY <1>6, <2>2, AskedPlaces DEF Pends, Replied, ServerCalm, Fewer
  <2> QED BY <1>3, <1>4, <1>6, <1>8, <2>2, <2>3, <2>4, TellEnd
<1> QED BY <1>7, <1>8

(* A request is rejected: somebody is told, and if that is c its request    *)
(* pended.                                                                  *)
LEMMA RejectRequest ==
  ASSUME TypeOK, NEW c \in Sessions \ strayed', Engaged(c), RhReject
  PROVE  Engaged(c)' /\ FewerAsks(c)
<1>1. Shape /\ ToClientOK /\ ToServerOK
  BY TypeParts
<1>2. PICK x \in Sessions, m \in ToServer :
        x = Scanned /\ m = Request /\ m.type = "reject" /\ Read(x, m)
  BY ReadFacts DEF RhReject
<1>3. PICK i \in DOMAIN clients :
        /\ Tell(clients[i], [type |-> "reject"])
        /\ strayed' = strayed \union ({clients[i]} \ Namesakes(m.peer))
  BY <1>2 DEF RhReject
<1>4. PICK t \in Sessions, n \in ToClient : t = clients[i] /\ n.type = "reject" /\ Tell(t, n)
  BY <1>1, <1>3, ElementOfSeq, ToClientTypes DEF Shape
<1>5. /\ UNCHANGED <<clients, etat, hand, invites, requestBy, left, peer>>
      /\ HandCalm(c) /\ PeerCalm(c) /\ ListCalm(c)
  BY SameCalm DEF RhReject, RhNext
<1>6. Readable(x) /\ Consume(x)
  BY <1>2 DEF RhReject, Read
<1>7. ServerCalm(c)
  BY <1>1, <1>6, ConsumeCalm
<1>8. CASE t # c
  <2>1. ClientCalm(c) /\ Marked(c)'
    BY <1>1, <1>4, <1>5, <1>8, TellCalm, MarkStays DEF Engaged
  <2> QED BY <1>5, <1>7, <2>1, CalmStep
<1>9. CASE t = c
  <2>1. m \in AnswersTo(c)
    BY <1>2, <1>3, <1>4, <1>9, Kinds DEF Namesakes
  <2>2. Replied(c, x) /\ Asked(c, x) /\ Pends(c)
    BY <1>2, <2>1, AskedPlaces DEF Read, Replied, Pends
  <2>3. ~InHand(c) /\ ~Ended(c) /\ ~Idle(c) /\ ~Asks(c)
    BY <2>2 DEF Engaged, Exclusive, Idle
  <2>4. ~Replied(c, x)'
    BY <1>1, <1>2, <1>6, <2>1, Consumed DEF Replied, Read, Engaged, Queues
  <2>5. \A v \in Sessions : ~Replied(c, v)' /\ ~Sent(c, v) /\ ~Shown(c, v)
    BY <1>7, <2>2, <2>4, AskedPlaces DEF Engaged, OnePlace, Replied, ServerCalm, Fewer
  <2>6. ~Asks(c)'
    BY <1>7, <2>3 DEF Asks, ServerCalm, Fewer
  <2> QED BY <1>4, <1>5, <1>7, <1>9, <2>3, <2>5, <2>6, TellEnd
<1> QED BY <1>8, <1>9

LEMMA NamedSession ==
  ASSUME Shape, NEW u
  PROVE  \A t \in ClientsOf(u) : t \in Sessions /\ t \in Range(clients) /\ UserOf[t] = u
BY ElementOfSeq DEF ClientsOf, Named, Shape, Range

(* A request of x is passed on to v.                                        *)
Passes(x, v) ==
  /\ \E m \in ToServer : m.type = "request" /\ Read(x, m) /\ Consume(x)
  /\ v \in Range(clients) /\ etat[v] = "AVAILABLE"
  /\ \E n \in ToClient : n.type = "request_in" /\ n.peer = UserOf[x] /\ Tell(v, n)
  /\ requestBy' = [requestBy EXCEPT ![v] = @ \union {UserOf[x]}]
  /\ UNCHANGED <<clients, etat, hand, invites, left, peer, strayed>>

LEMMA RequestPasses ==
  ASSUME TypeOK, RhRequest
  PROVE  \E x, v \in Sessions : Passes(x, v)
<1>1. Shape
  BY TypeParts
<1>2. PICK x \in Sessions, m \in ToServer :
        x = Scanned /\ m = Request /\ m.type = "request" /\ Read(x, m)
  BY ReadFacts DEF RhRequest
<1>3. PICK v \in Sessions :
        /\ v \in Range(clients) /\ etat[v] = "AVAILABLE"
        /\ requestBy' = [requestBy EXCEPT ![v] = @ \union {UserOf[x]}]
        /\ Tell(v, [type |-> "request_in", peer |-> UserOf[x]])
  BY <1>1, <1>2, NamedSession DEF RhRequest
<1>4. \E n \in ToClient : n.type = "request_in" /\ n.peer = UserOf[x] /\ Tell(v, n)
  BY <1>3, UserIsUser, ToClientTypes
<1>5. Consume(x) /\ UNCHANGED <<clients, etat, hand, invites, left, peer, strayed>>
  BY <1>2 DEF RhRequest, RhNext
<1> QED BY <1>2, <1>3, <1>4, <1>5 DEF Passes

(* It is now x that has asked for v, if v is there; nobody else has.        *)
LEMMA PassRequest ==
  ASSUME TypeOK, NEW x \in Sessions, NEW v \in Sessions, Passes(x, v),
         NEW c \in Sessions, Engaged(c)
  PROVE  /\ Engaged(c)'
         /\ c # x => \A t \in Sessions : Asked(c, t)' <=> Asked(c, t)
         /\ c = x => /\ ~Pends(x)
                     /\ \A t \in Sessions : Asked(x, t)' <=> t = v /\ v \notin left
<1>1. Shape /\ ToClientOK /\ ToServerOK /\ ServerOK
  BY TypeParts
<1>2. PICK m \in ToServer : m.type = "request" /\ Read(x, m) /\ Consume(x)
  BY DEF Passes
<1>3. PICK n \in ToClient : n.type = "request_in" /\ n.peer = UserOf[x] /\ Tell(v, n)
  BY DEF Passes
<1>4. m \in Asking /\ m \notin AcceptOf(c) /\ m \notin AnswersTo(c) /\ n \notin Ending
  BY <1>2, <1>3, Kinds
<1>5. n \in RequestOf(c) <=> c = x
  BY <1>3, Kinds DEF Engaged, Recorded
<1>6. /\ UNCHANGED <<clients, etat, hand, invites, left, peer>>
      /\ HandCalm(c) /\ PeerCalm(c) /\ Marked(c)'
  BY SameCalm, MarkStays DEF Passes, Engaged
<1>7. Readable(x) /\ m = Head(toServer[x]) /\ ServerCalm(c)
  BY <1>1, <1>2, ConsumeCalm DEF Read
<1>8. \A t \in Sessions : requestBy[t] \subseteq requestBy'[t]
  BY <1>1 DEF Passes, ServerOK
<1>9. \A t \in Sessions : /\ Replied(c, t)' <=> Replied(c, t)
                          /\ Shown(c, t)' <=> Shown(c, t)
                          /\ Sent(c, t)' <=> Sent(c, t) \/ (c = x /\ t = v /\ v \notin left)
  BY <1>1, <1>2, <1>3, <1>4, <1>5, <1>6, <1>7, Consumed, Told DEF Replied, Shown, Sent
<1>10. CASE c # x
  <2>1. ClientCalm(c) /\ ListCalm(c)
    BY <1>1, <1>3, <1>4, <1>5, <1>6, <1>8, <1>10, Told DEF ClientCalm, ListCalm, Shown
  <2>2. \A t \in Sessions : Asked(c, t)' <=> Asked(c, t)
    BY <1>9, <1>10, AskedPlaces
  <2> QED BY <1>6, <1>7, <1>10, <2>1, <2>2, CalmStep
<1>11. CASE c = x
  <2>1. Asks(c) /\ ~Pends(c) /\ ~InHand(c) /\ ~Ended(c) /\ ~Idle(c)
    BY <1>2, <1>4, <1>11 DEF Read, Asks, Engaged, Exclusive, Idle
  <2>2. \A t \in Sessions : ~Asked(c, t) /\ ~Sent(c, t) /\ ~Shown(c, t) /\ ~Replied(c, t)
    BY <2>1, AskedPlaces DEF Pends
  <2>3. \A t \in Sessions : Asked(c, t)' <=> t = v /\ v \notin left
    BY <1>9, <1>11, <2>2, AskedPlaces
  <2>4. ~Asks(c)'
    BY <1>1, <1>2, <1>4, <1>7, <1>11, Consumed DEF Asks, Engaged, Queues
  <2>5. Fewer(toClient'[c], toClient[c], Ending)
        /\ \A t \in Sessions : Once(toClient'[t], RequestOf(c))
    BY <1>1, <1>3, <1>4, <2>2, Told DEF Sent, Engaged, Queues
  <2>6. ~InHand(c)' /\ ~Ended(c)'
    BY <1>6, <2>1, <2>5, HandKept DEF Ended, Fewer
  <2>7. Queues(c)'
    BY <1>6, <1>7, <2>5 DEF Queues, Engaged, ServerCalm, Fewer
  <2>8. OnePlace(c)'
    BY <1>9, <2>2, <2>3 DEF OnePlace
  <2>9. Exclusive(c)' /\ Waits(c)'
    BY <1>6, <2>1, <2>4, <2>6 DEF Exclusive, Waits, Engaged
  <2>10. Recorded(c)'
    BY <1>1, <1>7, <1>11, <2>3 DEF Recorded, Engaged, ServerCalm, Fewer, Passes, ServerOK
  <2>11. Paired(c)'
    BY <1>6, HandKept
  <2>12. Unserved(c)'
    BY <1>2, <1>6, <1>11, ReadUnserved, HandKept DEF Unserved
  <2> QED BY <1>6, <1>11, <2>1, <2>3, <2>7, <2>8, <2>9, <2>10, <2>11, <2>12 DEF Engaged
<1> QED BY <1>10, <1>11

(* x accepts a request of d: a handshake begins.                            *)
Begins(d, x) ==
  /\ \E m \in ToServer : m.type = "accept" /\ m.peer = UserOf[d] /\ Read(x, m) /\ Consume(x)
  /\ d \in Range(clients)
  /\ hand' = Append(hand, [c1 |-> d, c2 |-> x, at |-> "ask", r1 |-> "unset", r2 |-> "unset"])
  /\ etat' = [etat EXCEPT ![x] = "TRY_CONNECTION", ![d] = "TRY_CONNECTION"]
  /\ UNCHANGED <<clients, toClient, requestBy, invites, left, peer, strayed>>

LEMMA AcceptBegins ==
  ASSUME TypeOK, RhAccept
  PROVE  \E d, x \in Sessions : Begins(d, x)
<1>1. Shape
  BY TypeParts
<1>2. PICK x \in Sessions, m \in ToServer :
        x = Scanned /\ m = Request /\ m.type = "accept" /\ Read(x, m)
  BY ReadFacts DEF RhAccept
<1>3. PICK d \in Sessions :
        /\ d \in Range(clients) /\ UserOf[d] = m.peer
        /\ hand' = Append(hand, [c1 |-> d, c2 |-> x, at |-> "ask",
                                 r1 |-> "unset", r2 |-> "unset"])
        /\ etat' = [etat EXCEPT ![x] = "TRY_CONNECTION", ![d] = "TRY_CONNECTION"]
  BY <1>1, <1>2, NamedSession DEF RhAccept
<1>4. Consume(x) /\ UNCHANGED <<clients, toClient, requestBy, invites, left, peer, strayed>>
  BY <1>2 DEF RhAccept
<1> QED BY <1>2, <1>3, <1>4 DEF Begins

(* The request of d is answered, and x has made none.                       *)
LEMMA BeginHandshake ==
  ASSUME TypeOK, NEW d \in Sessions, NEW x \in Sessions, Begins(d, x),
         NEW c \in Sessions, Engaged(c)
  PROVE  /\ Engaged(c)'
         /\ c # d => \A t \in Sessions : Asked(c, t)' <=> Asked(c, t)
         /\ c = x => c # d /\ ~Pends(c)
         /\ c = d => /\ c # x /\ Asked(c, x) /\ \A h \in DOMAIN hand : c \notin Served(h)
                     /\ \A t \in Sessions : ~Asked(c, t)'
<1>1. Shape /\ ToServerOK
  BY TypeParts
<1>2. PICK m \in ToServer : m.type = "accept" /\ m.peer = UserOf[d] /\ Read(x, m) /\ Consume(x)
  BY DEF Begins
<1>3. m \in Asking /\ (m \in AcceptOf(c) <=> c = d) /\ (m \in AnswersTo(c) <=> c = d)
  BY <1>2, Kinds DEF Engaged, Recorded
<1>4. Readable(x) /\ m = Head(toServer[x]) /\ ServerCalm(c)
  BY <1>1, <1>2, ConsumeCalm DEF Read
<1>5. ClientCalm(c) /\ PeerCalm(c) /\ ListCalm(c)
  BY SameCalm DEF Begins
<1>6. PICK n : n = Len(hand) + 1
  OBVIOUS
<1>7. /\ DOMAIN hand' = DOMAIN hand \union {n} /\ n \notin DOMAIN hand
      /\ \A h \in DOMAIN hand : hand'[h] = hand[h]
      /\ hand'[n].c1 = d /\ hand'[n].c2 = x /\ hand'[n].at = "ask"
  BY <1>1, <1>6 DEF Shape, Begins
<1>8. /\ \A h \in DOMAIN hand : Served(h)' = Served(h)
      /\ Served(n)' = {d, x}
  BY <1>7 DEF Served
<1>9. \A t \in Sessions : /\ Replied(c, t)' <=> Replied(c, t) /\ ~(c = d /\ t = x)
                          /\ Shown(c, t)' <=> Shown(c, t)
                          /\ Sent(c, t)' <=> Sent(c, t)
  <2>1. CASE c = d
    BY <1>1, <1>2, <1>3, <1>4, <2>1, Consumed DEF Replied, Shown, Sent, Begins, Engaged, Queues, Consume, ToServerOK
  <2>2. CASE c # d
    BY <1>1, <1>2, <1>3, <1>4, <2>2, Consumed DEF Replied, Shown, Sent, Begins
  <2> QED BY <2>1, <2>2
<1>10. CASE c \notin {d, x}
  <2>1. HandCalm(c)
    BY <1>7, <1>8, <1>10 DEF HandCalm
  <2>2. Marked(c)'
    BY <1>1, <1>7, <1>8, <1>10 DEF Marked, Engaged, Begins, Shape
  <2>3. \A t \in Sessions : Asked(c, t)' <=> Asked(c, t)
    BY <1>9, <1>10, AskedPlaces
  <2> QED BY <1>4, <1>5, <1>10, <2>1, <2>2, <2>3, CalmStep
<1>11. CASE c \in {d, x}
  <2>1. c = x => Asks(c) /\ c # d
    BY <1>2, <1>3 DEF Read, Asks, Engaged, Recorded
  <2>2. c = d => Replied(c, x) /\ Asked(c, x) /\ Pends(c) /\ ~Sent(c, x) /\ ~Shown(c, x)
    BY <1>2, <1>3, AskedPlaces DEF Read, Replied, Pends, Engaged, OnePlace
  <2>3. /\ \A h \in DOMAIN hand : c \notin Served(h)
        /\ ~InHand(c) /\ ~Ended(c) /\ ~Idle(c)
        /\ c = x => ~Pends(c)
        /\ c = d => ~Asks(c)
    BY <1>2, <1>11, <2>1, <2>2, ReadUnserved DEF Engaged, Exclusive, Unserved, Idle
  <2>4. \A t \in Sessions : ~Asked(c, t)'
    BY <1>9, <1>11, <2>1, <2>2, <2>3, AskedPlaces DEF Pends, Engaged, OnePlace
  <2>5. c = x => \A t \in Sessions : Asked(c, t)' <=> Asked(c, t)
    BY <2>3, <2>4 DEF Pends
  <2>6. ~Asks(c)'
    <3>1. CASE c = x
      BY <1>1, <1>2, <1>3, <1>4, <3>1, Consumed DEF Asks, Engaged, Queues
    <3>2. CASE c = d
      BY <1>4, <2>3, <3>2 DEF Asks, ServerCalm, Fewer
    <3> QED BY <1>11, <3>1, <3>2
  <2>7. ~Pends(c)' /\ ~Ended(c)'
    BY <2>3, <2>4 DEF Pends, Ended, Begins
  <2>8. Queues(c)'
    BY <1>4, <1>5 DEF Queues, Engaged, ServerCalm, ClientCalm, PeerCalm, Fewer, Begins
  <2>9. OnePlace(c)' /\ Exclusive(c)' /\ Unserved(c)'
    BY <2>4, <2>6, <2>7, AskedPlaces DEF OnePlace, Exclusive, Unserved
  <2>10. Waits(c)'
    BY <2>3 DEF Waits, Engaged, Begins
  <2>11. Recorded(c)'
    BY <1>4, <2>4 DEF Recorded, Engaged, ServerCalm, Fewer
  <2>12. d # x
    BY <1>11, <2>1, <2>2, <2>3
  <2>13. Paired(c)'
    <3>1. \A h \in DOMAIN hand : c \in {hand'[h].c1, hand'[h].c2} => hand'[h].c1 # hand'[h].c2
      BY <1>7 DEF Engaged, Paired
    <3> QED BY <1>7, <1>8, <2>3, <2>12, <3>1 DEF Paired
  <2>14. Marked(c)'
    BY <1>1, <1>2, <1>7, <1>8, <1>11, <2>3 DEF Marked, Begins, Shape, Read
  <2> QED BY <1>11, <2>1, <2>2, <2>3, <2>4, <2>5, <2>8, <2>9, <2>10, <2>11, <2>13, <2>14 DEF Engaged
<1> QED BY <1>10, <1>11

------------------------------------------------------------------------------
(* The steps of a handshake.                                                *)
Moves(h, l, r1, r2) ==
  hand' = [hand EXCEPT ![h] = [c1 |-> hand[h].c1, c2 |-> hand[h].c2,
                               at |-> l, r1 |-> r1, r2 |-> r2]]

LEMMA HandMoves ==
  ASSUME Shape, NEW h \in DOMAIN hand
  PROVE  /\ HandAsk(h) => Moves(h, "recv1", hand[h].r1, hand[h].r2)
         /\ HandReceive1(h) => Moves(h, "recv2", Answer(hand[h].c1), hand[h].r2)
         /\ HandReceive2(h) => Moves(h, "try", hand[h].r1, Answer(hand[h].c2))
         /\ HandTry(h) => Moves(h, "end1", hand[h].r1, hand[h].r2)
         /\ HandEnd1(h) => Moves(h, "end2", hand[h].r1, hand[h].r2)
         /\ HandEnd2(h) => Moves(h, "done", hand[h].r1, hand[h].r2)
<1>1. hand[h] \in HandRec
  BY ElementOfSeq DEF Shape
<1>2. ASSUME NEW l, HandTo(h, l) PROVE Moves(h, l, hand[h].r1, hand[h].r2)
  <2>1. hand' = [hand EXCEPT ![h] = [hand[h] EXCEPT !.at = l]]
    BY <1>2 DEF HandTo
  <2> QED BY <1>1, <2>1, RecordExcept DEF Moves
<1>3. ASSUME HandReceive1(h) PROVE Moves(h, "recv2", Answer(hand[h].c1), hand[h].r2)
  <2>1. hand' = [hand EXCEPT ![h] = [hand[h] EXCEPT !.at = "recv2", !.r1 = Answer(hand[h].c1)]]
    BY <1>3 DEF HandReceive1
  <2> QED BY <1>1, <2>1, RecordExcept DEF Moves
<1>4. ASSUME HandReceive2(h) PROVE Moves(h, "try", hand[h].r1, Answer(hand[h].c2))
  <2>1. hand' = [hand EXCEPT ![h] = [hand[h] EXCEPT !.at = "try", !.r2 = Answer(hand[h].c2)]]
    BY <1>4 DEF HandReceive2
  <2> QED BY <1>1, <2>1, RecordExcept DEF Moves
<1> QED BY <1>2, <1>3, <1>4 DEF HandAsk, HandTry, HandEnd1, HandEnd2

LEMMA MovesFacts ==
  ASSUME NEW h \in DOMAIN hand, NEW l, NEW r1, NEW r2, Moves(h, l, r1, r2)
  PROVE  /\ DOMAIN hand' = DOMAIN hand
         /\ \A g \in DOMAIN hand : /\ hand'[g].c1 = hand[g].c1 /\ hand'[g].c2 = hand[g].c2
                                   /\ g # h => hand'[g] = hand[g]
         /\ hand'[h].at = l /\ hand'[h].r1 = r1 /\ hand'[h].r2 = r2
BY DEF Moves

LEMMA MovesCalm ==
  ASSUME NEW h \in DOMAIN hand, NEW l, NEW r1, NEW r2, Moves(h, l, r1, r2),
         \/ hand[h].at \in LivePc
         \/ hand[h].at = "end1" /\ l = "end2"
         \/ hand[h].at = "end2" /\ l = "done"
  PROVE  \A c : HandCalm(c)
<1>1. ASSUME NEW g \in DOMAIN hand
      PROVE  /\ Served(g)' \subseteq Served(g)
             /\ hand'[g].at \in LivePc => hand[g].at \in LivePc
  <2>1. CASE g = h
    BY <2>1, MovesFacts DEF Served, LivePc
  <2>2. CASE g # h
    BY <2>2, MovesFacts DEF Served
  <2> QED BY <2>1, <2>2
<1> QED BY <1>1, MovesFacts DEF HandCalm

LEMMA BothTold ==
  ASSUME ToClientOK, Shape, NEW h \in DOMAIN hand,
         NEW m \in ToClient, NEW n \in ToClient, TellBoth(h, m, n), NEW M, NEW t \in Sessions
  PROVE  /\ t \notin {hand[h].c1, hand[h].c2} \/ (m \notin M /\ n \notin M)
              => Fewer(toClient'[t], toClient[t], M)
         /\ hand[h].c1 # hand[h].c2 /\ t \notin left /\ Once(toClient[t], M) /\ ~Has(toClient[t], M)
              => Once(toClient'[t], M)
         /\ t \in left => toClient'[t] = toClient[t]
<1>1. PICK c1 \in Sessions, c2 \in Sessions : c1 = hand[h].c1 /\ c2 = hand[h].c2
  BY HandSessions
<1>2. PICK q \in [Sessions -> Seq(ToClient)] :
        q = [toClient EXCEPT ![c1] = Put(c1, @, m)]
  BY QueueTypes DEF ToClientOK
<1>3. toClient' = [q EXCEPT ![c2] = Put(c2, @, n)]
  BY <1>1, <1>2 DEF TellBoth
<1>4. /\ q[t] = IF t = c1 /\ t \notin left THEN Append(toClient[t], m) ELSE toClient[t]
      /\ toClient'[t] = IF t = c2 /\ t \notin left THEN Append(q[t], n) ELSE q[t]
  BY <1>2, <1>3 DEF Put, ToClientOK
<1>5. toClient[t] \in Seq(ToClient) /\ q[t] \in Seq(ToClient)
  BY DEF ToClientOK
<1>6. /\ Has(Append(toClient[t], m), M) <=> Has(toClient[t], M) \/ m \in M
      /\ Has(Append(q[t], n), M) <=> Has(q[t], M) \/ n \in M
      /\ Once(toClient[t], M) /\ (m \in M => ~Has(toClient[t], M)) => Once(Append(toClient[t], m), M)
      /\ Once(q[t], M) /\ (n \in M => ~Has(q[t], M)) => Once(Append(q[t], n), M)
  BY <1>5, AppendHas
<1> QED BY <1>1, <1>4, <1>6 DEF Fewer

LEMMA CalmHand ==
  ASSUME TypeOK, NEW c \in Sessions, Engaged(c), NEW h \in DOMAIN hand,
         \/ HandAsk(h) \/ HandReceive1(h) \/ HandReceive2(h)
         \/ HandTryFails(h) \/ HandEnd1(h) \/ HandEnd2(h)
  PROVE  Engaged(c)' /\ FewerAsks(c)
<1>1. Shape /\ ToServerOK /\ ToClientOK
  BY TypeParts
<1>2. PICK c1 \in Sessions, c2 \in Sessions : c1 = hand[h].c1 /\ c2 = hand[h].c2
  BY <1>1, HandSessions
<1>3. PeerCalm(c) /\ ListCalm(c) /\ UNCHANGED clients
  BY SameCalm DEF HandAsk, HandReceive1, HandReceive2, HandTryFails, HandEnd1, HandEnd2
<1>4. HandCalm(c)
  <2>1. CASE HandTryFails(h)
    BY <2>1, SameCalm DEF HandTryFails
  <2>2. CASE ~HandTryFails(h)
    BY <1>1, <2>2, HandMoves, MovesCalm
       DEF HandAsk, HandReceive1, HandReceive2, HandEnd1, HandEnd2, HandAt, LivePc
  <2> QED BY <2>1, <2>2
<1>5. ClientCalm(c)
  <2>1. CASE HandAsk(h)
    <3>1. PICK m \in ToClient : TellBoth(h, m, m) /\ m.type = "get_infos"
      BY <2>1, ToClientTypes DEF HandAsk
    <3>2. m \notin Ending /\ m \notin RequestOf(c)
      BY <3>1, Kinds
    <3> QED BY <1>1, <3>1, <3>2, BothTold DEF ClientCalm
  <2>2. CASE ~HandAsk(h)
    BY <2>2, SameCalm DEF HandReceive1, HandReceive2, HandTryFails, HandEnd1, HandEnd2
  <2> QED BY <2>1, <2>2
<1>6. ServerCalm(c)
  <2>1. CASE HandReceive1(h) \/ HandReceive2(h)
    <3>1. PICK s \in Sessions : Readable(s) /\ Consume(s)
      BY <1>2, <2>1 DEF HandReceive1, HandReceive2
    <3> QED BY <1>1, <3>1, ConsumeCalm
  <2>2. CASE ~HandReceive1(h) /\ ~HandReceive2(h)
    BY <2>2, SameCalm DEF HandAsk, HandTryFails, HandEnd1, HandEnd2
  <2> QED BY <2>1, <2>2
<1>7. Marked(c)'
  <2> SUFFICES ASSUME NEW g \in DOMAIN hand', c \in Served(g)'
               PROVE  etat'[c] = "TRY_CONNECTION" /\ c \in Range(clients')
    BY DEF Marked
  <2>1. /\ g \in DOMAIN hand /\ c \in Served(g)
        /\ c \in Range(clients') /\ etat[c] = "TRY_CONNECTION"
    BY <1>3, <1>4, HandKept DEF Engaged, Marked
  <2>2. ASSUME c \in Served(h) PROVE g = h
    BY <2>1, <2>2 DEF Engaged, Paired
  <2>3. etat'[c] = etat[c]
    <3>1. CASE HandEnd1(h)
      <4>1. c1 \in Served(h) /\ etat' = [etat EXCEPT ![c1] = "IN_CONNECTION"]
        BY <1>2, <3>1 DEF HandEnd1, HandAt, Served
      <4>2. ASSUME c = c1 PROVE FALSE
        <5>1. g = h
          BY <2>2, <4>1, <4>2
        <5>2. hand'[h].at = "end2" /\ hand'[h].c2 = c2
          BY <1>1, <1>2, <3>1, HandMoves, MovesFacts
        <5>3. c1 # c2
          BY <1>2, <4>2 DEF Engaged, Paired
        <5> QED BY <4>2, <5>1, <5>2, <5>3 DEF Served
      <4> QED BY <4>1, <4>2
    <3>2. CASE HandEnd2(h)
      <4>1. c2 \in Served(h) /\ etat' = [etat EXCEPT ![c2] = "IN_CONNECTION"]
        BY <1>2, <3>2 DEF HandEnd2, HandAt, Served
      <4>2. ASSUME c = c2 PROVE FALSE
        <5>1. g = h
          BY <2>2, <4>1, <4>2
        <5>2. hand'[h].at = "done"
          BY <1>1, <3>2, HandMoves, MovesFacts
        <5> QED BY <4>2, <5>1, <5>2 DEF Served
      <4> QED BY <4>1, <4>2
    <3>3. CASE ~HandEnd1(h) /\ ~HandEnd2(h)
      BY <3>3 DEF HandAsk, HandReceive1, HandReceive2, HandTryFails
    <3> QED BY <3>1, <3>2, <3>3
  <2> QED BY <2>1, <2>3
<1> QED BY <1>3, <1>4, <1>5, <1>6, <1>7, CalmStep

(* A handshake tells its clients where to try.                              *)
LEMMA EndHandshake ==
  ASSUME TypeOK, NEW c \in Sessions, Engaged(c), NEW h \in DOMAIN hand, HandTry(h)
  PROVE  Engaged(c)' /\ FewerAsks(c)
<1>1. Shape /\ ToClientOK
  BY TypeParts
<1>2. PICK m \in ToClient, n \in ToClient : m.type = "try" /\ n.type = "try" /\ TellBoth(h, m, n)
  <2> DEFINE try(r) == [type |-> "try", good |-> r = "infos"]
  <2>1. TellBoth(h, try(hand[h].r2), try(hand[h].r1))
    BY DEF HandTry
  <2>2. \A r : try(r) \in ToClient /\ try(r).type = "try"
    BY ToClientTypes
  <2> HIDE DEF try
  <2> QED BY <2>1, <2>2
<1>3. m \notin RequestOf(c) /\ n \notin RequestOf(c)
  BY <1>2, Kinds
<1>4. /\ ServerCalm(c) /\ PeerCalm(c) /\ ListCalm(c)
      /\ UNCHANGED <<clients, etat, invites, requestBy, left, peer>>
  BY SameCalm DEF HandTry
<1>5. hand[h].at = "try"
  BY DEF HandTry, HandAt
<1>6. HandCalm(c) /\ DOMAIN hand' = DOMAIN hand /\ hand'[h].at = "end1"
  BY <1>1, <1>5, HandMoves, MovesFacts, MovesCalm DEF LivePc
<1>7. Marked(c)'
  BY <1>4, <1>6, HandKept DEF Marked, Engaged
<1>8. CASE c \notin {hand[h].c1, hand[h].c2}
  <2>1. ClientCalm(c)
    BY <1>1, <1>2, <1>3, <1>8, BothTold DEF ClientCalm
  <2> QED BY <1>4, <1>6, <1>7, <2>1, CalmStep
<1>9. CASE c \in {hand[h].c1, hand[h].c2}
  <2>1. InHand(c) /\ c \in Served(h) /\ hand[h].c1 # hand[h].c2
    BY <1>5, <1>9 DEF InHand, LivePc, Served, Engaged, Paired
  <2>2. ~Asks(c) /\ ~Pends(c) /\ ~Ended(c) /\ ~Idle(c)
    BY <2>1 DEF Engaged, Exclusive, Idle
  <2>3. /\ c \notin left => Once(toClient'[c], Ending)
        /\ \A t \in Sessions : Fewer(toClient'[t], toClient[t], RequestOf(c))
    BY <1>1, <1>2, <1>3, <2>1, <2>2, BothTold DEF Ended, Engaged, Queues
  <2>4. \A t \in Sessions : Asked(c, t)' => Asked(c, t)
    BY <1>4, <2>3, AskedPlaces DEF Sent, Shown, Replied, Fewer, ServerCalm
  <2>5. ~Pends(c)' /\ ~Asks(c)'
    BY <1>4, <2>2, <2>4 DEF Pends, Asks, ServerCalm, Fewer
  <2>6. ~InHand(c)'
    <3> SUFFICES ASSUME NEW g \in DOMAIN hand', hand'[g].at \in LivePc,
                        c \in {hand'[g].c1, hand'[g].c2}
                 PROVE  FALSE
      BY DEF InHand
    <3>1. g \in DOMAIN hand /\ c \in {hand[g].c1, hand[g].c2} /\ hand[g].at \in LivePc
      BY <1>6 DEF HandCalm
    <3>2. c \in Served(g)
      BY <3>1 DEF Served, LivePc
    <3>3. g = h
      BY <2>1, <3>1, <3>2 DEF Engaged, Paired
    <3> QED BY <1>6, <3>3 DEF LivePc
  <2>7. Queues(c)'
    BY <1>4, <2>3 DEF Queues, Engaged, ServerCalm, Fewer
  <2>8. OnePlace(c)' /\ Exclusive(c)' /\ Unserved(c)'
    BY <2>5, <2>6, AskedPlaces DEF Pends, OnePlace, Exclusive, Unserved
  <2>9. Waits(c)'
    BY <1>4, <2>2 DEF Waits, Engaged
  <2>10. Recorded(c)'
    BY <1>4, <2>4 DEF Recorded, Engaged, ServerCalm, Fewer
  <2>11. Paired(c)'
    BY <1>6, HandKept
  <2> QED BY <1>7, <2>4, <2>7, <2>8, <2>9, <2>10, <2>11 DEF Engaged, FewerAsks
<1> QED BY <1>8, <1>9

------------------------------------------------------------------------------
LEMMA EngagedInit == Init => AllEngaged
<1> SUFFICES ASSUME Init, NEW c \in Sessions \ strayed PROVE Engaged(c)
  BY DEF AllEngaged
<1>1. /\ \A s \in Sessions : toServer[s] = <<>> /\ toClient[s] = <<>> /\ invites[s] = {}
      /\ DOMAIN hand = {}
  BY DEF Init
<1>2. /\ ~Asks(c) /\ ~InHand(c) /\ ~Ended(c)
      /\ \A t \in Sessions : ~Sent(c, t) /\ ~Shown(c, t) /\ ~Replied(c, t)
  BY <1>1, EmptyHas DEF Asks, InHand, Ended, Sent, Shown, Replied
<1>3. ~Pends(c) /\ \A t \in Sessions : ~Asked(c, t)
  BY <1>2, AskedPlaces DEF Pends
<1>4. Queues(c)
  BY <1>1, EmptyHas DEF Queues
<1>5. \A t \in Sessions : UserOf[t] = UserOf[c] => t = c
  BY DEF Init, Namesakes
<1>6. OnePlace(c) /\ Exclusive(c) /\ Waits(c) /\ Recorded(c)
  BY <1>1, <1>2, <1>3, <1>5, EmptyHas DEF OnePlace, Exclusive, Waits, Recorded, Idle
<1>7. Paired(c) /\ Unserved(c) /\ Marked(c)
  BY <1>1 DEF Paired, Unserved, Marked
<1> QED BY <1>4, <1>6, <1>7 DEF Engaged

(* All steps but two: c has asked nobody that it had not.                   *)
LEMMA QuietStep ==
  ASSUME TypeOK, NEW c \in Sessions \ strayed', Engaged(c), [Next]_vars,
         ~RhRequest, ~RhAccept
  PROVE  Engaged(c)' /\ FewerAsks(c)
<1>1. CASE UNCHANGED vars
  <2>1. /\ ServerCalm(c) /\ ClientCalm(c) /\ PeerCalm(c) /\ HandCalm(c) /\ ListCalm(c)
        /\ UNCHANGED <<clients, etat, hand>>
    BY <1>1, SameCalm
  <2> QED BY <2>1, MarkStays, CalmStep DEF Engaged
<1>2. ASSUME NEW s \in Sessions, Connect(s) \/ AcceptFails(s) \/ Start(s)
      PROVE  Engaged(c)' /\ FewerAsks(c)
  BY <1>2, CalmStart
<1>3. ASSUME NEW s \in Sessions, User(s) \/ ChatEnds(s)
      PROVE  Engaged(c)' /\ FewerAsks(c)
  <2>1. PICK u \in Users :
          \/ \E good \in BOOLEAN : UserConnect(s, good)
          \/ UserRequest(s, u) \/ UserAccept(s, u) \/ UserReject(s, u)
          \/ UserList(s) \/ UserCancel(s) \/ UserLeave(s) \/ ChatEnds(s)
    BY <1>3, UserIsUser DEF User
  <2>2. CASE Elsewhere(c, s, u)
    BY <2>2, CalmUser
  <2>3. CASE s = c /\ (UserRequest(s, u) \/ (u # UserOf[c] /\ UserAccept(s, u)))
    BY <2>3, BeginAsking
  <2>4. CASE u = UserOf[c] /\ (UserAccept(s, u) \/ UserReject(s, u))
    BY <2>4, MoveAnswer
  <2>5. UserCancel(s) => s # c
    BY DEF UserCancel
  <2> QED BY <2>1, <2>2, <2>3, <2>4, <2>5 DEF Elsewhere
<1>4. ASSUME NEW s \in Sessions, Client(s)
      PROVE  Engaged(c)' /\ FewerAsks(c)
  BY <1>4, CalmClient, ShowRequest DEF Client
<1>5. CASE Rh
  BY <1>5, CalmRh, RefuseRequest, RejectRequest DEF Rh
<1>6. ASSUME NEW h \in DOMAIN hand, Hand(h)
      PROVE  Engaged(c)' /\ FewerAsks(c)
  BY <1>6, CalmHand, EndHandshake DEF Hand
<1> QED BY <1>1, <1>2, <1>3, <1>4, <1>5, <1>6 DEF Next

LEMMA EngagedStep ==
  ASSUME TypeOK, AllEngaged, [Next]_vars
  PROVE  AllEngaged'
<1> SUFFICES ASSUME NEW c \in Sessions \ strayed' PROVE Engaged(c)'
  BY DEF AllEngaged
<1>1. Older
  BY TypeParts, HistoryStep
<1>2. Engaged(c)
  BY <1>1 DEF AllEngaged, Older
<1>3. CASE RhRequest
  BY <1>2, <1>3, RequestPasses, PassRequest
<1>4. CASE RhAccept
  BY <1>2, <1>4, AcceptBegins, BeginHandshake
<1> QED BY <1>2, <1>3, <1>4, QuietStep

LEMMA AlwaysEngaged == Spec => []AllEngaged
<1>1. TypeOK /\ AllEngaged /\ [Next]_vars => AllEngaged'
  BY EngagedStep
<1> QED BY <1>1, EngagedInit, ServerTypeCorrect, PTL DEF Spec

(* request-handler.c, clientlist.h: a client that a handshake uses is       *)
(* marked TRY_CONNECTION and in the list, so requestHandler neither reads   *)
(* its messages nor frees it; for any number of clients and of commands,    *)
(* whatever the users type, unless the client itself has strayed.           *)
THEOREM ServedClientsAreTrying == Spec => []ServedIsTrying
<1>1. TypeOK /\ AllEngaged => ServedIsTrying
  <2> SUFFICES ASSUME TypeOK, AllEngaged, NEW h \in DOMAIN hand, NEW s \in Served(h) \ strayed
               PROVE  etat[s] = "TRY_CONNECTION" /\ s \in Range(clients)
    BY DEF ServedIsTrying
  <2>1. s \in Sessions
    BY TypeParts, HandSessions DEF Served
  <2> QED BY <2>1 DEF AllEngaged, Engaged, Marked
<1> QED BY <1>1, AlwaysEngaged, ServerTypeCorrect, PTL

------------------------------------------------------------------------------
(* The server implements the Rendezvous.  The state of the Rendezvous:      *)
AsksNow == [s \in Sessions |-> {t \in Sessions : s \notin strayed /\ Asked(s, t)}]
Trying == {s \in Sessions : etat[s] = "TRY_CONNECTION"}

\* nobody who has not strayed is asked by another than before
SameAsks == \A c \in Sessions \ strayed : \A t \in Sessions : Asked(c, t)' <=> Asked(c, t)

LEMMA RendezvousInit == Init => Rendezvous!Init
<1> SUFFICES ASSUME Init PROVE Rendezvous!Init
  OBVIOUS
<1>1. /\ \A s \in Sessions : toServer[s] = <<>> /\ toClient[s] = <<>> /\ invites[s] = {}
      /\ Range(clients) \subseteq Sessions
      /\ Trying = {} /\ strayed \subseteq Sessions
  BY ServerAssumption, ElementOfSeq DEF Init, Range, Trying
<1>2. \A s, t \in Sessions : ~Asked(s, t)
  BY <1>1, EmptyHas, AskedPlaces DEF Sent, Shown, Replied
<1>3. AsksNow = [s \in Sessions |-> {}]
  BY <1>2 DEF AsksNow
<1> QED BY <1>1, <1>3 DEF Rendezvous!Init, AsksNow, Trying

LEMMA SameAsksNow ==
  ASSUME SameAsks, UNCHANGED strayed
  PROVE  AsksNow' = AsksNow
<1>1. \A s \in Sessions : {t \in Sessions : s \notin strayed' /\ Asked(s, t)'}
                          = {t \in Sessions : s \notin strayed /\ Asked(s, t)}
  BY DEF SameAsks
<1> QED BY <1>1 DEF AsksNow

\* a step that begins or ends no request, and marks no client, lapses some
LEMMA LapseStep ==
  ASSUME TypeOK, AllEngaged, Older, HistoryOK',
         \A c \in Sessions \ strayed' : FewerAsks(c),
         UNCHANGED Trying, Range(clients') = Range(clients)
  PROVE  Rendezvous!Lapse
<1>1. ASSUME NEW s \in Sessions
      PROVE  /\ AsksNow'[s] \in SUBSET Sessions
             /\ AsksNow'[s] = {} \/ (AsksNow'[s] = AsksNow[s] /\ s \notin strayed')
  <2>1. AsksNow'[s] = {t \in Sessions : s \notin strayed' /\ Asked(s, t)'}
    BY DEF AsksNow
  <2>2. CASE s \in strayed'
    BY <2>1, <2>2
  <2>3. CASE s \notin strayed'
    <3>1. AsksNow[s] = {t \in Sessions : Asked(s, t)} /\ OnePlace(s)
      BY <2>3 DEF AsksNow, Older, AllEngaged, Engaged
    <3>2. AsksNow'[s] \subseteq AsksNow[s] /\ \A t, v \in AsksNow[s] : t = v
      BY <2>1, <2>3, <3>1 DEF FewerAsks, OnePlace
    <3> QED BY <2>1, <2>3, <3>2
  <2> QED BY <2>2, <2>3
<1>2. AsksNow' \in [Sessions -> SUBSET Sessions]
  BY DEF AsksNow
<1> QED BY <1>1, <1>2 DEF Rendezvous!Lapse, AsksNow, Trying, Older, HistoryOK

LEMMA AskStep ==
  ASSUME TypeOK, AllEngaged, RhRequest, Older, HistoryOK'
  PROVE  Rendezvous!Next
<1>1. UNCHANGED Trying
  BY DEF Trying, RhRequest
<1>2. PICK x \in Sessions, v \in Sessions : Passes(x, v)
  BY RequestPasses
<1>3. /\ {x, v} \subseteq Range(clients) /\ etat[x] # "TRY_CONNECTION" /\ etat[v] # "TRY_CONNECTION"
      /\ UNCHANGED <<clients, etat, strayed, left>>
  BY <1>2 DEF Passes, Read
<1>4. ASSUME NEW c \in Sessions \ strayed, c # x, NEW t \in Sessions
      PROVE  Asked(c, t)' <=> Asked(c, t)
  BY <1>2, <1>4, PassRequest DEF AllEngaged
<1>5. CASE x \notin strayed
  <2>1. ~Pends(x) /\ \A t \in Sessions : Asked(x, t)' <=> t = v /\ v \notin left
    BY <1>2, <1>5, PassRequest DEF AllEngaged
  <2>2. \A t \in Sessions : ~Asked(x, t)
    BY <2>1 DEF Pends
  <2>3. CASE v \in left
    <3>1. SameAsks
      BY <1>4, <2>1, <2>2, <2>3 DEF SameAsks
    <3>2. \A c \in Sessions \ strayed' : FewerAsks(c)
      BY <1>3, <3>1 DEF SameAsks, FewerAsks
    <3> QED BY <1>1, <1>3, <3>2, LapseStep DEF Rendezvous!Next
  <2>4. CASE v \notin left
    <3>1. AsksNow[x] = {}
      BY <2>2 DEF AsksNow
    <3>2. \A s \in Sessions : {t \in Sessions : s \notin strayed' /\ Asked(s, t)'}
            = IF s = x THEN {v} ELSE {t \in Sessions : s \notin strayed /\ Asked(s, t)}
      BY <1>3, <1>4, <1>5, <2>1, <2>4
    <3>3. AsksNow' = [AsksNow EXCEPT ![x] = {v}] /\ v \in AsksNow'[x]
      BY <3>2 DEF AsksNow
    <3>4. Rendezvous!Ask(x, v)
      BY <1>3, <1>5, <3>1, <3>3 DEF Rendezvous!Ask, Rendezvous!Free, AsksNow, Trying
    <3> QED BY <3>3, <3>4 DEF Rendezvous!Next, AsksNow
  <2> QED BY <2>3, <2>4
<1>6. CASE x \in strayed
  <2>1. \A c \in Sessions \ strayed' : FewerAsks(c)
    BY <1>3, <1>4, <1>6 DEF FewerAsks
  <2> QED BY <1>1, <1>3, <2>1, LapseStep DEF Rendezvous!Next
<1> QED BY <1>5, <1>6

LEMMA IntroduceStep ==
  ASSUME TypeOK, AllEngaged, TryingIsServed, RhAccept
  PROVE  Rendezvous!Next
<1>1. Shape
  BY TypeParts
<1>2. PICK d \in Sessions, x \in Sessions : Begins(d, x)
  BY AcceptBegins
<1>3. /\ {d, x} \subseteq Range(clients) /\ etat[x] # "TRY_CONNECTION"
      /\ etat' = [etat EXCEPT ![x] = "TRY_CONNECTION", ![d] = "TRY_CONNECTION"]
      /\ UNCHANGED <<clients, strayed>>
  BY <1>2 DEF Begins, Read
<1>4. Trying' = Trying \union {d, x}
  BY <1>1, <1>3 DEF Trying, Shape
<1>5. ASSUME NEW c \in Sessions \ strayed, c # d, NEW t \in Sessions
      PROVE  Asked(c, t)' <=> Asked(c, t)
  BY <1>2, <1>5, BeginHandshake DEF AllEngaged
<1>6. AsksNow[x] = {}
  <2>1. CASE x \in strayed
    BY <2>1 DEF AsksNow
  <2>2. CASE x \notin strayed
    BY <1>2, <2>2, BeginHandshake DEF AllEngaged, Pends, AsksNow
  <2> QED BY <2>1, <2>2
<1>7. CASE d \in strayed
  <2>1. AsksNow' = AsksNow
    BY <1>3, <1>5, <1>7, SameAsksNow DEF SameAsks
  <2>2. Rendezvous!Mistake(d, x)
    BY <1>3, <1>4, <1>6, <1>7, <2>1 DEF Rendezvous!Mistake, Rendezvous!Free, AsksNow, Trying
  <2> QED BY <2>2 DEF Rendezvous!Next
<1>8. CASE d \notin strayed
  <2>1. /\ d # x /\ Asked(d, x) /\ \A h \in DOMAIN hand : d \notin Served(h)
        /\ \A t \in Sessions : ~Asked(d, t)'
        /\ OnePlace(d)
    BY <1>2, <1>8, BeginHandshake DEF AllEngaged, Engaged
  <2>2. etat[d] # "TRY_CONNECTION"
    BY <2>1 DEF TryingIsServed
  <2>3. AsksNow[d] = {x}
    <3>1. \A t \in Sessions : Asked(d, t) <=> t = x
      BY <2>1 DEF OnePlace
    <3> QED BY <1>8, <3>1 DEF AsksNow
  <2>4. \A s \in Sessions : {t \in Sessions : s \notin strayed' /\ Asked(s, t)'}
          = IF s = d THEN {} ELSE {t \in Sessions : s \notin strayed /\ Asked(s, t)}
    BY <1>3, <1>5, <2>1
  <2>5. AsksNow' = [AsksNow EXCEPT ![d] = {}]
    BY <2>4 DEF AsksNow
  <2>6. Rendezvous!Introduce(d, x)
    BY <1>3, <1>4, <1>6, <2>1, <2>2, <2>3, <2>5
       DEF Rendezvous!Introduce, Rendezvous!Free, AsksNow, Trying
  <2> QED BY <2>6 DEF Rendezvous!Next
<1> QED BY <1>7, <1>8

(* What pends is untouched by a login, the deletion of a client, and the    *)
(* end of a handshake.                                                      *)
LEMMA UntouchedAsks ==
  ASSUME TypeOK,
         \/ \E s \in Sessions : StartLogin(s)
         \/ RhClosed
         \/ \E h \in DOMAIN hand : HandEnd1(h) \/ HandEnd2(h)
  PROVE  AsksNow' = AsksNow
<1>1. \A c, t \in Sessions : Replied(c, t)' <=> Replied(c, t)
  <2>1. CASE \E s \in Sessions : StartLogin(s)
    <3>1. PICK s \in Sessions : StartLogin(s)
      BY <2>1
    <3>2. PICK m \in ToServer : m = Head(toServer[s]) /\ m.type = "connect"
      BY <3>1, TypeParts, Consumed DEF StartLogin
    <3>3. \A c \in Sessions : m \notin AnswersTo(c)
      BY <3>2, Kinds
    <3> QED BY <3>1, <3>2, <3>3, TypeParts, Consumed DEF StartLogin, Replied
  <2>2. CASE ~\E s \in Sessions : StartLogin(s)
    BY <2>2 DEF RhClosed, HandEnd1, HandEnd2, Replied
  <2> QED BY <2>1, <2>2
<1>2. UNCHANGED <<toClient, invites, strayed>>
  BY DEF StartLogin, RhClosed, HandEnd1, HandEnd2
<1>3. SameAsks
  BY <1>1, <1>2, AskedPlaces DEF SameAsks, Sent, Shown
<1> QED BY <1>2, <1>3, SameAsksNow

LEMMA RendezvousStep ==
  ASSUME TypeOK, AllEngaged, TryingIsServed, [Next]_vars
  PROVE  [Rendezvous!Next]_Rendezvous!vars
<1>1. Shape /\ ListOK /\ Older /\ HistoryOK'
  BY TypeParts, HistoryStep
<1>2. CASE RhRequest
  BY <1>1, <1>2, AskStep
<1>3. CASE RhAccept
  BY <1>3, IntroduceStep
<1>4. CASE \E s \in Sessions : StartLogin(s)
  <2>1. PICK s \in Sessions : StartLogin(s)
    BY <1>4
  <2>2. s \notin Range(clients) /\ clients' = Append(clients, s) /\ UNCHANGED <<etat, strayed>>
    BY <1>1, <2>1 DEF StartLogin, ListOK
  <2>3. Range(clients') = Range(clients) \union {s}
    BY <1>1, <2>2, AddInjective DEF ListOK
  <2>4. Rendezvous!Join(s)
    BY <1>4, <2>2, <2>3, UntouchedAsks DEF Rendezvous!Join, AsksNow
  <2> QED BY <2>4 DEF Rendezvous!Next
<1>5. CASE RhClosed
  <2>1. PICK k \in DOMAIN clients : k = rh
    BY <1>5 DEF RhClosed, Reads, Scans
  <2>2. PICK s \in Sessions : s = clients[k]
    BY <1>1, <2>1, ElementOfSeq DEF Shape
  <2>3. /\ clients' = RemoveAt(clients, k) /\ etat[s] # "TRY_CONNECTION"
        /\ UNCHANGED <<etat, strayed>>
    BY <1>5, <2>1, <2>2 DEF RhClosed, Reads, Scanned
  <2>4. Range(clients') = Range(clients) \ {clients[k]}
    BY <1>1, <2>1, <2>3, DeleteInjective DEF ListOK
  <2>5. Range(clients') = Range(clients) \ {s} /\ s \in Range(clients)
    BY <2>1, <2>2, <2>4 DEF Range
  <2>6. Rendezvous!Depart(s)
    BY <1>5, <2>3, <2>5, UntouchedAsks DEF Rendezvous!Depart, Rendezvous!Free, AsksNow
  <2> QED BY <2>6 DEF Rendezvous!Next
<1>6. CASE \E h \in DOMAIN hand : HandEnd1(h) \/ HandEnd2(h)
  <2>1. PICK s \in Sessions :
          etat' = [etat EXCEPT ![s] = "IN_CONNECTION"] /\ UNCHANGED <<clients, strayed>>
    BY <1>1, <1>6, HandSessions DEF HandEnd1, HandEnd2
  <2>2. Trying' = Trying \ {s}
    BY <1>1, <2>1 DEF Trying, Shape
  <2>3. AsksNow' = AsksNow
    BY <1>6, UntouchedAsks
  <2>4. CASE s \in Trying
    <3>1. Rendezvous!GiveBack(s)
      BY <2>1, <2>2, <2>3, <2>4 DEF Rendezvous!GiveBack, AsksNow, Trying
    <3> QED BY <3>1 DEF Rendezvous!Next
  <2>5. CASE s \notin Trying
    BY <2>1, <2>2, <2>3, <2>5 DEF Rendezvous!vars, AsksNow, Trying
  <2> QED BY <2>4, <2>5
<1>7. CASE /\ ~RhRequest /\ ~RhAccept /\ ~RhClosed
           /\ \A s \in Sessions : ~StartLogin(s)
           /\ \A h \in DOMAIN hand : ~HandEnd1(h) /\ ~HandEnd2(h)
  <2>1. \A c \in Sessions \ strayed' : FewerAsks(c)
    BY <1>1, <1>7, QuietStep DEF AllEngaged, Older
  <2>2. UNCHANGED <<clients, etat>>
    <3>1. CASE UNCHANGED vars
      BY <3>1
    <3>2. ASSUME NEW s \in Sessions, Connect(s) \/ AcceptFails(s) \/ Start(s)
          PROVE  UNCHANGED <<clients, etat>>
      BY <1>7, <3>2 DEF Connect, AcceptFails, Start, StartRefuse, StartClosed, StartWelcome
    <3>3. ASSUME NEW s \in Sessions, User(s) \/ ChatEnds(s) \/ Client(s)
          PROVE  UNCHANGED <<clients, etat>>
      BY <3>3 DEF User, UserConnect, UserRequest, UserAccept, UserReject, UserList, UserCancel,
                  UserLeave, ChatEnds, Client, ClientAnswered, ClientInvited, ClientRejected,
                  ClientInfos, ClientTry, ClientAborts, ClientDrops
    <3>4. CASE Rh
      BY <1>7, <3>4 DEF Rh, RhWait, RhSkip, RhScanned, RhRequestRefused, RhAcceptGone,
                        RhReject, RhRejectFails, RhAvailable, RhDrop
    <3>5. ASSUME NEW h \in DOMAIN hand, Hand(h)
          PROVE  UNCHANGED <<clients, etat>>
      BY <1>7, <3>5 DEF Hand, HandAsk, HandReceive1, HandReceive2, HandTry, HandTryFails
    <3> QED BY <3>1, <3>2, <3>3, <3>4, <3>5 DEF Next
  <2>3. UNCHANGED Trying /\ Range(clients') = Range(clients)
    BY <2>2 DEF Trying
  <2> QED BY <1>1, <2>1, <2>3, LapseStep DEF Rendezvous!Next
<1> QED BY <1>2, <1>3, <1>4, <1>5, <1>6, <1>7

(* request-handler.c: whatever the users type, the server introduces a      *)
(* client whose requests are in order only to the one it asked for, who     *)
(* agreed and was asking nobody, when neither is being introduced; and it   *)
(* forgets no client meanwhile; for any number of clients and of commands.  *)
THEOREM ServerImplementsRendezvous == Spec => ImplementsRendezvous
<1>1. TypeOK /\ AllEngaged /\ TryingIsServed /\ [Next]_vars
        => [Rendezvous!Next]_Rendezvous!vars
  BY RendezvousStep
<1> QED
  BY <1>1, RendezvousInit, AlwaysEngaged, ServerTypeCorrect, TryingAlwaysServed, PTL
     DEF Spec, ImplementsRendezvous, Rendezvous!Spec

==============================================================================

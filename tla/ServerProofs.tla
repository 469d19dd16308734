---------------------------- MODULE ServerProofs ----------------------------
(***************************************************************************)
(* Theorems about the rendezvous server, for any sessions, users, habits   *)
(* and number of commands.                                                 *)
(***************************************************************************)
EXTENDS RequestHandler, SequenceTheorems, TLAPS

USE DEF listVars, serverVars, history, clientVars, vars

HandRec == [c1 : Sessions, c2 : Sessions, at : HandPc, r1 : Received, r2 : Received]

(* The part of the typing invariant that the handshakes rest on. *)
Shape ==
  /\ clients \in Seq(Sessions)
  /\ etat \in [Sessions -> Etats]
  /\ hand \in Seq(HandRec)

------------------------------------------------------------------------------
(* clientListDelete leaves a sequence of clients. *)
LEMMA RemoveAtType ==
  ASSUME NEW S, NEW q \in Seq(S), NEW i \in 1..Len(q)
  PROVE  RemoveAt(q, i) \in Seq(S)
<1>1. Len(q) \in Nat /\ \A j \in 1..Len(q) : q[j] \in S BY ElementOfSeq
<1>2. SubSeq(q, 1, i - 1) \in Seq(S)
  <2>1. \A j \in 1..(i - 1) : q[j] \in S BY <1>1
  <2> QED BY <1>1, <2>1, SubSeqProperties
<1>3. SubSeq(q, i + 1, Len(q)) \in Seq(S)
  <2>1. \A j \in (i + 1)..Len(q) : q[j] \in S BY <1>1
  <2> QED BY <1>1, <2>1, SubSeqProperties
<1> QED BY <1>2, <1>3 DEF RemoveAt

(* Steps by what they do to etat and hand: nothing, the start of a          *)
(* handshake, a step inside one, or its two ends.                           *)
Aloof == UNCHANGED <<etat, hand>> /\ clients' \in Seq(Sessions)

LEMMA ServerCases ==
  ASSUME Shape, [Next]_vars
  PROVE  \/ Aloof
         \/ RhAccept
         \/ \E h \in DOMAIN hand : \/ HandAsk(h) \/ HandReceive1(h) \/ HandReceive2(h)
                                   \/ HandTry(h) \/ HandEnd1(h) \/ HandEnd2(h)
<1> USE DEF Shape, Aloof
<1>1. ASSUME NEW s \in Sessions, Connect(s) \/ AcceptFails(s) PROVE Aloof
  BY <1>1 DEF Connect, AcceptFails
<1>2. ASSUME NEW s \in Sessions, Start(s) PROVE Aloof
  <2>1. CASE StartLogin(s)
    <3>1. Append(clients, s) \in Seq(Sessions) OBVIOUS
    <3> QED BY <2>1, <3>1 DEF StartLogin
  <2>2. CASE StartRefuse(s) \/ StartClosed(s) \/ StartWelcome(s)
    BY <2>2 DEF StartRefuse, StartClosed, StartWelcome
  <2> QED BY <1>2, <2>1, <2>2 DEF Start
<1>3. ASSUME NEW s \in Sessions, User(s) PROVE Aloof
  BY <1>3 DEF User, UserConnect, UserRequest, UserAccept, UserReject, UserList,
              UserCancel, UserLeave
<1>4. ASSUME NEW s \in Sessions, Client(s) \/ ChatEnds(s) PROVE Aloof
  BY <1>4 DEF Client, ClientAnswered, ClientInvited, ClientRejected, ClientInfos,
              ClientTry, ClientAborts, ClientDrops, ChatEnds
<1>5. CASE RhClosed
  <2>1. rh \in 1..Len(clients) BY <1>5 DEF RhClosed, Reads, Scans
  <2> QED BY <1>5, <2>1, RemoveAtType DEF RhClosed, RhNext
<1>6. CASE \/ RhWait \/ RhSkip \/ RhScanned \/ RhRequestRefused \/ RhRequest
           \/ RhAcceptGone \/ RhReject \/ RhRejectFails \/ RhAvailable \/ RhDrop
  BY <1>6 DEF RhWait, RhSkip, RhScanned, RhRequestRefused, RhRequest, RhAcceptGone,
              RhReject, RhRejectFails, RhAvailable, RhDrop, RhNext
<1>7. ASSUME NEW h \in DOMAIN hand, HandTryFails(h) PROVE Aloof
  BY <1>7 DEF HandTryFails
<1>8. CASE UNCHANGED vars BY <1>8
<1> QED BY <1>1, <1>2, <1>3, <1>4, <1>5, <1>6, <1>7, <1>8 DEF Next, Rh, Hand

------------------------------------------------------------------------------
(* A step of handshake h writes its record, and keeps its two clients.      *)
Writes(h) ==
  \E at \in HandPc, r1 \in Received, r2 \in Received :
    hand' = [hand EXCEPT ![h] = [c1 |-> hand[h].c1, c2 |-> hand[h].c2,
                                 at |-> at, r1 |-> r1, r2 |-> r2]]

LEMMA AnswerType == \A s : Answer(s) \in Received
BY DEF Answer, Received

LEMMA WritesType ==
  ASSUME Shape, NEW h \in DOMAIN hand, Writes(h)
  PROVE  hand' \in Seq(HandRec) /\ DOMAIN hand' = DOMAIN hand
<1>1. PICK at \in HandPc, r1 \in Received, r2 \in Received :
        hand' = [hand EXCEPT ![h] = [c1 |-> hand[h].c1, c2 |-> hand[h].c2,
                                     at |-> at, r1 |-> r1, r2 |-> r2]]
  BY DEF Writes
<1>2. hand[h] \in HandRec /\ h \in 1..Len(hand) BY ElementOfSeq DEF Shape
<1>3. [c1 |-> hand[h].c1, c2 |-> hand[h].c2, at |-> at, r1 |-> r1, r2 |-> r2] \in HandRec
  BY <1>2 DEF HandRec
<1> QED BY <1>1, <1>2, <1>3, ExceptSeq DEF Shape

\* a record of a handshake, with the fields a step writes
LEMMA RecordExcept ==
  ASSUME NEW r \in HandRec, NEW l, NEW a
  PROVE  /\ [r EXCEPT !.at = l] = [c1 |-> r.c1, c2 |-> r.c2, at |-> l, r1 |-> r.r1, r2 |-> r.r2]
         /\ [r EXCEPT !.at = l, !.r1 = a]
              = [c1 |-> r.c1, c2 |-> r.c2, at |-> l, r1 |-> a, r2 |-> r.r2]
         /\ [r EXCEPT !.at = l, !.r2 = a]
              = [c1 |-> r.c1, c2 |-> r.c2, at |-> l, r1 |-> r.r1, r2 |-> a]
<1>1. r = [c1 |-> r.c1, c2 |-> r.c2, at |-> r.at, r1 |-> r.r1, r2 |-> r.r2]
  BY DEF HandRec
<1> DEFINE q == [c1 |-> r.c1, c2 |-> r.c2, at |-> r.at, r1 |-> r.r1, r2 |-> r.r2]
<1>2. [q EXCEPT !.at = l] = [c1 |-> r.c1, c2 |-> r.c2, at |-> l, r1 |-> r.r1, r2 |-> r.r2]
  OBVIOUS
<1> DEFINE p == [c1 |-> r.c1, c2 |-> r.c2, at |-> l, r1 |-> r.r1, r2 |-> r.r2]
<1>3. [p EXCEPT !.r1 = a] = [c1 |-> r.c1, c2 |-> r.c2, at |-> l, r1 |-> a, r2 |-> r.r2]
  OBVIOUS
<1>4. [p EXCEPT !.r2 = a] = [c1 |-> r.c1, c2 |-> r.c2, at |-> l, r1 |-> r.r1, r2 |-> a]
  OBVIOUS
<1>5. r = q BY <1>1
<1>6. /\ [r EXCEPT !.at = l, !.r1 = a] = [[r EXCEPT !.at = l] EXCEPT !.r1 = a]
      /\ [r EXCEPT !.at = l, !.r2 = a] = [[r EXCEPT !.at = l] EXCEPT !.r2 = a]
  OBVIOUS
<1>7. [r EXCEPT !.at = l] = p BY <1>2, <1>5
<1> HIDE DEF p
<1> QED BY <1>3, <1>4, <1>6, <1>7 DEF p

LEMMA HandSteps ==
  ASSUME Shape, NEW h \in DOMAIN hand,
         \/ HandAsk(h) \/ HandReceive1(h) \/ HandReceive2(h)
         \/ HandTry(h) \/ HandEnd1(h) \/ HandEnd2(h)
  PROVE  Writes(h) /\ UNCHANGED clients
<1>1. hand[h] \in HandRec BY ElementOfSeq DEF Shape
<1>2. hand[h].r1 \in Received /\ hand[h].r2 \in Received
  BY <1>1 DEF HandRec
<1> USE DEF HandAt, HandTo, Writes, HandPc
<1>3. ASSUME NEW l \in HandPc, HandTo(h, l) PROVE Writes(h)
  <2>1. hand' = [hand EXCEPT ![h] = [hand[h] EXCEPT !.at = l]] BY <1>3
  <2>2. hand' = [hand EXCEPT ![h] = [c1 |-> hand[h].c1, c2 |-> hand[h].c2, at |-> l,
                                     r1 |-> hand[h].r1, r2 |-> hand[h].r2]]
    BY <1>1, <2>1, RecordExcept
  <2> QED BY <1>2, <2>2
<1>4. CASE HandReceive1(h)
  <2>1. hand' = [hand EXCEPT ![h] = [hand[h] EXCEPT !.at = "recv2", !.r1 = Answer(hand[h].c1)]]
    BY <1>4 DEF HandReceive1
  <2>2. hand' = [hand EXCEPT ![h] = [c1 |-> hand[h].c1, c2 |-> hand[h].c2, at |-> "recv2",
                                     r1 |-> Answer(hand[h].c1), r2 |-> hand[h].r2]]
    BY <1>1, <2>1, RecordExcept
  <2> QED BY <1>2, <1>4, <2>2, AnswerType DEF HandReceive1
<1>5. CASE HandReceive2(h)
  <2>1. hand' = [hand EXCEPT ![h] = [hand[h] EXCEPT !.at = "try", !.r2 = Answer(hand[h].c2)]]
    BY <1>5 DEF HandReceive2
  <2>2. hand' = [hand EXCEPT ![h] = [c1 |-> hand[h].c1, c2 |-> hand[h].c2, at |-> "try",
                                     r1 |-> hand[h].r1, r2 |-> Answer(hand[h].c2)]]
    BY <1>1, <2>1, RecordExcept
  <2> QED BY <1>2, <1>5, <2>2, AnswerType DEF HandReceive2
<1>6. CASE HandAsk(h) \/ HandTry(h) \/ HandEnd1(h) \/ HandEnd2(h)
  <2>1. \E l \in HandPc : HandTo(h, l)
    BY <1>6 DEF HandAsk, HandTry, HandEnd1, HandEnd2
  <2> QED BY <1>3, <1>6, <2>1 DEF HandAsk, HandTry, HandEnd1, HandEnd2
<1> QED BY <1>4, <1>5, <1>6

(* What acceptHandler starts. *)
LEMMA AcceptFacts ==
  ASSUME Shape, RhAccept
  PROVE  \E c1 \in Sessions, c2 \in Sessions :
           /\ hand' = Append(hand, [c1 |-> c1, c2 |-> c2, at |-> "ask",
                                    r1 |-> "unset", r2 |-> "unset"])
           /\ etat' = [etat EXCEPT ![c2] = "TRY_CONNECTION", ![c1] = "TRY_CONNECTION"]
           /\ UNCHANGED clients
<1>1. Scanned \in Sessions
  BY ElementOfSeq DEF RhAccept, Reads, Scans, Scanned, Shape
<1>2. \A u : ClientsOf(u) \subseteq Sessions
  BY ElementOfSeq DEF ClientsOf, Named, Shape
<1>3. PICK c1 \in ClientsOf(Request.peer) :
        /\ hand' = Append(hand, [c1 |-> c1, c2 |-> Scanned, at |-> "ask",
                                 r1 |-> "unset", r2 |-> "unset"])
        /\ etat' = [etat EXCEPT ![Scanned] = "TRY_CONNECTION", ![c1] = "TRY_CONNECTION"]
  BY DEF RhAccept
<1>4. UNCHANGED clients BY DEF RhAccept
<1> HIDE DEF Scanned, Request
<1> QED BY <1>1, <1>2, <1>3, <1>4

LEMMA ShapeHolds == Spec => []Shape
<1>1. Init => Shape
  <2> SUFFICES ASSUME Init PROVE Shape OBVIOUS
  <2>1. clients \in Seq(Sessions) BY ServerAssumption DEF Init
  <2>2. etat \in [Sessions -> Etats] BY DEF Init, Etats
  <2>3. hand \in Seq(HandRec) BY EmptySeq DEF Init
  <2> QED BY <2>1, <2>2, <2>3 DEF Shape
<1>2. Shape /\ [Next]_vars => Shape'
  <2> SUFFICES ASSUME Shape, [Next]_vars PROVE Shape' OBVIOUS
  <2>1. CASE Aloof BY <2>1 DEF Aloof, Shape
  <2>2. CASE RhAccept
    <3>1. PICK c1 \in Sessions, c2 \in Sessions :
           /\ hand' = Append(hand, [c1 |-> c1, c2 |-> c2, at |-> "ask",
                                    r1 |-> "unset", r2 |-> "unset"])
           /\ etat' = [etat EXCEPT ![c2] = "TRY_CONNECTION", ![c1] = "TRY_CONNECTION"]
           /\ UNCHANGED clients
      BY <2>2, AcceptFacts
    <3>2. [c1 |-> c1, c2 |-> c2, at |-> "ask", r1 |-> "unset", r2 |-> "unset"] \in HandRec
      BY DEF HandRec, HandPc, Received
    <3>3. hand' \in Seq(HandRec) BY <3>1, <3>2 DEF Shape
    <3>4. etat' \in [Sessions -> Etats] BY <3>1 DEF Shape, Etats
    <3> QED BY <3>1, <3>3, <3>4 DEF Shape
  <2>3. ASSUME NEW h \in DOMAIN hand,
               \/ HandAsk(h) \/ HandReceive1(h) \/ HandReceive2(h)
               \/ HandTry(h) \/ HandEnd1(h) \/ HandEnd2(h)
        PROVE  Shape'
    <3>1. hand' \in Seq(HandRec) /\ UNCHANGED clients
      BY <2>3, HandSteps, WritesType
    <3>2. etat' \in [Sessions -> Etats]
      BY <2>3 DEF HandAsk, HandReceive1, HandReceive2, HandTry, HandEnd1, HandEnd2,
                  Shape, Etats
    <3> QED BY <3>1, <3>2 DEF Shape
  <2> QED BY <2>1, <2>2, <2>3, ServerCases
<1> QED BY <1>1, <1>2, PTL DEF Spec

------------------------------------------------------------------------------
(* Whatever the users and the clients do, a client that requestHandler      *)
(* (request-handler.c) leaves alone because it is marked TRY_CONNECTION has *)
(* a createP2Pconnection thread at work that will give it back.             *)
THEOREM TryingAlwaysServed == Spec => []TryingIsServed
<1>1. Init => TryingIsServed BY DEF Init, TryingIsServed
<1>2. Shape /\ Shape' /\ TryingIsServed /\ [Next]_vars => TryingIsServed'
  <2> SUFFICES ASSUME Shape, Shape', TryingIsServed, [Next]_vars,
                      NEW s \in Sessions, etat'[s] = "TRY_CONNECTION"
               PROVE  \E h \in DOMAIN hand' : s \in Served(h)'
    BY DEF TryingIsServed
  <2>1. CASE Aloof BY <2>1 DEF Aloof, TryingIsServed, Served
  <2>2. CASE RhAccept
    <3>1. PICK c1 \in Sessions, c2 \in Sessions :
           /\ hand' = Append(hand, [c1 |-> c1, c2 |-> c2, at |-> "ask",
                                    r1 |-> "unset", r2 |-> "unset"])
           /\ etat' = [etat EXCEPT ![c2] = "TRY_CONNECTION", ![c1] = "TRY_CONNECTION"]
      BY <2>2, AcceptFacts
    <3> DEFINE new == [c1 |-> c1, c2 |-> c2, at |-> "ask", r1 |-> "unset", r2 |-> "unset"]
    <3>2. new \in HandRec BY DEF HandRec, HandPc, Received
    <3>3. new.at = "ask" /\ new.c1 = c1 /\ new.c2 = c2 OBVIOUS
    <3>4. /\ hand \in Seq(HandRec) /\ hand' = Append(hand, new) BY <3>1 DEF Shape
    <3> HIDE DEF new
    <3>5. /\ Len(hand) \in Nat
          /\ DOMAIN hand = 1..Len(hand) /\ DOMAIN hand' = 1..(Len(hand) + 1)
          /\ \A i \in 1..Len(hand) : hand'[i] = hand[i]
          /\ hand'[Len(hand) + 1] = new
      BY <3>2, <3>4
    <3>6. CASE s \in {c1, c2}
      <4>1. PICK n \in DOMAIN hand' : hand'[n] = new BY <3>5
      <4>2. s \in Served(n)' BY <3>3, <3>6, <4>1 DEF Served
      <4> QED BY <4>1, <4>2
    <3>7. CASE s \notin {c1, c2}
      <4>1. etat[s] = "TRY_CONNECTION" BY <3>1, <3>7 DEF Shape
      <4>2. PICK h \in DOMAIN hand : s \in Served(h) BY <4>1 DEF TryingIsServed
      <4>3. h \in DOMAIN hand' /\ hand'[h] = hand[h] BY <3>5, <4>2
      <4>4. s \in Served(h)' BY <4>2, <4>3 DEF Served
      <4> QED BY <4>3, <4>4
    <3> QED BY <3>6, <3>7
  <2>3. ASSUME NEW g \in DOMAIN hand,
               \/ HandAsk(g) \/ HandReceive1(g) \/ HandReceive2(g)
               \/ HandTry(g) \/ HandEnd1(g) \/ HandEnd2(g)
        PROVE  \E h \in DOMAIN hand' : s \in Served(h)'
    <3>1. Writes(g) /\ DOMAIN hand' = DOMAIN hand BY <2>3, HandSteps, WritesType
    <3>2. etat[s] = "TRY_CONNECTION"
      BY <2>3 DEF HandAsk, HandReceive1, HandReceive2, HandTry, HandEnd1, HandEnd2, Shape
    <3>3. PICK h \in DOMAIN hand : s \in Served(h) BY <3>2 DEF TryingIsServed
    <3>4. CASE h # g
      <4>1. hand'[h] = hand[h] BY <3>1, <3>4 DEF Writes
      <4>2. s \in Served(h)' BY <3>3, <4>1 DEF Served
      <4> QED BY <3>1, <4>2
    <3>5. CASE h = g
      <4>1. hand'[g].c1 = hand[g].c1 /\ hand'[g].c2 = hand[g].c2 BY <3>1 DEF Writes
      <4>2. hand[g] \in HandRec BY ElementOfSeq DEF Shape
      <4>3. CASE HandAsk(g) \/ HandReceive1(g) \/ HandReceive2(g) \/ HandTry(g)
        <5>1. hand'[g].at \in {"recv1", "recv2", "try", "end1"}
          BY <4>2, <4>3
          DEF HandAsk, HandReceive1, HandReceive2, HandTry, HandTo, HandRec, Shape
        <5>2. hand[g].at \in {"ask", "recv1", "recv2", "try"}
          BY <4>3 DEF HandAsk, HandReceive1, HandReceive2, HandTry, HandAt
        <5>3. s \in {hand[g].c1, hand[g].c2} BY <3>3, <3>5, <5>2 DEF Served
        <5>4. s \in Served(g)' BY <4>1, <5>1, <5>3 DEF Served
        <5> QED BY <3>1, <5>4
      <4>4. CASE HandEnd1(g)
        <5>1. hand'[g].at = "end2" BY <4>2, <4>4 DEF HandEnd1, HandTo, HandRec, Shape
        <5>2. s # hand[g].c1 BY <4>2, <4>4 DEF HandEnd1, HandRec, Shape
        <5>3. s \in {hand[g].c1, hand[g].c2}
          BY <3>3, <3>5, <4>4 DEF Served, HandEnd1, HandAt
        <5>4. s \in Served(g)' BY <4>1, <5>1, <5>2, <5>3 DEF Served
        <5> QED BY <3>1, <5>4
      <4>5. CASE HandEnd2(g)
        <5>1. s # hand[g].c2 BY <4>2, <4>5 DEF HandEnd2, HandRec, Shape
        <5>2. s \in {hand[g].c2} BY <3>3, <3>5, <4>5 DEF Served, HandEnd2, HandAt
        <5> QED BY <5>1, <5>2
      <4> QED BY <2>3, <4>3, <4>4, <4>5
    <3> QED BY <3>4, <3>5
  <2> QED BY <2>1, <2>2, <2>3, ServerCases
<1> QED BY <1>1, <1>2, ShapeHolds, PTL DEF Spec
------------------------------------------------------------------------------
(* The types of the other variables                                         *)

(* The list holds the sessions that have logged in, each once.              *)
ListOK ==
  /\ clients \in Seq(Sessions) /\ IsInjective(clients)
  /\ Range(clients) = {s \in Sessions : conn[s] \in {"listed", "open"}}
  /\ conn \in [Sessions -> {"none", "tls", "listed", "open", "gone"}]

ServerOK ==
  /\ requestBy \in [Sessions -> SUBSET Users]
  /\ rh \in Nat /\ accepting \in BOOLEAN /\ crashed \in BOOLEAN

ClientOK ==
  /\ left \subseteq Sessions /\ logged \in [Sessions -> {"no", "asked", "yes"}]
  /\ peer \in [Sessions -> {"closed", "waiting", "ready", "try"}]
  /\ cmds \in 0..MaxCmds

HistoryOK == strayed \subseteq Sessions /\ chatty \subseteq Sessions

InvitesOK == invites \in [Sessions -> SUBSET Users]
ToServerOK == toServer \in [Sessions -> Seq(ToServer)]
ToClientOK == toClient \in [Sessions -> Seq(ToClient)]

LEMMA TypeParts ==
  TypeOK <=> /\ Shape /\ ListOK /\ ServerOK /\ ClientOK /\ InvitesOK
             /\ HistoryOK /\ ToServerOK /\ ToClientOK
BY DEF TypeOK, Shape, HandRec, ListOK, ServerOK, ClientOK, InvitesOK, HistoryOK,
       ToServerOK, ToClientOK

LEMMA UserIsUser == \A s \in Sessions : UserOf[s] \in Users
BY DEF Users

LEMMA ScannedSession == ASSUME Shape, Scans PROVE Scanned \in Sessions
BY ElementOfSeq DEF Shape, Scans, Scanned

(* The state of the clients keeps its type.                                 *)
LEMMA ClientStep ==
  ASSUME ClientOK, [Next]_vars
  PROVE  ClientOK'
<1>1. ASSUME NEW s \in Sessions, Connect(s) \/ AcceptFails(s) \/ ChatEnds(s)
      PROVE  ClientOK'
  BY <1>1
     DEF Connect, AcceptFails, ChatEnds, PeerTo, ClientOK
<1>2. ASSUME NEW s \in Sessions, Start(s)
      PROVE  ClientOK'
  BY <1>2
     DEF Start, StartLogin, StartRefuse, StartClosed, StartWelcome, ClientOK
<1>3. ASSUME NEW s \in Sessions, User(s)
      PROVE  ClientOK'
  <2>1. cmds' = cmds + 1 /\ cmds < MaxCmds
    BY <1>3 DEF User, UserConnect, UserRequest, UserAccept, UserReject, UserList,
               UserCancel, UserLeave, Command
  <2>2. cmds' \in 0..MaxCmds
    BY <2>1, ServerAssumption DEF ClientOK
  <2>3. /\ left' \subseteq Sessions /\ logged' \in [Sessions -> {"no", "asked", "yes"}]
        /\ peer' \in [Sessions -> {"closed", "waiting", "ready", "try"}]
    BY <1>3, ServerAssumption
       DEF User, UserConnect, UserRequest, UserAccept, UserReject, UserList,
           UserCancel, UserLeave, Leaves, ClientOK
  <2>4. QED
    BY <2>2, <2>3 DEF ClientOK
<1>4. ASSUME NEW s \in Sessions, Client(s)
      PROVE  ClientOK'
  <2>1. CASE ClientAnswered(s)
    BY <2>1 DEF ClientAnswered, ClientOK
  <2>2. CASE ClientInvited(s) \/ ClientDrops(s)
    BY <2>2 DEF ClientInvited, ClientDrops, ClientOK
  <2>3. CASE ClientRejected(s) \/ ClientInfos(s) \/ ClientTry(s)
    <3>1. /\ UNCHANGED <<left, logged, cmds>>
          /\ \E l \in {"closed", "ready", "try"} : peer' = [peer EXCEPT ![s] = l]
      BY <2>3 DEF ClientRejected, ClientInfos, ClientTry, PeerTo
    <3>2. QED
      BY <3>1 DEF ClientOK
  <2>4. CASE ClientAborts(s)
    BY <2>4 DEF ClientAborts, Leaves, ClientOK
  <2>5. QED
    BY <1>4, <2>1, <2>2, <2>3, <2>4 DEF Client
<1>5. CASE Rh
  BY <1>5
     DEF Rh, RhWait, RhSkip, RhScanned, RhClosed, RhRequestRefused, RhRequest,
         RhAccept, RhAcceptGone, RhReject, RhRejectFails, RhAvailable, RhDrop, RhNext,
         ClientOK
<1>6. ASSUME NEW h \in DOMAIN hand, Hand(h)
      PROVE  ClientOK'
  BY <1>6
     DEF Hand, HandAsk, HandReceive1, HandReceive2, HandTry, HandTryFails, HandEnd1,
         HandEnd2, ClientOK
<1>7. CASE UNCHANGED vars
  BY <1>7
     DEF ClientOK
<1>8. QED
  BY <1>1, <1>2, <1>3, <1>4, <1>5, <1>6, <1>7 DEF Next

(* The history only grows.                                                  *)
Older == left \subseteq left' /\ strayed \subseteq strayed' /\ chatty \subseteq chatty'

LEMMA HistoryStep ==
  ASSUME Shape, HistoryOK, [Next]_vars
  PROVE  HistoryOK' /\ Older
<1> USE DEF HistoryOK, Older
<1>1. ASSUME NEW s \in Sessions, Connect(s) \/ AcceptFails(s) \/ Start(s)
      PROVE  HistoryOK' /\ Older
  BY <1>1
     DEF Connect, AcceptFails, Start, StartLogin, StartRefuse, StartClosed, StartWelcome
<1>2. ASSUME NEW s \in Sessions, User(s) \/ ChatEnds(s)
      PROVE  HistoryOK' /\ Older
  BY <1>2
     DEF User, UserConnect, UserRequest, UserAccept, UserReject, UserList, UserCancel,
         UserLeave, Leaves, ChatEnds, Answers, Chats, Namesakes
<1>3. ASSUME NEW s \in Sessions, Client(s)
      PROVE  HistoryOK' /\ Older
  BY <1>3
     DEF Client, ClientAnswered, ClientInvited, ClientRejected, ClientInfos, ClientTry,
         ClientAborts, ClientDrops, Leaves
<1>4. CASE Rh
  <2>1. CASE RhReject
    BY <2>1, ElementOfSeq DEF RhReject, Shape
  <2>2. CASE ~RhReject
    BY <1>4, <2>2
       DEF Rh, RhWait, RhSkip, RhScanned, RhClosed, RhRequestRefused, RhRequest,
           RhAccept, RhAcceptGone, RhRejectFails, RhAvailable, RhDrop
  <2> QED BY <2>1, <2>2
<1>5. ASSUME NEW h \in DOMAIN hand, Hand(h)
      PROVE  HistoryOK' /\ Older
  BY <1>5
     DEF Hand, HandAsk, HandReceive1, HandReceive2, HandTry, HandTryFails, HandEnd1, HandEnd2
<1> QED BY <1>1, <1>2, <1>3, <1>4, <1>5 DEF Next

(* So does what requestHandler and the handshakes keep.                     *)
LEMMA ServerStep ==
  ASSUME Shape, ServerOK, [Next]_vars
  PROVE  ServerOK'
<1>1. ASSUME NEW s \in Sessions, Connect(s) \/ AcceptFails(s) \/ ChatEnds(s)
      PROVE  ServerOK'
  BY <1>1
     DEF Connect, AcceptFails, ChatEnds, PeerTo, ServerOK
<1>2. ASSUME NEW s \in Sessions, Start(s)
      PROVE  ServerOK'
  <2>1. crashed' \in BOOLEAN
    BY <1>2, Zenon
       DEF Start, StartLogin, StartRefuse, StartClosed, StartWelcome, MayCrash, ServerOK
  <2>2. UNCHANGED <<requestBy, rh, accepting>>
    BY <1>2 DEF Start, StartLogin, StartRefuse, StartClosed, StartWelcome
  <2> QED BY <2>1, <2>2, Zenon DEF ServerOK
<1>3. ASSUME NEW s \in Sessions, User(s)
      PROVE  ServerOK'
  BY <1>3
     DEF User, UserConnect, UserRequest, UserAccept, UserReject, UserList, UserCancel,
         UserLeave, Leaves, Command, ServerOK
<1>4. ASSUME NEW s \in Sessions, Client(s)
      PROVE  ServerOK'
  BY <1>4
     DEF Client, ClientAnswered, ClientInvited, ClientRejected, ClientInfos, ClientTry,
         ClientAborts, ClientDrops, Leaves, PeerTo, ServerOK
<1>5. CASE Rh
  <2>1. rh' \in Nat /\ accepting' \in BOOLEAN /\ crashed' \in BOOLEAN
    <3>1. rh' \in {0, 1, rh, rh + 1}
      BY <1>5
         DEF Rh, RhWait, RhSkip, RhScanned, RhClosed, RhRequestRefused, RhRequest,
             RhAccept, RhAcceptGone, RhReject, RhRejectFails, RhAvailable, RhDrop,
             RhNext
    <3>2. rh' \in Nat
      BY <3>1 DEF ServerOK
    <3>3. accepting' = accepting
      BY <1>5
         DEF Rh, RhWait, RhSkip, RhScanned, RhClosed, RhRequestRefused, RhRequest,
             RhAccept, RhAcceptGone, RhReject, RhRejectFails, RhAvailable, RhDrop,
             RhNext
    <3>4. crashed' \in BOOLEAN
      BY <1>5, Zenon
         DEF Rh, RhWait, RhSkip, RhScanned, RhClosed, RhRequestRefused, RhRequest,
             RhAccept, RhAcceptGone, RhReject, RhRejectFails, RhAvailable, RhDrop,
             MayCrash, ServerOK
    <3>5. QED
      BY <3>2, <3>3, <3>4, Zenon DEF ServerOK
  <2>2. CASE RhRequest
    <3>1. UserOf[Scanned] \in Users
      BY <2>2, ScannedSession, UserIsUser DEF RhRequest, Reads
    <3>2. PICK t : requestBy' = [requestBy EXCEPT ![t] = @ \union {UserOf[Scanned]}]
      BY <2>2 DEF RhRequest
    <3> HIDE DEF Scanned
    <3>3. requestBy' \in [Sessions -> SUBSET Users]
      BY <3>1, <3>2 DEF ServerOK
    <3>4. QED
      BY <2>1, <3>3 DEF ServerOK
  <2>3. CASE ~RhRequest
    <3>1. UNCHANGED requestBy
      BY <1>5, <2>3
         DEF Rh, RhWait, RhSkip, RhScanned, RhClosed, RhRequestRefused, RhRequest,
             RhAccept, RhAcceptGone, RhReject, RhRejectFails, RhAvailable, RhDrop,
             RhNext
    <3>2. QED
      BY <2>1, <3>1 DEF ServerOK
  <2>4. QED
    BY <2>2, <2>3
<1>6. ASSUME NEW h \in DOMAIN hand, Hand(h)
      PROVE  ServerOK'
  <2>1. crashed' \in BOOLEAN
    BY <1>6, Zenon
       DEF Hand, HandAsk, HandReceive1, HandReceive2, HandTry, HandTryFails, HandEnd1,
           HandEnd2, TellBoth, MayCrash, ServerOK
  <2>2. UNCHANGED <<requestBy, rh, accepting>>
    BY <1>6
       DEF Hand, HandAsk, HandReceive1, HandReceive2, HandTry, HandTryFails, HandEnd1,
           HandEnd2
  <2> QED BY <2>1, <2>2, Zenon DEF ServerOK
<1>7. CASE UNCHANGED vars
  BY <1>7
     DEF ServerOK
<1>8. QED
  BY <1>1, <1>2, <1>3, <1>4, <1>5, <1>6, <1>7 DEF Next

(* A message put in a queue, and one taken from it.                         *)
LEMMA QueueTypes ==
  ASSUME NEW M, NEW q \in [Sessions -> Seq(M)], NEW s \in Sessions
  PROVE  /\ \A m \in M : /\ [q EXCEPT ![s] = Append(@, m)] \in [Sessions -> Seq(M)]
                         /\ [q EXCEPT ![s] = Put(s, @, m)] \in [Sessions -> Seq(M)]
         /\ q[s] # <<>> => /\ Head(q[s]) \in M
                           /\ [q EXCEPT ![s] = Tail(@)] \in [Sessions -> Seq(M)]
<1>1. q[s] \in Seq(M)
  OBVIOUS
<1>2. ASSUME NEW m \in M
      PROVE  Append(q[s], m) \in Seq(M) /\ Put(s, q[s], m) \in Seq(M)
  BY <1>1 DEF Put
<1>3. q[s] # <<>> => Head(q[s]) \in M /\ Tail(q[s]) \in Seq(M)
  BY <1>1
<1>4. QED
  BY <1>2, <1>3

LEMMA ToServerTypes ==
  /\ \A b \in BOOLEAN : [type |-> "connect", good |-> b] \in ToServer
  /\ \A u \in Users : /\ [type |-> "request", peer |-> u] \in ToServer
                     /\ [type |-> "accept", peer |-> u] \in ToServer
                     /\ [type |-> "reject", peer |-> u] \in ToServer
  /\ [type |-> "infos"] \in ToServer /\ [type |-> "list"] \in ToServer
  /\ [type |-> "close"] \in ToServer
BY DEF ToServer

LEMMA ToClientTypes ==
  /\ \A l \in {"ok", "ko", "reject", "available", "get_infos"} : [type |-> l] \in ToClient
  /\ \A u \in Users : [type |-> "request_in", peer |-> u] \in ToClient
  /\ \A b \in BOOLEAN : [type |-> "try", good |-> b] \in ToClient
BY DEF ToClient

LEMMA ConsumeType ==
  ASSUME ToServerOK, NEW s \in Sessions, Readable(s), Consume(s)
  PROVE  ToServerOK'
BY QueueTypes DEF ToServerOK, Readable, Consume

LEMMA PostType ==
  ASSUME ToServerOK, NEW s \in Sessions, NEW m \in ToServer, Post(s, m)
  PROVE  ToServerOK'
BY QueueTypes DEF ToServerOK, Post

LEMMA TellType ==
  ASSUME ToClientOK, NEW s \in Sessions, NEW m \in ToClient, Tell(s, m)
  PROVE  ToClientOK'
BY QueueTypes DEF ToClientOK, Tell

LEMMA TakeType ==
  ASSUME ToClientOK, NEW s \in Sessions, toClient[s] # <<>>, Take(s)
  PROVE  ToClientOK'
BY QueueTypes DEF ToClientOK, Take

LEMMA HandSessions ==
  ASSUME Shape, NEW h \in DOMAIN hand
  PROVE  hand[h].c1 \in Sessions /\ hand[h].c2 \in Sessions
<1>1. hand[h] \in HandRec BY ElementOfSeq DEF Shape
<1>2. QED
  BY <1>1 DEF HandRec

(* The user is shown requests of users.                                     *)
LEMMA InvitesStep ==
  ASSUME InvitesOK, ToClientOK, [Next]_vars
  PROVE  InvitesOK'
<1>1. ASSUME NEW s \in Sessions, Connect(s) \/ AcceptFails(s) \/ ChatEnds(s)
      PROVE  InvitesOK'
  BY <1>1
     DEF Connect, AcceptFails, ChatEnds, PeerTo, InvitesOK
<1>2. ASSUME NEW s \in Sessions, Start(s)
      PROVE  InvitesOK'
  BY <1>2
     DEF Start, StartLogin, StartRefuse, StartClosed, StartWelcome, InvitesOK
<1>3. ASSUME NEW s \in Sessions, User(s)
      PROVE  InvitesOK'
  BY <1>3
     DEF User, UserConnect, UserRequest, UserAccept, UserReject, UserList, UserCancel,
         UserLeave, Leaves, Command, InvitesOK
<1>4. ASSUME NEW s \in Sessions, Client(s)
      PROVE  InvitesOK'
  <2>1. CASE ClientInvited(s)
    <3>1. Head(toClient[s]) \in ToClient /\ Head(toClient[s]).type = "request_in"
      BY <2>1, QueueTypes DEF ClientInvited, Arrives, ToClientOK
    <3>2. PICK m : m = Head(toClient[s]) /\ m \in ToClient /\ m.type = "request_in"
      BY <3>1
    <3>3. m.peer \in Users
      BY <3>2 DEF ToClient
    <3>4. invites' = [invites EXCEPT ![s] = @ \union {m.peer}]
      BY <2>1, <3>2 DEF ClientInvited
    <3>5. QED
      BY <3>3, <3>4 DEF InvitesOK
  <2>2. CASE ~ClientInvited(s)
    BY <1>4, <2>2 DEF Client, ClientAnswered, ClientRejected, ClientInfos, ClientTry, ClientAborts,
                      ClientDrops, InvitesOK
  <2>3. QED
    BY <2>1, <2>2
<1>5. CASE Rh
  BY <1>5
     DEF Rh, RhWait, RhSkip, RhScanned, RhClosed, RhRequestRefused, RhRequest,
         RhAccept, RhAcceptGone, RhReject, RhRejectFails, RhAvailable, RhDrop, RhNext,
         InvitesOK
<1>6. ASSUME NEW h \in DOMAIN hand, Hand(h)
      PROVE  InvitesOK'
  BY <1>6
     DEF Hand, HandAsk, HandReceive1, HandReceive2, HandTry, HandTryFails, HandEnd1,
         HandEnd2, InvitesOK
<1>7. CASE UNCHANGED vars
  BY <1>7
     DEF InvitesOK
<1>8. QED
  BY <1>1, <1>2, <1>3, <1>4, <1>5, <1>6, <1>7 DEF Next

(* What waits for the server are messages to it.                            *)
LEMMA ToServerStep ==
  ASSUME Shape, ToServerOK, [Next]_vars
  PROVE  ToServerOK'
<1>1. ASSUME NEW s \in Sessions, Connect(s) \/ AcceptFails(s) \/ ChatEnds(s)
      PROVE  ToServerOK'
  BY <1>1
     DEF Connect, AcceptFails, ChatEnds, PeerTo, ToServerOK
<1>2. ASSUME NEW s \in Sessions, Start(s)
      PROVE  ToServerOK'
  <2>1. CASE StartLogin(s) \/ StartRefuse(s)
    BY <2>1, ConsumeType DEF StartLogin, StartRefuse
  <2>2. CASE StartClosed(s) \/ StartWelcome(s)
    BY <2>2 DEF StartClosed, StartWelcome, ToServerOK
  <2>3. QED
    BY <1>2, <2>1, <2>2 DEF Start
<1>3. ASSUME NEW s \in Sessions, User(s)
      PROVE  ToServerOK'
  <2>1. CASE UserCancel(s)
    BY <2>1 DEF UserCancel, ToServerOK
  <2>2. CASE ~UserCancel(s)
    <3>1. PICK m \in ToServer : Post(s, m)
      BY <1>3, <2>2, ToServerTypes
         DEF User, UserConnect, UserRequest, UserAccept, UserReject, UserList, UserLeave, Leaves
    <3>2. QED
      BY <3>1, PostType
  <2>3. QED
    BY <2>1, <2>2
<1>4. ASSUME NEW s \in Sessions, Client(s)
      PROVE  ToServerOK'
  <2>1. CASE ClientInfos(s) \/ ClientAborts(s)
    BY <2>1, PostType, ToServerTypes DEF ClientInfos, ClientAborts, Leaves
  <2>2. CASE ~ClientInfos(s) /\ ~ClientAborts(s)
    BY <1>4, <2>2 DEF Client, ClientAnswered, ClientInvited, ClientRejected, ClientTry,
                      ClientDrops, ToServerOK
  <2>3. QED
    BY <2>1, <2>2
<1>5. CASE Rh
  <2>1. CASE /\ ~RhRequestRefused /\ ~RhRequest /\ ~RhAccept
             /\ ~RhReject /\ ~RhAvailable /\ ~RhDrop
    BY <1>5, <2>1
       DEF Rh, RhWait, RhSkip, RhScanned, RhClosed, RhAcceptGone, RhRejectFails, ToServerOK
  <2>2. CASE \/ RhRequestRefused \/ RhRequest \/ RhAccept
             \/ RhReject \/ RhAvailable \/ RhDrop
    <3>1. Consume(Scanned) /\ Readable(Scanned) /\ Scans
      BY <2>2 DEF RhRequestRefused, RhRequest, RhAccept, RhReject, RhAvailable, RhDrop, Reads
    <3>2. QED
      BY <3>1, ScannedSession, ConsumeType
  <2>3. QED
    BY <2>1, <2>2
<1>6. ASSUME NEW h \in DOMAIN hand, Hand(h)
      PROVE  ToServerOK'
  <2>1. CASE HandReceive1(h) \/ HandReceive2(h)
    BY <2>1, HandSessions, ConsumeType DEF HandReceive1, HandReceive2
  <2>2. CASE ~HandReceive1(h) /\ ~HandReceive2(h)
    BY <1>6, <2>2 DEF Hand, HandAsk, HandTry, HandTryFails, HandEnd1, HandEnd2, ToServerOK
  <2>3. QED
    BY <2>1, <2>2
<1>7. CASE UNCHANGED vars
  BY <1>7
     DEF ToServerOK
<1>8. QED
  BY <1>1, <1>2, <1>3, <1>4, <1>5, <1>6, <1>7 DEF Next

(* What waits for a client are messages to it.                              *)
LEMMA ToClientStep ==
  ASSUME Shape, ToClientOK, [Next]_vars
  PROVE  ToClientOK'
<1>1. ASSUME NEW s \in Sessions, Connect(s) \/ AcceptFails(s) \/ ChatEnds(s)
      PROVE  ToClientOK'
  BY <1>1
     DEF Connect, AcceptFails, ChatEnds, PeerTo, ToClientOK
<1>2. ASSUME NEW s \in Sessions, Start(s)
      PROVE  ToClientOK'
  <2>1. CASE StartRefuse(s) \/ StartWelcome(s)
    BY <2>1, TellType, ToClientTypes DEF StartRefuse, StartWelcome
  <2>2. CASE StartClosed(s) \/ StartLogin(s)
    BY <2>2 DEF StartClosed, StartLogin, ToClientOK
  <2>3. QED
    BY <1>2, <2>1, <2>2 DEF Start
<1>3. ASSUME NEW s \in Sessions, User(s)
      PROVE  ToClientOK'
  BY <1>3
     DEF User, UserConnect, UserRequest, UserAccept, UserReject, UserList, UserCancel,
         UserLeave, Leaves, Command, ToClientOK
<1>4. ASSUME NEW s \in Sessions, Client(s)
      PROVE  ToClientOK'
  <2>1. CASE ClientAborts(s)
    BY <2>1 DEF ClientAborts, ToClientOK
  <2>2. CASE ~ClientAborts(s)
    <3>1. toClient[s] # <<>> /\ Take(s)
      BY <1>4, <2>2 DEF Client, ClientAnswered, ClientInvited, ClientRejected, ClientInfos,
                        ClientTry, ClientDrops, Arrives
    <3>2. QED
      BY <3>1, TakeType
  <2>3. QED
    BY <2>1, <2>2
<1>5. CASE Rh
  <2>1. CASE ~RhRequestRefused /\ ~RhRequest /\ ~RhReject /\ ~RhAvailable
    BY <1>5, <2>1
       DEF Rh, RhWait, RhSkip, RhScanned, RhClosed, RhAccept, RhAcceptGone, RhRejectFails,
           RhDrop, ToClientOK
  <2>2. CASE RhRequestRefused \/ RhAvailable
    <3>1. PICK m \in ToClient : Tell(Scanned, m)
      BY <2>2, ToClientTypes DEF RhRequestRefused, RhAvailable
    <3>2. Scanned \in Sessions
      BY <2>2, ScannedSession DEF RhRequestRefused, RhAvailable, Reads
    <3>3. QED
      BY <3>1, <3>2, TellType
  <2>3. CASE RhRequest
    <3>1. UserOf[Scanned] \in Users
      BY <2>3, ScannedSession, UserIsUser DEF RhRequest, Reads
    <3>2. \A u : ClientsOf(u) \subseteq Sessions
      BY ElementOfSeq DEF ClientsOf, Named, Shape
    <3>3. PICK t \in Sessions : Tell(t, [type |-> "request_in", peer |-> UserOf[Scanned]])
      BY <2>3, <3>2 DEF RhRequest
    <3>4. QED
      BY <3>1, <3>3, ToClientTypes, TellType
  <2>4. CASE RhReject
    <3>1. PICK i \in DOMAIN clients : Tell(clients[i], [type |-> "reject"])
      BY <2>4 DEF RhReject
    <3>2. clients[i] \in Sessions
      BY <3>1, ElementOfSeq DEF Shape
    <3>3. [type |-> "reject"] \in ToClient
      BY ToClientTypes
    <3>4. QED
      BY <3>1, <3>2, <3>3, TellType
  <2>5. QED
    BY <2>1, <2>2, <2>3, <2>4
<1>6. ASSUME NEW h \in DOMAIN hand, Hand(h)
      PROVE  ToClientOK'
  <2>1. ASSUME NEW m \in ToClient, NEW n \in ToClient, TellBoth(h, m, n)
        PROVE  ToClientOK'
    <3>1. PICK c1 \in Sessions, c2 \in Sessions : c1 = hand[h].c1 /\ c2 = hand[h].c2
      BY HandSessions
    <3>2. PICK told : /\ told = [toClient EXCEPT ![c1] = Put(c1, @, m)]
                      /\ toClient' = [told EXCEPT ![c2] = Put(c2, @, n)]
      BY <2>1, <3>1 DEF TellBoth
    <3>3. told \in [Sessions -> Seq(ToClient)]
      BY <3>2, QueueTypes DEF ToClientOK
    <3>4. QED
      BY <3>2, <3>3, QueueTypes DEF ToClientOK
  <2>2. CASE HandAsk(h)
    BY <2>1, <2>2, ToClientTypes DEF HandAsk
  <2>3. CASE HandTry(h)
    <3>1. \A r : [type |-> "try", good |-> r = "infos"] \in ToClient
      BY ToClientTypes
    <3>2. QED
      BY <2>1, <2>3, <3>1 DEF HandTry
  <2>4. CASE ~HandAsk(h) /\ ~HandTry(h)
    BY <1>6, <2>4 DEF Hand, HandReceive1, HandReceive2, HandTryFails, HandEnd1, HandEnd2, ToClientOK
  <2>5. QED
    BY <2>2, <2>3, <2>4
<1>7. CASE UNCHANGED vars
  BY <1>7
     DEF ToClientOK
<1>8. QED
  BY <1>1, <1>2, <1>3, <1>4, <1>5, <1>6, <1>7 DEF Next

(* clientListAdd and clientListDelete on a list without repetition.         *)
LEMMA AddInjective ==
  ASSUME NEW S, NEW q \in Seq(S), IsInjective(q), NEW e \in S, e \notin Range(q)
  PROVE  /\ Append(q, e) \in Seq(S) /\ IsInjective(Append(q, e))
         /\ Range(Append(q, e)) = Range(q) \union {e}
<1>1. /\ Append(q, e) \in Seq(S) /\ Len(q) \in Nat
      /\ DOMAIN q = 1..Len(q) /\ DOMAIN Append(q, e) = 1..(Len(q) + 1)
      /\ \A i \in 1..Len(q) : Append(q, e)[i] = q[i]
      /\ Append(q, e)[Len(q) + 1] = e
  OBVIOUS
<1> DEFINE a == Append(q, e)
<1> HIDE DEF a
<1>2. /\ a \in Seq(S) /\ DOMAIN a = 1..(Len(q) + 1)
      /\ \A i \in 1..Len(q) : a[i] = q[i]
      /\ a[Len(q) + 1] = e
  BY <1>1 DEF a
<1>3. \A i \in 1..Len(q) : q[i] # e
  BY <1>1 DEF Range
<1>4. IsInjective(a)
  BY <1>1, <1>2, <1>3 DEF IsInjective
<1>5. Range(a) = Range(q) \union {e}
  BY <1>1, <1>2 DEF Range
<1>6. QED
  BY <1>2, <1>4, <1>5 DEF a

LEMMA DeleteInjective ==
  ASSUME NEW S, NEW q \in Seq(S), IsInjective(q), NEW k \in DOMAIN q
  PROVE  /\ RemoveAt(q, k) \in Seq(S) /\ IsInjective(RemoveAt(q, k))
         /\ Range(RemoveAt(q, k)) = Range(q) \ {q[k]}
<1>1. Len(q) \in Nat /\ DOMAIN q = 1..Len(q) /\ k \in 1..Len(q)
  OBVIOUS
<1> DEFINE r == RemoveAt(q, k)
<1>2. /\ r \in Seq(S) /\ Len(r) = Len(q) - 1 /\ DOMAIN r = 1..(Len(q) - 1)
      /\ \A i \in 1..(Len(q) - 1) : r[i] = IF i < k THEN q[i] ELSE q[i + 1]
  <2>1. r \in Seq(S)
    BY <1>1, RemoveAtType
  <2>2. PICK n : n = Len(q) /\ n \in Nat
    BY <1>1
  <2>3. k \in 1..n
    BY <1>1, <2>2
  <2>4. PICK x, y : x = SubSeq(q, 1, k - 1) /\ y = SubSeq(q, k + 1, n)
    OBVIOUS
  <2>5. /\ x \in Seq(S) /\ Len(x) = k - 1
        /\ \A i \in 1..(k - 1) : x[i] = q[i]
    BY <2>2, <2>3, <2>4
  <2>6. /\ y \in Seq(S) /\ Len(y) = n - k
        /\ \A i \in 1..(n - k) : y[i] = q[k + i]
    BY <2>2, <2>3, <2>4
  <2>7. r = x \o y
    BY <2>2, <2>4 DEF RemoveAt
  <2> HIDE DEF r
  <2>8. /\ Len(r) = n - 1
        /\ \A i \in 1..(n - 1) : r[i] = IF i <= k - 1 THEN x[i] ELSE y[i - (k - 1)]
    <3>1. /\ Len(r) = Len(x) + Len(y)
          /\ \A i \in 1..(Len(x) + Len(y)) :
               r[i] = IF i <= Len(x) THEN x[i] ELSE y[i - Len(x)]
      BY <2>5, <2>6, <2>7, ConcatProperties
    <3>2. Len(x) + Len(y) = n - 1
      <4>1. Len(x) = k - 1 /\ Len(y) = n - k
        BY <2>5, <2>6
      <4>2. k \in Int /\ n \in Int
        BY <2>2, <2>3
      <4>3. QED
        BY <4>1, <4>2
    <3>3. PICK a : a = k - 1
      OBVIOUS
    <3>4. /\ Len(r) = n - 1
          /\ \A i \in 1..(n - 1) : r[i] = IF i <= a THEN x[i] ELSE y[i - a]
      BY <2>5, <3>1, <3>2, <3>3
    <3>5. QED
      BY <3>3, <3>4
  <2>9. \A i \in 1..(n - 1) : r[i] = IF i < k THEN q[i] ELSE q[i + 1]
    <3> SUFFICES ASSUME NEW i \in 1..(n - 1) PROVE r[i] = IF i < k THEN q[i] ELSE q[i + 1]
      OBVIOUS
    <3>1. CASE i < k
      BY <2>2, <2>3, <2>5, <2>8, <3>1
    <3>2. CASE i >= k
      <4>1. PICK j : j = i - (k - 1) /\ j \in 1..(n - k) /\ k + j = i + 1
        BY <2>2, <2>3, <3>2
      <4>2. r[i] = y[j]
        BY <2>2, <2>3, <2>8, <3>2, <4>1
      <4>3. QED
        BY <2>3, <2>6, <3>2, <4>1, <4>2
    <3>3. QED
      BY <2>2, <2>3, <3>1, <3>2
  <2>10. DOMAIN r = 1..Len(r)
    BY <2>1
  <2>11. QED
    BY <2>1, <2>2, <2>8, <2>9, <2>10
<1> HIDE DEF r
<1>3. IsInjective(r)
  <2> SUFFICES ASSUME NEW a \in DOMAIN r, NEW b \in DOMAIN r, r[a] = r[b] PROVE a = b
    BY DEF IsInjective
  <2>1. PICK c \in DOMAIN q : r[a] = q[c] /\ c = IF a < k THEN a ELSE a + 1
    BY <1>1, <1>2
  <2>2. PICK d \in DOMAIN q : r[b] = q[d] /\ d = IF b < k THEN b ELSE b + 1
    BY <1>1, <1>2
  <2>3. c = d
    BY <2>1, <2>2 DEF IsInjective
  <2>4. QED
    BY <1>1, <1>2, <2>1, <2>2, <2>3
<1>4. \A i \in DOMAIN r : r[i] \in Range(q) /\ r[i] # q[k]
  BY <1>1, <1>2 DEF IsInjective, Range
<1>5. \A i \in DOMAIN q : i # k => \E j \in DOMAIN r : r[j] = q[i]
  <2> SUFFICES ASSUME NEW i \in DOMAIN q, i # k PROVE \E j \in DOMAIN r : r[j] = q[i]
    OBVIOUS
  <2>1. CASE i < k
    BY <1>1, <1>2, <2>1
  <2>2. CASE i > k
    <3>1. i - 1 \in DOMAIN r /\ r[i - 1] = q[i]
      BY <1>1, <1>2, <2>2
    <3>2. QED
      BY <3>1
  <2>3. QED
    BY <1>1, <2>1, <2>2
<1>6. Range(r) = Range(q) \ {q[k]}
  <2>1. Range(r) = {r[i] : i \in DOMAIN r} /\ Range(q) = {q[i] : i \in DOMAIN q}
    BY DEF Range
  <2>2. QED
    BY <1>4, <1>5, <2>1
<1>7. QED
  BY <1>2, <1>3, <1>6 DEF r

(* The list and the connections change together.                            *)
LEMMA ListStep ==
  ASSUME ListOK, Shape, [Next]_vars
  PROVE  ListOK'
<1>1. ASSUME NEW s \in Sessions, Connect(s) \/ AcceptFails(s) \/ ChatEnds(s)
      PROVE  ListOK'
  BY <1>1 DEF Connect, AcceptFails, ChatEnds, ListOK
<1>2. ASSUME NEW s \in Sessions, Start(s)
      PROVE  ListOK'
  <2>1. CASE StartLogin(s)
    <3>1. /\ conn[s] = "tls" /\ conn' = [conn EXCEPT ![s] = "listed"]
          /\ clients' = Append(clients, s)
      BY <2>1 DEF StartLogin
    <3>2. s \notin Range(clients)
      BY <3>1 DEF ListOK
    <3>3. /\ clients' \in Seq(Sessions) /\ IsInjective(clients')
          /\ Range(clients') = Range(clients) \union {s}
      BY <3>1, <3>2, AddInjective DEF ListOK
    <3>4. /\ conn' \in [Sessions -> {"none", "tls", "listed", "open", "gone"}]
          /\ {t \in Sessions : conn'[t] \in {"listed", "open"}}
               = {t \in Sessions : conn[t] \in {"listed", "open"}} \union {s}
      BY <3>1 DEF ListOK
    <3>5. QED
      BY <3>3, <3>4 DEF ListOK
  <2>2. CASE StartRefuse(s) \/ StartClosed(s) \/ StartWelcome(s)
    BY <2>2 DEF StartRefuse, StartClosed, StartWelcome, ListOK
  <2>3. QED
    BY <1>2, <2>1, <2>2 DEF Start
<1>3. ASSUME NEW s \in Sessions, User(s)
      PROVE  ListOK'
  BY <1>3
     DEF User, UserConnect, UserRequest, UserAccept, UserReject, UserList, UserCancel,
         UserLeave, Leaves, Command, ListOK
<1>4. ASSUME NEW s \in Sessions, Client(s)
      PROVE  ListOK'
  BY <1>4
     DEF Client, ClientAnswered, ClientInvited, ClientRejected, ClientInfos, ClientTry,
         ClientAborts, ClientDrops, Leaves, PeerTo, ListOK
<1>5. CASE Rh
  <2>1. CASE RhClosed
    <3>1. PICK k \in DOMAIN clients : k = rh
      BY <2>1 DEF RhClosed, Reads, Scans
    <3>2. PICK s \in Sessions : s = clients[k]
      BY <3>1, ElementOfSeq DEF Shape
    <3>3. clients' = RemoveAt(clients, k) /\ conn' = [conn EXCEPT ![s] = "gone"]
      BY <2>1, <3>1, <3>2 DEF RhClosed, Scanned
    <3>4. /\ clients' \in Seq(Sessions) /\ IsInjective(clients')
          /\ Range(clients') = Range(clients) \ {s}
      BY <3>1, <3>2, <3>3, DeleteInjective DEF ListOK
    <3>5. /\ conn' \in [Sessions -> {"none", "tls", "listed", "open", "gone"}]
          /\ {t \in Sessions : conn'[t] \in {"listed", "open"}}
               = {t \in Sessions : conn[t] \in {"listed", "open"}} \ {s}
      BY <3>3 DEF ListOK
    <3>6. QED
      BY <3>4, <3>5 DEF ListOK
  <2>2. CASE ~RhClosed
    BY <1>5, <2>2
       DEF Rh, RhWait, RhSkip, RhScanned, RhRequestRefused, RhRequest, RhAccept, RhAcceptGone,
           RhReject, RhRejectFails, RhAvailable, RhDrop, ListOK
  <2>3. QED
    BY <2>1, <2>2
<1>6. ASSUME NEW h \in DOMAIN hand, Hand(h)
      PROVE  ListOK'
  BY <1>6
     DEF Hand, HandAsk, HandReceive1, HandReceive2, HandTry, HandTryFails, HandEnd1,
         HandEnd2, ListOK
<1>7. CASE UNCHANGED vars
  BY <1>7
     DEF ListOK
<1>8. QED
  BY <1>1, <1>2, <1>3, <1>4, <1>5, <1>6, <1>7 DEF Next

LEMMA TypeInit == Init => TypeOK
<1> SUFFICES ASSUME Init PROVE TypeOK
  OBVIOUS
<1>1. ListOK
  <2>1. clients \in Seq(Sessions) /\ IsInjective(clients) /\ Range(clients) \subseteq Sessions
    BY ServerAssumption, ElementOfSeq DEF Init, Range
  <2>2. conn = [s \in Sessions |-> IF s \in Range(clients) THEN "open" ELSE "none"]
    BY DEF Init
  <2>3. /\ conn \in [Sessions -> {"none", "tls", "listed", "open", "gone"}]
        /\ \A s \in Sessions : conn[s] \in {"listed", "open"} <=> s \in Range(clients)
    BY <2>2
  <2>4. QED
    BY <2>1, <2>3 DEF ListOK
<1>2. ServerOK /\ ClientOK /\ InvitesOK /\ HistoryOK
  <2>1. ServerOK /\ InvitesOK /\ HistoryOK
    BY DEF Init, ServerOK, InvitesOK, HistoryOK
  <2>2. cmds \in 0..MaxCmds
    BY ServerAssumption DEF Init
  <2>3. QED
    BY <2>1, <2>2 DEF Init, ClientOK
<1>3. ToServerOK /\ ToClientOK
  BY DEF Init, ToServerOK, ToClientOK
<1>4. Shape
  BY ServerAssumption DEF Init, Shape, Etats
<1>5. QED
  BY <1>1, <1>2, <1>3, <1>4, TypeParts

(* request-handler.c: the ClientList holds each session that has logged in  *)
(* and has not been deleted, once, and every variable keeps its type, for   *)
(* any sessions, users and habits.                                          *)
THEOREM ServerTypeCorrect == Spec => []TypeOK
<1>1. Init => TypeOK
  BY TypeInit
<1>2. Shape /\ Shape' /\ TypeOK /\ [Next]_vars => TypeOK'
  <2> SUFFICES ASSUME Shape, Shape', TypeOK, [Next]_vars PROVE TypeOK'
    OBVIOUS
  <2>1. /\ ListOK /\ ServerOK /\ ClientOK /\ InvitesOK
        /\ HistoryOK /\ ToServerOK /\ ToClientOK
    BY TypeParts
  <2>2. /\ ListOK' /\ ServerOK' /\ ClientOK' /\ InvitesOK'
        /\ HistoryOK' /\ ToServerOK' /\ ToClientOK'
    BY <2>1, ListStep, ServerStep, ClientStep, InvitesStep, HistoryStep, ToServerStep,
       ToClientStep
  <2>3. (TypeOK <=> /\ Shape /\ ListOK /\ ServerOK /\ ClientOK /\ InvitesOK
                    /\ HistoryOK /\ ToServerOK /\ ToClientOK)'
    BY TypeParts, PTL
  <2>4. QED
    BY <2>2, <2>3
<1>3. QED
  BY <1>1, <1>2, ShapeHolds, PTL DEF Spec

==============================================================================

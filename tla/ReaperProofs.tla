---------------------------- MODULE ReaperProofs ----------------------------
(***************************************************************************)
(* Theorems about the joining of the server's threads, for any number of   *)
(* connections and handshakes and any initial size of the List.            *)
(***************************************************************************)
EXTENDS ThreadReaper, FiniteSetTheorems, SequenceTheorems, TLAPS

USE DEF mainVars, listVars, vars

(* One name for every step. *)
LEMMA StepCases ==
  ASSUME [Next]_vars
  PROVE  \/ Start \/ Deliver \/ HandlerPop \/ HandlerJoin
         \/ Work
         \/ \E t \in Threads : ThreadAdd(t)
         \/ \E t \in Threads : ThreadKill(t)
         \/ UNCHANGED vars
BY DEF Next, Handler, Ending

(* Steps that touch neither the List nor the signal, and after which no     *)
(* thread is newly about to send one.                                       *)
Killing == {t \in Threads : pc[t] = "kill"}
Quiet ==
  /\ UNCHANGED <<list, memory, pending, joining>>
  /\ main' \in MainPc /\ (main' = "pop" <=> main = "pop") /\ (main' = "join" <=> main = "join")
  /\ UNCHANGED back
  /\ pc' \in [Threads -> ThreadPc]
  /\ Killing' = Killing \/ \E t \in Threads : Killing' = Killing \ {t}
  /\ end' \in BOOLEAN /\ dead' \in BOOLEAN

LEMMA StartIsQuiet == ASSUME TypeOK, Start PROVE Quiet
<1> USE DEF TypeOK, Threads, Permanent, MainPc, ThreadPc, Goto, Quiet
<1>1. ASSUME NEW t \in Permanent, NEW next \in {"handler", "cli", "mask"}, MainCreate(t, next)
      PROVE  Quiet
  <2>1. Killing' = Killing \ {t} BY <1>1 DEF MainCreate, Killing
  <2>2. pc' \in [Threads -> ThreadPc] BY <1>1 DEF MainCreate
  <2>3. UNCHANGED <<list, memory, pending, joining, back, end, dead>> BY <1>1 DEF MainCreate
  <2>4. main' = next /\ main \in Permanent BY <1>1 DEF MainCreate
  <2> QED BY <2>1, <2>2, <2>3, <2>4
<1>2. CASE MainMask
  <2>1. Killing' = Killing BY <1>2 DEF MainMask, Killing
  <2> QED BY <1>2, <2>1 DEF MainMask
<1>3. CASE MainPause
  <2>1. Killing' = Killing BY <1>3 DEF MainPause, Killing
  <2> QED BY <1>3, <2>1 DEF MainPause
<1> QED BY <1>1, <1>2, <1>3 DEF Start

LEMMA WorkIsQuiet == ASSUME TypeOK, Work PROVE Quiet
<1> USE DEF TypeOK, Threads, Permanent, MainPc, ThreadPc, Goto, Quiet, Killing
<1>1. ASSUME NEW t \in Conns, AcceptOne(t) PROVE Quiet
  <2>1. pc' \in [Threads -> ThreadPc] BY <1>1 DEF AcceptOne
  <2>2. Killing' = Killing BY <1>1 DEF AcceptOne
  <2> QED BY <1>1, <2>1, <2>2 DEF AcceptOne
<1>2. ASSUME NEW t \in Conns \union Hands, ConnEnds(t) PROVE Quiet BY <1>2 DEF ConnEnds
<1>8. ASSUME NEW t \in Hands, HandStarts(t) PROVE Quiet
  <2>1. Killing' = Killing BY <1>8 DEF HandStarts
  <2> QED BY <1>8, <2>1 DEF HandStarts
<1>9. CASE AcceptTest BY <1>9 DEF AcceptTest
<1>3. CASE AcceptFails BY <1>3 DEF AcceptFails
<1>4. CASE RequestsEnd BY <1>4 DEF RequestsEnd
<1>5. CASE RequestsFail BY <1>5 DEF RequestsFail
<1>6. CASE CliCommand BY <1>6 DEF CliCommand
<1>7. CASE CliFails BY <1>7 DEF CliFails
<1> QED BY <1>1, <1>2, <1>3, <1>4, <1>5, <1>6, <1>7, <1>8, <1>9 DEF Work

(* Front and Last of a list that is not empty. *)
LEMMA PoppedList ==
  ASSUME NEW S, NEW q \in Seq(S), q # <<>>
  PROVE  /\ Len(q) \in Nat /\ Len(q) > 0
         /\ Front(q) \in Seq(S) /\ Last(q) \in S
         /\ Len(Front(q)) = Len(q) - 1
<1>1. Len(q) \in Nat /\ Len(q) > 0 BY EmptySeq
<1>2. q[Len(q)] \in S /\ \A i \in 1..(Len(q) - 1) : q[i] \in S BY <1>1, ElementOfSeq
<1> DEFINE f == SubSeq(q, 1, Len(q) - 1)
<1>3. /\ f \in Seq(S)
      /\ Len(f) = IF 1 <= Len(q) - 1 THEN Len(q) - 1 - 1 + 1 ELSE 0
  BY <1>1, <1>2, SubSeqProperties
<1> DEFINE n == Len(q)
<1>4. n \in Nat /\ n > 0 BY <1>1
<1>5. Len(f) = IF 1 <= n - 1 THEN n - 1 - 1 + 1 ELSE 0 BY <1>3
<1>6. f = Front(q) /\ q[Len(q)] = Last(q) BY DEF Front, Last
<1> HIDE DEF f, n
<1>7. Len(f) = n - 1 BY <1>4, <1>5
<1> QED BY <1>1, <1>2, <1>3, <1>6, <1>7 DEF n

------------------------------------------------------------------------------
(* Every variable keeps its type, and listAdd and listPop (list.c) never    *)
(* hold more ids than the memory they have reallocated.                     *)
THEOREM ReaperTypeCorrect == Spec => []TypeOK
<1>1. Init => TypeOK
  <2> SUFFICES ASSUME Init PROVE TypeOK OBVIOUS
  <2>1. list \in Seq(Threads) /\ Len(list) = 0 BY EmptySeq DEF Init
  <2>2. memory \in Nat /\ pc \in [Threads -> ThreadPc]
    BY ReaperAssumption DEF Init, ThreadPc
  <2>3. main \in MainPc /\ back \in {"print", "pause"} /\ joining \in Threads \union {NoThread} /\ main # "join"
    BY DEF Init, MainPc, Permanent
  <2>4. pending \in BOOLEAN /\ end \in BOOLEAN /\ dead \in BOOLEAN BY DEF Init
  <2>5. Len(list) <= memory BY <2>1, <2>2
  <2> QED BY <2>1, <2>2, <2>3, <2>4, <2>5 DEF TypeOK
<1>2. TypeOK /\ [Next]_vars => TypeOK'
  <2> SUFFICES ASSUME TypeOK, [Next]_vars PROVE TypeOK'
    OBVIOUS
  <2>1. ASSUME Quiet PROVE TypeOK' BY <2>1 DEF Quiet, TypeOK
  <2>2. CASE Start BY <2>1, <2>2, StartIsQuiet
  <2>3. CASE Work BY <2>1, <2>3, WorkIsQuiet
  <2>4. CASE Deliver BY <2>4 DEF Deliver, TypeOK, MainPc
  <2>5. CASE HandlerPop
    <3>1. list \in Seq(Threads) /\ list # <<>> BY <2>5 DEF TypeOK, HandlerPop
    <3>2. /\ Len(list) \in Nat /\ Len(list) > 0
          /\ Front(list) \in Seq(Threads) /\ Last(list) \in Threads
          /\ Len(Front(list)) = Len(list) - 1
      BY <3>1, PoppedList
    <3>3. list' = Front(list) /\ memory' = Len(list) - 1 /\ joining' = Last(list)
      BY <2>5 DEF HandlerPop, ListPop
    <3>4. list' \in Seq(Threads) /\ memory' \in Nat /\ Len(list') <= memory'
      BY <3>2, <3>3
    <3> QED BY <2>5, <3>2, <3>3, <3>4 DEF HandlerPop, TypeOK, MainPc
  <2>7. CASE HandlerJoin BY <2>7 DEF HandlerJoin, TypeOK, MainPc
  <2>8. ASSUME NEW t \in Threads, ThreadAdd(t) PROVE TypeOK'
    <3>1. /\ Append(list, t) \in Seq(Threads) /\ Len(list) \in Nat
          /\ Len(Append(list, t)) = Len(list) + 1
      BY DEF TypeOK
    <3>2. list' = Append(list, t) /\ memory' = IF Len(list) = memory THEN memory + 8 ELSE memory
      BY <2>8 DEF ThreadAdd, ListAdd
    <3>3. memory' \in Nat /\ Len(list') <= memory' BY <3>1, <3>2 DEF TypeOK
    <3>4. pc' \in [Threads -> ThreadPc] BY <2>8 DEF ThreadAdd, Goto, TypeOK, ThreadPc
    <3> QED BY <2>8, <3>1, <3>2, <3>3, <3>4 DEF ThreadAdd, TypeOK
  <2>9. ASSUME NEW t \in Threads, ThreadKill(t) PROVE TypeOK'
    BY <2>9 DEF ThreadKill, Goto, TypeOK, ThreadPc
  <2>10. CASE UNCHANGED vars BY <2>10 DEF TypeOK
  <2> QED BY <2>2, <2>3, <2>4, <2>5, <2>7, <2>8, <2>9, <2>10, StepCases
<1> QED BY <1>1, <1>2, PTL DEF Spec

------------------------------------------------------------------------------
(* The ids in the List cover the threads that are about to send SIGUSR1,    *)
(* the pending signal and the one whose handler is about to pop.            *)
Owed == (IF pending THEN 1 ELSE 0) + (IF main = "pop" THEN 1 ELSE 0)
Credit == IsFiniteSet(Killing) /\ Cardinality(Killing) + Owed <= Len(list)

LEMMA CreditFrom ==
  ASSUME TypeOK, Credit, TypeOK', IsFiniteSet(Killing'),
         Cardinality(Killing') + Owed' - Len(list')
           <= Cardinality(Killing) + Owed - Len(list)
  PROVE  Credit'
<1>1. Len(list) \in Nat /\ Len(list') \in Nat BY DEF TypeOK
<1>2. Cardinality(Killing) \in Nat /\ Cardinality(Killing') \in Nat
  BY FS_CardinalityType DEF Credit
<1>3. Owed \in Nat /\ Owed' \in Nat BY DEF Owed
<1> QED BY <1>1, <1>2, <1>3 DEF Credit

(* signal_handler (server/main.c) never calls listPop on an empty list: a   *)
(* signal that is delivered has its own id in the list, for listAdd comes   *)
(* before pthread_kill in every thread and merged signals only leave more   *)
(* ids behind.                                                              *)
THEOREM PopAlwaysListed == Spec => []PopsListed
<1>1. Init => Credit
  <2> SUFFICES ASSUME Init PROVE Credit OBVIOUS
  <2>1. Killing = {} BY DEF Init, Killing
  <2>2. Owed = 0
    <3>1. ~pending /\ main # "pop" BY DEF Init
    <3> QED BY <3>1 DEF Owed
  <2>3. Len(list) = 0 BY EmptySeq DEF Init
  <2> QED BY <2>1, <2>2, <2>3, FS_EmptySet DEF Credit
<1>2. TypeOK /\ TypeOK' /\ Credit /\ [Next]_vars => Credit'
  <2> SUFFICES ASSUME TypeOK, TypeOK', Credit, [Next]_vars PROVE Credit'
    OBVIOUS
  <2>0. IsFiniteSet(Killing) /\ Cardinality(Killing) \in Nat /\ Len(list) \in Nat
    BY FS_CardinalityType DEF Credit, TypeOK
  <2>1. ASSUME Killing' = Killing, Owed' = Owed, list' = list PROVE Credit'
    BY <2>1 DEF Credit
  <2>2. ASSUME Quiet PROVE Credit'
    <3>1. Owed' = Owed /\ list' = list BY <2>2 DEF Quiet, Owed
    <3>2. ASSUME NEW t, Killing' = Killing \ {t} PROVE Credit'
      <4>1. IsFiniteSet(Killing') /\ Cardinality(Killing') <= Cardinality(Killing)
        <5>1. /\ IsFiniteSet(Killing \ {t})
              /\ Cardinality(Killing \ {t}) =
                   IF t \in Killing THEN Cardinality(Killing) - 1 ELSE Cardinality(Killing)
          BY <2>0, FS_RemoveElement
        <5> QED BY <2>0, <3>2, <5>1
      <4>2. Cardinality(Killing') \in Nat BY <4>1, FS_CardinalityType
      <4>3. Owed \in Nat BY DEF Owed
      <4> QED BY <2>0, <3>1, <4>1, <4>2, <4>3, CreditFrom
    <3> QED BY <2>1, <2>2, <3>1, <3>2 DEF Quiet
  <2>3. CASE Start BY <2>2, <2>3, StartIsQuiet
  <2>4. CASE Work BY <2>2, <2>4, WorkIsQuiet
  <2>5. CASE Deliver
    <3>1. Killing' = Killing /\ list' = list BY <2>5 DEF Deliver, Killing
    <3>2. Owed' = Owed BY <2>5 DEF Deliver, Owed, TypeOK
    <3> QED BY <2>1, <3>1, <3>2
  <2>6. CASE HandlerPop
    <3>1. Killing' = Killing BY <2>6 DEF HandlerPop, Killing
    <3>2. Owed' = Owed - 1 /\ Owed \in Nat /\ Owed' \in Nat
      BY <2>6 DEF HandlerPop, Owed
    <3>3. Len(list') = Len(list) - 1
      BY <2>6, PoppedList DEF HandlerPop, ListPop, TypeOK
    <3> QED BY <2>0, <3>1, <3>2, <3>3, CreditFrom
  <2>8. CASE HandlerJoin
    BY <2>1, <2>8 DEF HandlerJoin, Killing, Owed, TypeOK
  <2>9. ASSUME NEW t \in Threads, ThreadAdd(t) PROVE Credit'
    <3>1. Killing' = Killing \union {t} /\ t \notin Killing
      BY <2>9 DEF ThreadAdd, Goto, Killing, TypeOK
    <3>2. IsFiniteSet(Killing') /\ Cardinality(Killing') = Cardinality(Killing) + 1
      BY <2>0, <3>1, FS_AddElement
    <3>3. Owed' = Owed /\ Owed \in Nat BY <2>9 DEF ThreadAdd, Owed
    <3>4. Len(list') = Len(list) + 1 BY <2>9 DEF ThreadAdd, ListAdd, TypeOK
    <3> QED BY <2>0, <3>2, <3>3, <3>4, CreditFrom
  <2>10. ASSUME NEW t \in Threads, ThreadKill(t) PROVE Credit'
    <3>1. Killing' = Killing \ {t} /\ t \in Killing
      BY <2>10 DEF ThreadKill, Goto, Killing, TypeOK
    <3>2. IsFiniteSet(Killing') /\ Cardinality(Killing') = Cardinality(Killing) - 1
      BY <2>0, <3>1, FS_RemoveElement
    <3>3. Owed \in Nat /\ Owed' \in Nat /\ Owed' <= Owed + 1
      BY <2>10 DEF ThreadKill, Owed
    <3>4. list' = list BY <2>10 DEF ThreadKill
    <3> QED BY <2>0, <3>2, <3>3, <3>4, CreditFrom
  <2>11. CASE UNCHANGED vars BY <2>1, <2>11 DEF Killing, Owed
  <2> QED BY <2>3, <2>4, <2>5, <2>6, <2>8, <2>9, <2>10, <2>11, StepCases
<1>3. TypeOK /\ Credit => PopsListed
  <2> SUFFICES ASSUME TypeOK, Credit, main = "pop", list = <<>> PROVE FALSE
    BY DEF PopsListed
  <2>1. Cardinality(Killing) \in Nat BY FS_CardinalityType DEF Credit
  <2>2. Owed >= 1 /\ Owed \in Nat BY DEF Owed
  <2>3. Len(list) = 0 BY EmptySeq
  <2> QED BY <2>1, <2>2, <2>3 DEF Credit
<1> QED BY <1>1, <1>2, <1>3, ReaperTypeCorrect, PTL DEF Spec
==============================================================================

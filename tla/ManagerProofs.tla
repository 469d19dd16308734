---------------------------- MODULE ManagerProofs ----------------------------
(***************************************************************************)
(* Theorems about one module of the manager, for any set of senders, any   *)
(* packets and any bound on managerSetState.                               *)
(***************************************************************************)
EXTENDS Manager, SequenceTheorems, TLAPS

USE DEF shared, history, vars

(* One name for every step, so that each proof has one case per action. *)
LEMMA NextCases ==
  ASSUME [Next]_vars
  PROVE  \/ \E t \in Threads : Release(t)
         \/ \E s \in Senders : SendLock(s)
         \/ \E s \in Senders, p \in Packets : SendAdd(s, p)
         \/ \E s \in Senders, p \in Packets : SendRefused(s, p)
         \/ \E s \in Senders : SendSignal(s)
         \/ \E s \in States : SetLock(s)
         \/ SetBody
         \/ \E m \in ReadModes : RecvStart(m)
         \/ RecvToken \/ RecvTrylock \/ RecvLock
         \/ RecvClosed \/ RecvEmpty \/ RecvPop
         \/ UNCHANGED vars
<1>1. Owner \in Threads /\ Senders \subseteq Threads BY DEF Threads
<1> QED BY <1>1 DEF Next, OwnerStep, SenderStep

------------------------------------------------------------------------------
(* Facts about the buffer's two operations. *)

LEMMA PushFacts ==
  ASSUME NEW S, NEW q \in Seq(S), NEW e \in S
  PROVE  /\ Append(q, e) \in Seq(S)
         /\ Len(Append(q, e)) = Len(q) + 1
         /\ \A i \in 1..Len(q) : Append(q, e)[i] = q[i]
         /\ Append(q, e)[Len(q) + 1] = e
         /\ Append(q, e) # <<>>
         /\ Range(Append(q, e)) = Range(q) \union {e}
<1>1. /\ Append(q, e) \in Seq(S)
      /\ Len(Append(q, e)) = Len(q) + 1
      /\ \A i \in 1..Len(q) : Append(q, e)[i] = q[i]
      /\ Append(q, e)[Len(q) + 1] = e
      /\ Len(q) \in Nat
  OBVIOUS
<1>2. Append(q, e) # <<>> BY <1>1
<1>3. DOMAIN q = 1..Len(q) /\ DOMAIN Append(q, e) = 1..(Len(q) + 1) BY <1>1
<1>4. Range(Append(q, e)) = Range(q) \union {e}
  BY <1>1, <1>3 DEF Range
<1> QED BY <1>1, <1>2, <1>4

LEMMA RangeFacts ==
  ASSUME NEW S, NEW q \in Seq(S)
  PROVE  Range(q) \subseteq S /\ (q # <<>> => Range(q) # {})
<1>1. Len(q) \in Nat /\ DOMAIN q = 1..Len(q) OBVIOUS
<1>2. q # <<>> => Len(q) > 0 BY EmptySeq
<1> QED BY <1>1, <1>2, ElementOfSeq DEF Range

LEMMA PopFacts ==
  ASSUME NEW S, NEW q \in Seq(S), q # <<>>
  PROVE  /\ Len(q) \in Nat /\ Len(q) > 0
         /\ q[Len(q)] \in S
         /\ SubSeq(q, 1, Len(q) - 1) \in Seq(S)
         /\ Len(SubSeq(q, 1, Len(q) - 1)) = Len(q) - 1
         /\ \A i \in 1..(Len(q) - 1) : SubSeq(q, 1, Len(q) - 1)[i] = q[i]
<1>1. Len(q) \in Nat /\ Len(q) > 0 BY EmptySeq
<1>2. \A i \in 1..(Len(q) - 1) : q[i] \in S BY <1>1, ElementOfSeq
<1>3. q[Len(q)] \in S BY <1>1, ElementOfSeq
<1> DEFINE f == SubSeq(q, 1, Len(q) - 1)
<1>4. /\ f \in Seq(S)
      /\ Len(f) = IF 1 <= Len(q) - 1 THEN Len(q) - 1 - 1 + 1 ELSE 0
      /\ \A i \in 1..(Len(q) - 1 - 1 + 1) : f[i] = q[1 + i - 1]
  BY <1>1, <1>2, SubSeqProperties
<1>5. Len(f) = IF 1 <= Len(q) - 1 THEN Len(q) - 1 - 1 + 1 ELSE 0
  BY <1>4
<1> HIDE DEF f
<1>6. Len(f) = Len(q) - 1
  <2> DEFINE n == Len(q)
  <2>1. n \in Nat /\ n > 0 BY <1>1
  <2>2. Len(f) = IF 1 <= n - 1 THEN n - 1 - 1 + 1 ELSE 0 BY <1>5
  <2> HIDE DEF n
  <2>3. Len(f) = n - 1 BY <2>1, <2>2
  <2> QED BY <2>3 DEF n
<1>7. \A i \in 1..(Len(q) - 1) : f[i] = q[i]
  <2> DEFINE n == Len(q)
  <2>1. n \in Nat BY <1>1
  <2>2. \A i \in 1..(n - 1 - 1 + 1) : f[i] = q[1 + i - 1] BY <1>4
  <2> HIDE DEF n
  <2>3. \A i \in 1..(n - 1) : i \in 1..(n - 1 - 1 + 1) /\ 1 + i - 1 = i BY <2>1
  <2>4. \A i \in 1..(n - 1) : f[i] = q[i] BY <2>2, <2>3
  <2> QED BY <2>4 DEF n
<1> QED BY <1>1, <1>3, <1>4, <1>6, <1>7 DEF f

------------------------------------------------------------------------------
(* Every variable keeps its type, and mutex_access_buffer (manager.c) is    *)
(* held by exactly the thread that is between its lock and its unlock.      *)
THEOREM TypeCorrect == Spec => []TypeOK
<1>1. Init => TypeOK
  BY ManagerAssumption
  DEF Init, TypeOK, Threads, States, Modes, OwnerPc, SenderPc, Inside
<1>2. TypeOK /\ [Next]_vars => TypeOK'
  <2> SUFFICES ASSUME TypeOK, [Next]_vars PROVE TypeOK'
    OBVIOUS
  <2> USE ManagerAssumption DEF TypeOK, Threads, States, Modes, OwnerPc, SenderPc,
                                Inside, Goto, Acquire
  <2>1. CASE \E t \in Threads : Release(t) BY <2>1 DEF Release
  <2>2. CASE \E s \in Senders : SendLock(s) BY <2>2 DEF SendLock
  <2>3. CASE \E s \in Senders, p \in Packets : SendAdd(s, p) BY <2>3 DEF SendAdd
  <2>4. CASE \E s \in Senders, p \in Packets : SendRefused(s, p)
    BY <2>4 DEF SendRefused
  <2>5. CASE \E s \in Senders : SendSignal(s) BY <2>5 DEF SendSignal
  <2>6. CASE \E s \in States : SetLock(s) BY <2>6 DEF SetLock
  <2>7. CASE SetBody
    <3>1. Len(buff) \in Nat /\ <<>> \in Seq(Packets) BY EmptySeq
    <3>2. buff' \in Seq(Packets)
      BY <2>7, <3>1 DEF SetBody, SetClose, SetOpen, SetInProgress
    <3>3. discarded' \in Nat
      BY <2>7, <3>1 DEF SetBody, SetClose, SetOpen, SetInProgress
    <3>4. state' \in States /\ wait' \in {"locked", "unlocked"}
      BY <2>7 DEF SetBody, SetClose, SetOpen, SetInProgress
    <3>5. stranded' \subseteq Packets /\ ways' \subseteq Modes
      BY <2>7, RangeFacts DEF SetBody, SetClose, SetOpen, SetInProgress
    <3> QED BY <2>7, <3>2, <3>3, <3>4, <3>5 DEF SetBody
  <2>8. CASE \E m \in ReadModes : RecvStart(m) BY <2>8 DEF RecvStart
  <2>9. CASE RecvToken BY <2>9 DEF RecvToken
  <2>10. CASE RecvTrylock BY <2>10 DEF RecvTrylock
  <2>11. CASE RecvLock BY <2>11 DEF RecvLock
  <2>12. CASE RecvClosed BY <2>12 DEF RecvClosed
  <2>13. CASE RecvEmpty BY <2>13 DEF RecvEmpty
  <2>14. CASE RecvPop
    <3>1. /\ buff[Len(buff)] \in Packets
          /\ SubSeq(buff, 1, Len(buff) - 1) \in Seq(Packets)
      BY <2>14, PopFacts DEF RecvPop
    <3>2. alert' \in Nat /\ wait' \in {"locked", "unlocked"} /\ received' \subseteq Packets
      BY <2>14, <3>1 DEF RecvPop
    <3>3. buff' \in Seq(Packets) BY <2>14, <3>1 DEF RecvPop
    <3> QED BY <2>14, <3>2, <3>3 DEF RecvPop
  <2>15. CASE UNCHANGED vars BY <2>15
  <2> QED
    BY NextCases, <2>1, <2>2, <2>3, <2>4, <2>5, <2>6, <2>7, <2>8, <2>9, <2>10,
       <2>11, <2>12, <2>13, <2>14, <2>15
<1> QED BY <1>1, <1>2, PTL DEF Spec

------------------------------------------------------------------------------
(* The pipe of a module holds one byte per packet of its buffer and one per *)
(* packet a close discarded, so the read that managerReceiveNonBlocking     *)
(* makes under mutex_access_buffer never blocks.                            *)
THEOREM AlertAccounted == Spec => []AlertAccounting
<1>1. Init => AlertAccounting
  BY DEF Init, AlertAccounting
<1>2. TypeOK /\ AlertAccounting /\ [Next]_vars => AlertAccounting'
  <2> SUFFICES ASSUME TypeOK, AlertAccounting, [Next]_vars PROVE AlertAccounting'
    OBVIOUS
  <2> USE DEF AlertAccounting
  <2>1. buff \in Seq(Packets) /\ Len(buff) \in Nat /\ alert \in Nat /\ discarded \in Nat
    BY DEF TypeOK
  <2>2. CASE \E s \in Senders, p \in Packets : SendAdd(s, p)
    <3>1. Len(buff') = Len(buff) + 1 BY <2>1, <2>2, PushFacts DEF SendAdd
    <3> QED BY <2>1, <2>2, <3>1 DEF SendAdd
  <2>3. CASE SetBody
    <3>1. CASE target = "CLOSED" /\ SetClose /\ state # "CLOSED"
      <4>1. buff' = <<>> /\ discarded' = discarded + Len(buff) /\ alert' = alert
        BY <2>3, <3>1 DEF SetBody, SetClose
      <4>2. Len(buff') = 0 BY <4>1, EmptySeq
      <4> QED BY <2>1, <4>1, <4>2
    <3>2. CASE UNCHANGED <<buff, discarded>> BY <2>3, <3>2 DEF SetBody
    <3> QED BY <2>3, <3>1, <3>2 DEF SetBody, SetClose, SetOpen, SetInProgress
  <2>4. CASE RecvPop
    <3>1. Len(buff') = Len(buff) - 1 BY <2>1, <2>4, PopFacts DEF RecvPop
    <3> QED BY <2>1, <2>4, <3>1 DEF RecvPop
  <2>5. CASE UNCHANGED <<buff, alert, discarded>> BY <2>5
  <2> QED
    BY NextCases, <2>2, <2>3, <2>4, <2>5
    DEF Release, SendLock, SendRefused, SendSignal, SetLock, RecvStart, RecvToken,
        RecvTrylock, RecvLock, RecvClosed, RecvEmpty
<1> QED BY <1>1, <1>2, TypeCorrect, PTL DEF Spec

(* A closed module holds no packet (setStateClose, and managerSend's answer *)
(* MANAGER_ERR_CLOSED).                                                     *)
THEOREM ClosedModuleIsEmpty == Spec => []ClosedIsEmpty
<1>1. Init => ClosedIsEmpty BY DEF Init, ClosedIsEmpty
<1>2. ClosedIsEmpty /\ [Next]_vars => ClosedIsEmpty'
  <2> SUFFICES ASSUME ClosedIsEmpty, [Next]_vars PROVE ClosedIsEmpty'
    OBVIOUS
  <2> USE DEF ClosedIsEmpty
  <2>1. CASE \E s \in Senders, p \in Packets : SendAdd(s, p) BY <2>1 DEF SendAdd
  <2>2. CASE SetBody
    BY <2>2 DEF SetBody, SetClose, SetOpen, SetInProgress
  <2>3. CASE RecvPop BY <2>3 DEF RecvPop
  <2>4. CASE UNCHANGED <<state, buff>> BY <2>4
  <2> QED
    BY NextCases, <2>1, <2>2, <2>3, <2>4
    DEF Release, SendLock, SendRefused, SendSignal, SetLock, RecvStart, RecvToken,
        RecvTrylock, RecvLock, RecvClosed, RecvEmpty
<1> QED BY <1>1, <1>2, PTL DEF Spec

------------------------------------------------------------------------------
(* No lost wakeup.  NoLostWakeup speaks of the waiting owner only; the      *)
(* inductive form says that packets in the buffer always leave the token    *)
(* free, about to be freed, or in the hands of a receive that will pop,     *)
(* unless an opening of the module took it.                                 *)
WakeupInv ==
  (buff # <<>> /\ wait = "locked")
    => \/ stranded # {}
       \/ pc[Owner] \in {"trylock", "lock", "recv"}
       \/ \E s \in Senders : pc[s] = "signal"

(* The owner is never left waiting in managerReceiveBlocking with a packet  *)
(* in the buffer, except for packets that setStateOpen found there and took *)
(* the token of: the only way this module loses a wakeup, however it is     *)
(* read and whenever its state changes.                                     *)
THEOREM WakeupNotLost == Spec => []NoLostWakeup
<1>1. Init => WakeupInv BY DEF Init, WakeupInv, Threads
<1>2. TypeOK /\ ClosedIsEmpty /\ WakeupInv /\ [Next]_vars => WakeupInv'
  <2> SUFFICES ASSUME TypeOK, ClosedIsEmpty, WakeupInv, [Next]_vars PROVE WakeupInv'
    OBVIOUS
  <2> USE ManagerAssumption DEF WakeupInv, Threads, Goto
  <2>0. /\ pc \in [Threads -> SenderPc \union OwnerPc]
        /\ \A s \in Senders : pc[s] \in SenderPc
        /\ wait \in {"locked", "unlocked"}
        /\ \A t \in Threads : (pc[t] \in Inside) <=> (access = t)
    BY DEF TypeOK
  <2>1. CASE \E t \in Threads : Release(t) BY <2>0, <2>1 DEF Release
  <2>2. CASE \E s \in Senders : SendLock(s) BY <2>0, <2>2 DEF SendLock, Acquire
  <2>3. CASE \E s \in Senders, p \in Packets : SendAdd(s, p)
    <3> PICK s \in Senders, p \in Packets : SendAdd(s, p) BY <2>3
    <3>1. access = s /\ pc[Owner] # "set" BY <2>0 DEF SendAdd, Inside
    <3>2. pc'[s] = "signal" /\ pc'[Owner] = pc[Owner] BY <2>0 DEF SendAdd
    <3> QED BY <3>1, <3>2
  <2>4. CASE \E s \in Senders, p \in Packets : SendRefused(s, p)
    BY <2>0, <2>4 DEF SendRefused
  <2>5. CASE \E s \in Senders : SendSignal(s) BY <2>0, <2>5 DEF SendSignal
  <2>6. CASE \E s \in States : SetLock(s) BY <2>0, <2>6 DEF SetLock
  <2>7. CASE SetBody
    <3>1. pc'[Owner] = "release" BY <2>0, <2>7 DEF SetBody
    <3>2. \A s \in Senders : pc'[s] = pc[s] BY <2>0, <2>7 DEF SetBody
    <3>3. (buff' # <<>> /\ wait' = "locked")
            => stranded' # {} \/ (buff # <<>> /\ wait = "locked" /\ stranded' = stranded)
      BY <2>7, RangeFacts DEF SetBody, SetClose, SetOpen, SetInProgress, ClosedIsEmpty, TypeOK
    <3>4. pc[Owner] = "set" BY <2>7 DEF SetBody
    <3> QED BY <3>1, <3>2, <3>3, <3>4
  <2>8. CASE \E m \in ReadModes : RecvStart(m) BY <2>0, <2>8 DEF RecvStart
  <2>9. CASE RecvToken BY <2>0, <2>9 DEF RecvToken
  <2>10. CASE RecvTrylock BY <2>0, <2>10 DEF RecvTrylock
  <2>11. CASE RecvLock BY <2>0, <2>11 DEF RecvLock
  <2>12. CASE RecvClosed BY <2>0, <2>12 DEF RecvClosed
  <2>13. CASE RecvEmpty BY <2>0, <2>13 DEF RecvEmpty
  <2>14. CASE RecvPop
    <3>1. buff \in Seq(Packets) /\ buff # <<>> BY <2>14 DEF TypeOK, RecvPop
    <3>2. Len(buff) \in Nat /\ Len(buff) > 0 BY <3>1, EmptySeq
    <3>3. buff' # <<>> => Len(buff) > 1
      <4>1. buff' \in Seq(Packets) /\ Len(buff') = Len(buff) - 1
        BY <2>14, <3>1, PopFacts DEF RecvPop
      <4>2. buff' # <<>> => Len(buff') \in Nat \ {0} BY <4>1, EmptySeq
      <4> QED BY <3>2, <4>1, <4>2
    <3>4. buff' # <<>> => wait' = "unlocked" BY <2>14, <3>3 DEF RecvPop
    <3>5. pc'[Owner] = "release" BY <2>0, <2>14 DEF RecvPop
    <3> QED BY <3>4, <3>5
  <2>15. CASE UNCHANGED vars BY <2>15
  <2> QED
    BY NextCases, <2>1, <2>2, <2>3, <2>4, <2>5, <2>6, <2>7, <2>8, <2>9, <2>10,
       <2>11, <2>12, <2>13, <2>14, <2>15
<1>3. WakeupInv => NoLostWakeup BY DEF WakeupInv, NoLostWakeup
<1> QED BY <1>1, <1>2, <1>3, TypeCorrect, ClosedModuleIsEmpty, PTL DEF Spec

------------------------------------------------------------------------------
(* No spurious retry.  Each free token, each sender about to free it and    *)
(* each receive that has taken it stands for a packet of its own: a module  *)
(* that is not closed never has more of them than packets, as long as its   *)
(* owner has not mixed the two ways of reading.                             *)
Free == IF wait = "unlocked" THEN 1 ELSE 0
Holding == IF pc[Owner] \in {"trylock", "lock", "recv"} THEN 1 ELSE 0
Signalling == IF \E s \in Senders : pc[s] = "signal" THEN 1 ELSE 0

OnlyBlocks == ways \subseteq {"blocking"}

TokenCredit ==
  (state # "CLOSED" /\ OnlyBlocks) => Free + Holding + Signalling <= Len(buff)

BlockingMode ==
  (pc[Owner] \in {"token", "trylock", "lock", "recv"} /\ OnlyBlocks)
    => mode = "blocking"

(* managerReceiveBlocking answers MANAGER_ERR_RETRY to the single reader of *)
(* a module only if that reader has also read it without blocking since it  *)
(* opened it: the output thread, which only blocks, never sees it.          *)
THEOREM RetryOnlyToMixedReaders == Spec => []RetryOnlyIfMixed
<1> USE ManagerAssumption DEF Threads, Goto, BlockingMode
<1> DEFINE Inv == TokenCredit /\ BlockingMode
<1>1. Init => Inv BY DEF Init, TokenCredit
<1>2. TypeOK /\ [Next]_vars /\ Inv => Inv'
  <2> SUFFICES ASSUME TypeOK, TokenCredit, BlockingMode, [Next]_vars
               PROVE  TokenCredit' /\ BlockingMode'
    OBVIOUS
  <2>0. /\ pc \in [Threads -> SenderPc \union OwnerPc]
        /\ \A s \in Senders : pc[s] \in SenderPc
        /\ wait \in {"locked", "unlocked"}
        /\ buff \in Seq(Packets) /\ Len(buff) \in Nat
        /\ \A t \in Threads : (pc[t] \in Inside) <=> (access = t)
    BY DEF TypeOK
  <2> USE <2>0 DEF TokenCredit, OnlyBlocks, Free, Holding, Signalling
  <2>1. CASE \E t \in Threads : Release(t) BY <2>1 DEF Release
  <2>2. CASE \E s \in Senders : SendLock(s) BY <2>2 DEF SendLock, Acquire
  <2>3. CASE \E s \in Senders, p \in Packets : SendAdd(s, p)
    <3> PICK s \in Senders, p \in Packets : SendAdd(s, p) BY <2>3
    <3>1. access = s BY DEF SendAdd, Inside
    <3>2. \A t \in Senders : pc[t] # "signal" BY <3>1 DEF SendAdd, Inside
    <3>3. Signalling = 0 BY <3>2
    <3>4. Len(buff') = Len(buff) + 1 BY PushFacts DEF SendAdd
    <3>5. Free' = Free /\ Holding' = Holding BY DEF SendAdd
    <3>6. Signalling' <= 1 /\ Signalling' \in Nat OBVIOUS
    <3>7. Free \in Nat /\ Holding \in Nat OBVIOUS
    <3>8. state' = state /\ ways' = ways BY DEF SendAdd
    <3>9. BlockingMode' BY DEF SendAdd
    <3> HIDE DEF Free, Holding, Signalling
    <3> QED BY <3>3, <3>4, <3>5, <3>6, <3>7, <3>8, <3>9
  <2>4. CASE \E s \in Senders, p \in Packets : SendRefused(s, p)
    BY <2>4 DEF SendRefused
  <2>5. CASE \E s \in Senders : SendSignal(s)
    <3> PICK s \in Senders : SendSignal(s) BY <2>5
    <3>1. pc[s] = "signal" /\ access = s BY DEF SendSignal, Inside
    <3>2. \A t \in Senders : t # s => pc[t] # "signal" BY <3>1 DEF Inside
    <3>3. \A t \in Senders : pc'[t] # "signal" BY <3>2 DEF SendSignal
    <3>4. Signalling = 1 /\ Signalling' = 0 BY <3>1, <3>3
    <3>5. Free' = 1 /\ Free \in Nat /\ Holding \in Nat BY DEF SendSignal
    <3>6. Holding' = Holding /\ UNCHANGED <<state, buff, ways>> BY DEF SendSignal
    <3>7. BlockingMode' BY DEF SendSignal
    <3> HIDE DEF Free, Holding, Signalling
    <3> QED BY <3>4, <3>5, <3>6, <3>7
  <2>6. CASE \E s \in States : SetLock(s) BY <2>6 DEF SetLock
  <2>7. CASE SetBody
    <3>1. access = Owner BY <2>7 DEF SetBody, Inside
    <3>2. \A s \in Senders : pc[s] # "signal" BY <3>1 DEF Inside
    <3>3. \A s \in Senders : pc'[s] # "signal" BY <3>2, <2>7 DEF SetBody
    <3>4. pc'[Owner] = "release" BY <2>7 DEF SetBody
    <3>5. Holding' = 0 /\ Signalling' = 0 BY <3>3, <3>4
    <3>6. state' # "CLOSED"
            => /\ buff' = buff
               /\ wait' = "locked" \/ (state # "CLOSED" /\ wait' = wait /\ ways' = ways)
      BY <2>7 DEF SetBody, SetClose, SetOpen, SetInProgress
    <3>7. (state' # "CLOSED" /\ OnlyBlocks') => Free' <= Len(buff')
      <4>1. CASE wait' = "locked" BY <4>1, <3>6
      <4>2. CASE state # "CLOSED" /\ wait' = wait /\ ways' = ways
        <5>1. OnlyBlocks' <=> OnlyBlocks BY <4>2
        <5>2. Free' = Free /\ Holding \in Nat /\ Signalling \in Nat BY <4>2
        <5>3. OnlyBlocks => Free + Holding + Signalling <= Len(buff) BY <4>2
        <5>4. Free \in Nat OBVIOUS
        <5> HIDE DEF Free, Holding, Signalling, OnlyBlocks
        <5> QED BY <5>1, <5>2, <5>3, <5>4, <3>6
      <4> QED BY <3>6, <4>1, <4>2
    <3> QED BY <3>4, <3>5, <3>7
  <2>8. CASE \E m \in ReadModes : RecvStart(m) BY <2>8 DEF RecvStart
  <2>9. CASE RecvToken BY <2>9 DEF RecvToken
  <2>10. CASE RecvTrylock BY <2>10 DEF RecvTrylock
  <2>11. CASE RecvLock BY <2>11 DEF RecvLock
  <2>12. CASE RecvClosed BY <2>12 DEF RecvClosed
  <2>13. CASE RecvEmpty BY <2>13 DEF RecvEmpty
  <2>14. CASE RecvPop
    <3>1. access = Owner BY <2>14 DEF RecvPop, Inside
    <3>2. \A s \in Senders : pc[s] # "signal" BY <3>1 DEF Inside
    <3>3. pc'[Owner] = "release" /\ \A s \in Senders : pc'[s] # "signal"
      BY <3>2, <2>14 DEF RecvPop
    <3>4. Len(buff') = Len(buff) - 1 BY <2>14, PopFacts DEF RecvPop
    <3>5. Holding = 1 BY <2>14 DEF RecvPop
    <3>6. Holding' = 0 /\ Signalling' = 0 /\ Signalling = 0 BY <3>2, <3>3
    <3>7. OnlyBlocks' => Free + 1 <= Len(buff)
      BY <2>14, <3>5, <3>6 DEF RecvPop, OnlyBlocks
    <3>8. wait' = IF Len(buff) > 1 THEN "unlocked" ELSE wait BY <2>14 DEF RecvPop
    <3>9. OnlyBlocks' => Free' <= Len(buff') BY <3>4, <3>7, <3>8
    <3> QED BY <3>3, <3>6, <3>9
  <2>15. CASE UNCHANGED vars BY <2>15
  <2> QED
    BY NextCases, <2>1, <2>2, <2>3, <2>4, <2>5, <2>6, <2>7, <2>8, <2>9, <2>10,
       <2>11, <2>12, <2>13, <2>14, <2>15
<1>3. TypeOK /\ Inv => RetryOnlyIfMixed
  <2> SUFFICES ASSUME TypeOK, TokenCredit, pc[Owner] = "recv", state # "CLOSED", OnlyBlocks
               PROVE  buff # <<>>
    BY DEF RetryOnlyIfMixed, NoSpuriousRetry, OnlyBlocks
  <2>1. Holding = 1 /\ Free \in Nat /\ Signalling \in Nat
    BY DEF Holding, Free, Signalling
  <2>2. Len(buff) \in Nat BY DEF TypeOK
  <2>3. Len(buff) > 0 BY <2>1, <2>2 DEF TokenCredit
  <2> QED BY <2>3, EmptySeq
<1> QED BY <1>1, <1>2, <1>3, TypeCorrect, PTL DEF Spec

------------------------------------------------------------------------------
(* The mailbox.  A packet is in the buffer at most once, and never after it *)
(* has been handed out: what makes popping the last one remove it.          *)
UniqueInv ==
  /\ \A i, j \in 1..Len(buff) : buff[i] = buff[j] => i = j
  /\ Range(buff) \subseteq posted
  /\ received \subseteq posted
  /\ Range(buff) \intersect received = {}

LEMMA RangeOfPop ==
  ASSUME NEW S, NEW q \in Seq(S), q # <<>>,
         \A i, j \in 1..Len(q) : q[i] = q[j] => i = j
  PROVE  Range(SubSeq(q, 1, Len(q) - 1)) = Range(q) \ {q[Len(q)]}
<1> DEFINE f == SubSeq(q, 1, Len(q) - 1)
           n == Len(q)
<1>1. /\ n \in Nat /\ n > 0
      /\ f \in Seq(S) /\ Len(f) = n - 1
      /\ \A i \in 1..(n - 1) : f[i] = q[i]
  BY PopFacts
<1>2. DOMAIN f = 1..(n - 1) /\ DOMAIN q = 1..n BY <1>1
<1>3. \A i, j \in 1..n : q[i] = q[j] => i = j OBVIOUS
<1> HIDE DEF f, n
<1>4. \A i \in 1..(n - 1) : i \in 1..n /\ i # n BY <1>1
<1>5. \A i \in 1..n : i # n => i \in 1..(n - 1) BY <1>1
<1>6. n \in 1..n BY <1>1
<1>7. Range(f) \subseteq Range(q) \ {q[n]}
  BY <1>1, <1>2, <1>3, <1>4, <1>6 DEF Range
<1>8. Range(q) \ {q[n]} \subseteq Range(f)
  BY <1>1, <1>2, <1>5 DEF Range
<1> QED BY <1>7, <1>8 DEF f, n

LEMMA UniqueInvariant == Spec => []UniqueInv
<1>1. Init => UniqueInv
  <2>1. Init => Len(buff) = 0 /\ Range(buff) = {} BY EmptySeq DEF Init, Range
  <2> QED BY <2>1 DEF Init, UniqueInv
<1>2. TypeOK /\ UniqueInv /\ [Next]_vars => UniqueInv'
  <2> SUFFICES ASSUME TypeOK, UniqueInv, [Next]_vars PROVE UniqueInv'
    OBVIOUS
  <2> USE DEF UniqueInv
  <2>0. buff \in Seq(Packets) /\ Len(buff) \in Nat BY DEF TypeOK
  <2>1. CASE \E s \in Senders, p \in Packets : SendAdd(s, p)
    <3> PICK s \in Senders, p \in Packets : SendAdd(s, p) BY <2>1
    <3>1. /\ Len(buff') = Len(buff) + 1
          /\ \A i \in 1..Len(buff) : buff'[i] = buff[i]
          /\ buff'[Len(buff) + 1] = p
          /\ Range(buff') = Range(buff) \union {p}
      BY <2>0, PushFacts DEF SendAdd
    <3>2. p \notin posted /\ posted' = posted \union {p} /\ received' = received
      BY DEF SendAdd
    <3>3. \A i \in 1..Len(buff) : buff[i] # p
      BY <2>0, <3>2 DEF Range
    <3>4. \A i, j \in 1..Len(buff') : buff'[i] = buff'[j] => i = j
      BY <2>0, <3>1, <3>3
    <3> QED BY <3>1, <3>2, <3>4
  <2>2. CASE SetBody
    <3>1. CASE buff' = <<>>
      <4>1. Len(buff') = 0 /\ Range(buff') = {} BY <3>1, EmptySeq DEF Range
      <4> QED BY <2>2, <4>1 DEF SetBody
    <3>2. CASE buff' = buff BY <2>2, <3>2 DEF SetBody
    <3> QED BY <2>2, <3>1, <3>2 DEF SetBody, SetClose, SetOpen, SetInProgress
  <2>3. CASE RecvPop
    <3>1. buff # <<>> /\ posted' = posted /\ received' = received \union {buff[Len(buff)]}
      BY <2>3 DEF RecvPop
    <3>2. /\ Len(buff) > 0
          /\ Len(buff') = Len(buff) - 1
          /\ \A i \in 1..(Len(buff) - 1) : buff'[i] = buff[i]
      BY <2>0, <2>3, PopFacts DEF RecvPop
    <3>3. Range(buff') = Range(buff) \ {buff[Len(buff)]}
      BY <2>0, <2>3, RangeOfPop DEF RecvPop
    <3>4. buff[Len(buff)] \in Range(buff) BY <2>0, <3>2 DEF Range
    <3>5. \A i, j \in 1..Len(buff') : buff'[i] = buff'[j] => i = j
      BY <2>0, <3>2
    <3> QED BY <3>1, <3>3, <3>4, <3>5
  <2>4. CASE UNCHANGED <<buff, posted, received>> BY <2>4
  <2> QED
    BY NextCases, <2>1, <2>2, <2>3, <2>4
    DEF Release, SendLock, SendRefused, SendSignal, SetLock, RecvStart, RecvToken,
        RecvTrylock, RecvLock, RecvClosed, RecvEmpty
<1> QED BY <1>1, <1>2, TypeCorrect, PTL DEF Spec

(* One module of manager.c, with its two mutexes and its pipe, implements   *)
(* the atomic mailbox, whatever the owner's reads and the senders do.       *)
THEOREM MailboxImplemented == Spec => ImplementsMailbox
<1> USE DEF Mail!mailVars, Mail!States, States
<1>1. Init => Mail!MailInit
  <2>1. Init => Range(buff) = {} BY EmptySeq DEF Init, Range
  <2> QED BY <2>1 DEF Init, Mail!MailInit
<1>2. TypeOK /\ UniqueInv /\ ClosedIsEmpty /\ [Next]_vars
        => [Mail!MailNext]_(Mail!mailVars)
  <2> SUFFICES ASSUME TypeOK, UniqueInv, ClosedIsEmpty, [Next]_vars
               PROVE  Mail!MailNext \/ UNCHANGED Mail!mailVars
    OBVIOUS
  <2>0. buff \in Seq(Packets) BY DEF TypeOK
  <2>1. CASE \E s \in Senders, p \in Packets : SendAdd(s, p)
    <3> PICK s \in Senders, p \in Packets : SendAdd(s, p) BY <2>1
    <3>1. Range(buff') = Range(buff) \union {p} BY <2>0, PushFacts DEF SendAdd
    <3>2. Mail!Post(p) BY <3>1 DEF SendAdd, Mail!Post
    <3> QED BY <3>2 DEF Mail!MailNext
  <2>2. CASE SetBody
    <3>1. CASE target = "CLOSED"
      <4>1. state' = "CLOSED" /\ buff' = <<>>
        BY <2>2, <3>1 DEF SetBody, SetClose, SetOpen, SetInProgress, ClosedIsEmpty
      <4>2. Range(buff') = {} BY <4>1, EmptySeq DEF Range
      <4>3. Mail!Change("CLOSED") BY <2>2, <4>1, <4>2 DEF SetBody, Mail!Change
      <4> QED BY <4>3 DEF Mail!MailNext
    <3>2. CASE target # "CLOSED"
      <4>1. state' \in {"OPEN", "IN_PROGRESS"} /\ buff' = buff
        BY <2>2, <3>2 DEF SetBody, SetClose, SetOpen, SetInProgress
      <4>2. Mail!Change(state') BY <2>2, <4>1 DEF SetBody, Mail!Change
      <4> QED BY <4>1, <4>2 DEF Mail!MailNext
    <3> QED BY <3>1, <3>2
  <2>3. CASE RecvPop
    <3>1. Range(buff') = Range(buff) \ {buff[Len(buff)]}
      BY <2>0, <2>3, RangeOfPop DEF RecvPop, UniqueInv
    <3>2. /\ buff[Len(buff)] \in Packets
          /\ buff[Len(buff)] \in Range(buff)
      <4>1. Len(buff) \in Nat /\ Len(buff) > 0 /\ buff[Len(buff)] \in Packets
        BY <2>0, <2>3, PopFacts DEF RecvPop
      <4> QED BY <2>0, <4>1 DEF Range
    <3>3. Mail!Take(buff[Len(buff)])
      BY <2>3, <3>1, <3>2 DEF RecvPop, UniqueInv, Mail!Take
    <3> QED BY <3>2, <3>3 DEF Mail!MailNext
  <2>4. CASE UNCHANGED <<state, buff, posted, received>> BY <2>4
  <2> QED
    BY NextCases, <2>1, <2>2, <2>3, <2>4
    DEF Release, SendLock, SendRefused, SendSignal, SetLock, RecvStart, RecvToken,
        RecvTrylock, RecvLock, RecvClosed, RecvEmpty
<1> QED
  BY <1>1, <1>2, TypeCorrect, UniqueInvariant, ClosedModuleIsEmpty, PTL
  DEF Spec, ImplementsMailbox, Mail!MailSpec
==============================================================================

-------------------------- MODULE SharedListProofs --------------------------
(***************************************************************************)
(* The lists of src/types keep inside their memory and behave as the       *)
(* sequence of AtomicList, whatever the number of threads, the first size  *)
(* of the array and the growth.                                            *)
(***************************************************************************)
EXTENDS SharedList, SequenceTheorems, TLAPS

------------------------------------------------------------------------------
(* The inductive invariant *)

(* What the place of a thread says of its call and of the shift it makes.   *)
Steps ==
  \A t \in Threads :
    /\ pc[t] \in {"store", "count"} => call[t].op \in {"add", "insert"}
    /\ pc[t] = "shift" => call[t].op \in {"insert", "remove"}
    /\ pc[t] = "cut" => call[t].op \in {"pop", "remove"}
    /\ pc[t] = "clear" => call[t].op = "clear"
    /\ pc[t] = "shift" /\ call[t].op = "insert" => call[t].i <= hole
    /\ pc[t] \in {"store", "count"} /\ call[t].op = "insert" => call[t].i = hole
    /\ pc[t] \in {"store", "count"} /\ call[t].op = "add" => hole = size
    /\ pc[t] = "count" => tab[hole] = call[t].v

(* Which slots hold an element: the first ones, with the hole left out and, *)
(* while an element comes in, one more.                                     *)
Slots ==
  /\ \A t \in Threads : Fills(t) => \A k \in 0..size : k # hole => tab[k] \in Values
  /\ \A t \in Threads : Removes(t) => \A k \in 0..(size - 1) : k # hole => tab[k] \in Values
  /\ ~Shifting => \A k \in 0..(size - 1) : tab[k] \in Values

IInv == TypeOK /\ NoOverrun /\ Steps /\ Slots

------------------------------------------------------------------------------
(* Calls and threads *)

(* Which arguments a call has.                                              *)
LEMMA CallArguments ==
  ASSUME NEW c \in Calls
  PROVE  /\ c.op \in {"add", "find", "insert", "set", "remove", "get", "pop", "size", "clear"}
         /\ c.op \in {"add", "find", "insert", "set"} => c.v \in Values
         /\ c.op \in {"insert", "set", "remove", "get"} => c.i \in Nat
         /\ c # NoCall
BY ListAssumption DEF Calls, NoCall

(* The mutex: while one thread is in the body of a call, the others are not *)
(* in theirs.                                                               *)
LEMMA Alone ==
  ASSUME TypeOK, NEW t \in Threads, pc[t] \notin {"out", "lock"}
  PROVE  \A s \in Threads : s # t => pc[s] \in {"out", "lock"}
BY DEF TypeOK

LEMMA TypeInit == Init => IInv
<1> SUFFICES ASSUME Init PROVE IInv
  OBVIOUS
<1>1. TypeOK
  <2>1. memory \in Nat /\ size \in 0..memory /\ hole \in Nat
    BY ListAssumption DEF Init
  <2>2. tab \in [0..(memory - 1) -> Values \union {Junk}]
    BY DEF Init
  <2>3. mutex = {t \in Threads : pc[t] \notin {"out", "lock"}}
    BY DEF Init
  <2>4. \A t \in Threads : call[t] = NoCall /\ pc[t] = "out" /\ ret[t] = NoRet
    BY DEF Init
  <2>5. ret \in [Threads -> Answers] /\ call \in [Threads -> Calls \union {NoCall}]
    BY DEF Init, Answers
  <2>6. pc \in [Threads -> Pc] /\ dead \in BOOLEAN /\ mutex = {}
    BY DEF Init, Pc
  <2> QED
    BY <2>1, <2>2, <2>3, <2>4, <2>5, <2>6 DEF TypeOK, Removes
<1>2. \A t \in Threads : pc[t] = "out"
  BY DEF Init
<1>3. NoOverrun /\ Steps
  BY <1>2 DEF NoOverrun, Steps, Fills, Removes
<1>4. Slots
  BY <1>2 DEF Slots, Shifting, Fills, Removes, Init
<1> QED
  BY <1>1, <1>3, <1>4 DEF IInv

------------------------------------------------------------------------------
(* Each step keeps the invariant *)

LEMMA CallStep ==
  ASSUME IInv, NEW t \in Threads, NEW c \in Calls, Call(t, c)
  PROVE  IInv'
<1> USE DEF IInv
<1>1. pc[t] = "out" /\ call' = [call EXCEPT ![t] = c] /\ pc' = [pc EXCEPT ![t] = "lock"]
  BY DEF Call, Goto
<1>2. UNCHANGED <<memory, size, tab, mutex, hole, ret, dead>>
  BY DEF Call
<1>3. TypeOK'
  <2>1. c # NoCall
    BY CallArguments
  <2>2. mutex' = {s \in Threads : pc'[s] \notin {"out", "lock"}}
    BY <1>1, <1>2 DEF TypeOK
  <2>3. call' \in [Threads -> Calls \union {NoCall}] /\ pc' \in [Threads -> Pc]
    BY <1>1 DEF TypeOK, Pc
  <2>4. \A s \in Threads : (call'[s] = NoCall <=> pc'[s] = "out")
    BY <1>1, <2>1 DEF TypeOK
  <2>5. \A s \in Threads : Removes(s)' <=> Removes(s)
    BY <1>1 DEF TypeOK, Removes
  <2>6. \A s \in Threads : ret'[s] # NoRet <=> pc'[s] \in {"cut", "clear", "unlock"} \/ Removes(s)'
    BY <1>1, <1>2, <2>5 DEF TypeOK
  <2> QED
    BY <1>2, <2>2, <2>3, <2>4, <2>6 DEF TypeOK
<1>4. \A s \in Threads : (Fills(s)' <=> Fills(s)) /\ (Removes(s)' <=> Removes(s))
  BY <1>1 DEF TypeOK, Fills, Removes
<1>5. NoOverrun' /\ Slots'
  BY <1>2, <1>4 DEF NoOverrun, Slots, Shifting
<1>6. Steps'
  BY <1>1, <1>2 DEF Steps, TypeOK
<1> QED
  BY <1>3, <1>5, <1>6

LEMMA LockStep ==
  ASSUME IInv, NEW t \in Threads, Lock(t)
  PROVE  IInv'
<1> USE DEF IInv
<1>1. pc[t] = "lock" /\ mutex = {} /\ mutex' = {t} /\ pc' = [pc EXCEPT ![t] = "start"]
  BY DEF Lock, Goto
<1>2. UNCHANGED <<memory, size, tab, hole, call, ret, dead>>
  BY DEF Lock, callVars
<1>3. \A s \in Threads : (Fills(s)' <=> Fills(s)) /\ (Removes(s)' <=> Removes(s))
  BY <1>1, <1>2 DEF TypeOK, Fills, Removes
<1>4. TypeOK'
  BY <1>1, <1>2, <1>3 DEF TypeOK, Pc
<1>5. NoOverrun' /\ Slots'
  BY <1>2, <1>3 DEF NoOverrun, Slots, Shifting
<1>6. Steps'
  BY <1>1, <1>2 DEF Steps, TypeOK
<1> QED
  BY <1>4, <1>5, <1>6

LEMMA UnlockStep ==
  ASSUME IInv, NEW t \in Threads, Unlock(t)
  PROVE  IInv'
<1> USE DEF IInv, Unlock, Goto, Returns
<1>1. TypeOK'
  BY DEF TypeOK, Pc, Answers, Removes
<1>2. NoOverrun'
  BY DEF NoOverrun, Fills, Removes
<1>3. Steps'
  BY DEF Steps
<1>4. Slots'
  BY DEF Slots, Shifting, Fills, Removes
<1> QED
  BY <1>1, <1>2, <1>3, <1>4

LEMMA ExitStep ==
  ASSUME IInv, NEW t \in Threads, Exit(t)
  PROVE  IInv'
<1> USE DEF IInv, Exit, Starts
<1>1. TypeOK'
  BY DEF TypeOK, Removes
<1>2. NoOverrun'
  BY DEF NoOverrun, Fills, Removes
<1>3. Steps'
  BY DEF Steps
<1>4. Slots'
  BY DEF Slots, Shifting, Fills, Removes
<1> QED
  BY <1>1, <1>2, <1>3, <1>4

LEMMA AddStartStep ==
  ASSUME IInv, NEW t \in Threads, AddStart(t)
  PROVE  IInv'
<1> USE DEF IInv, AddStart, Goto, callVars, Starts, MakeRoom, Resize
<1>1. \A s \in Threads : s # t => pc[s] \in {"out", "lock"} /\ pc'[s] = pc[s] /\ call'[s] = call[s]
  BY DEF TypeOK
<1>2. TypeOK'
  BY ListAssumption DEF TypeOK, Pc, Removes
<1>3. NoOverrun'
  BY ListAssumption DEF NoOverrun, TypeOK, Removes
<1>4. Steps'
  BY <1>1 DEF Steps
<1>5. Slots'
  BY ListAssumption DEF Slots, Shifting, TypeOK, Fills, Removes
<1> QED
  BY <1>2, <1>3, <1>4, <1>5

LEMMA InsertStartStep ==
  ASSUME IInv, NEW t \in Threads, InsertStart(t)
  PROVE  IInv'
<1> USE DEF IInv, InsertStart, Goto, callVars, Starts, MakeRoom, Resize
<1>1. call[t].i <= size
  BY DEF Valid
<1>2. \A s \in Threads : s # t => pc[s] \in {"out", "lock"} /\ pc'[s] = pc[s] /\ call'[s] = call[s]
  BY DEF TypeOK
<1>3. TypeOK'
  BY ListAssumption DEF TypeOK, Pc, Removes
<1>4. NoOverrun'
  BY ListAssumption DEF NoOverrun, TypeOK, Removes
<1>5. Steps'
  BY <1>1, <1>2 DEF Steps
<1>6. Slots'
  BY ListAssumption, CallArguments DEF Slots, Shifting, TypeOK, NoOverrun, Fills, Removes
<1> QED
  BY <1>3, <1>4, <1>5, <1>6

LEMMA InsertShiftStep ==
  ASSUME IInv, NEW t \in Threads, InsertShift(t)
  PROVE  IInv'
<1> USE DEF IInv, InsertShift, callVars
<1>1. TypeOK'
  BY CallArguments DEF TypeOK, NoOverrun, Fills, Removes
<1>2. NoOverrun'
  BY CallArguments DEF NoOverrun, TypeOK, Fills
<1>3. Steps'
  BY CallArguments DEF Steps, TypeOK
<1>4. Slots'
  BY CallArguments DEF Slots, TypeOK, NoOverrun, Fills
<1> QED
  BY <1>1, <1>2, <1>3, <1>4

LEMMA InsertShiftedStep ==
  ASSUME IInv, NEW t \in Threads, InsertShifted(t)
  PROVE  IInv'
<1> USE DEF IInv, InsertShifted, Goto, callVars
<1>1. TypeOK'
  BY DEF TypeOK, Pc, Removes
<1>2. NoOverrun'
  BY DEF NoOverrun, Fills, Removes
<1>3. Steps'
  BY DEF Steps
<1>4. Slots'
  BY DEF Slots, Shifting, TypeOK, Fills
<1> QED
  BY <1>1, <1>2, <1>3, <1>4

LEMMA StoreStep ==
  ASSUME IInv, NEW t \in Threads, Store(t)
  PROVE  IInv'
<1> USE DEF IInv, Store, Goto, callVars
<1>1. \A s \in Threads : s # t => pc[s] \in {"out", "lock"} /\ pc'[s] = pc[s] /\ call'[s] = call[s]
  BY DEF TypeOK
<1>2. TypeOK'
  BY CallArguments DEF TypeOK, Pc, NoOverrun, Steps, Fills, Removes
<1>3. NoOverrun'
  BY DEF NoOverrun, Fills, Removes
<1>4. Steps'
  BY DEF Steps, TypeOK, NoOverrun, Fills
<1>5. Slots'
  BY CallArguments, <1>1 DEF Slots, TypeOK, Steps, Fills
<1> QED
  BY <1>2, <1>3, <1>4, <1>5

LEMMA CountStep ==
  ASSUME IInv, NEW t \in Threads, Count(t)
  PROVE  IInv'
<1> USE DEF IInv, Count, Goto, Returns, callVars
<1>1. \A s \in Threads : s # t => pc[s] \in {"out", "lock"} /\ pc'[s] = pc[s] /\ call'[s] = call[s]
  BY DEF TypeOK
<1>2. TypeOK'
  BY DEF TypeOK, Pc, Answers, NoOverrun, Steps, Ok, NoRet, Fills, Removes
<1>3. NoOverrun'
  BY DEF NoOverrun, TypeOK, Steps, Fills
<1>4. Steps'
  BY DEF Steps, TypeOK
<1>5. Slots'
  BY CallArguments, <1>1 DEF Slots, TypeOK, Steps, Fills
<1> QED
  BY <1>2, <1>3, <1>4, <1>5

LEMMA PopTakeStep ==
  ASSUME IInv, NEW t \in Threads, PopTake(t)
  PROVE  IInv'
<1> USE DEF IInv, PopTake, Goto, Returns, callVars, Starts
<1>1. size > 0
  BY DEF Valid
<1>2. \A s \in Threads : s # t => pc[s] \in {"out", "lock"} /\ pc'[s] = pc[s] /\ call'[s] = call[s]
  BY DEF TypeOK
<1>3. TypeOK'
  BY <1>1 DEF TypeOK, Pc, Answers, Slots, Shifting, NoRet, Fills, Removes
<1>4. NoOverrun'
  BY <1>2 DEF NoOverrun, Fills, Removes
<1>5. Steps'
  BY <1>2 DEF Steps
<1>6. Slots'
  BY DEF Slots, Shifting, TypeOK, Fills, Removes
<1> QED
  BY <1>3, <1>4, <1>5, <1>6

LEMMA RemoveTakeStep ==
  ASSUME IInv, NEW t \in Threads, RemoveTake(t)
  PROVE  IInv'
<1> USE DEF IInv, RemoveTake, Goto, Returns, callVars, Starts
<1>1. call[t].i < size
  BY DEF Valid
<1>2. \A s \in Threads : s # t => pc[s] \in {"out", "lock"} /\ pc'[s] = pc[s] /\ call'[s] = call[s]
  BY DEF TypeOK
<1>3. ~Shifting /\ call[t].i \in Nat
  BY CallArguments DEF TypeOK, Shifting, Fills, Removes
<1>4. ret'[t] \in Answers /\ ret'[t] # NoRet
  <2>1. tab[call[t].i] \in Values
    BY <1>1, <1>3 DEF Slots, TypeOK
  <2> QED
    BY <2>1 DEF TypeOK, Answers, NoRet
<1>5. TypeOK'
  BY CallArguments, <1>4 DEF TypeOK, Pc, Removes
<1>6. NoOverrun'
  BY CallArguments, <1>1 DEF NoOverrun, TypeOK, Fills
<1>7. Steps'
  BY <1>2 DEF Steps
<1>8. Slots'
  BY <1>2 DEF Slots, Shifting, Fills, Removes
<1> QED
  BY <1>5, <1>6, <1>7, <1>8

LEMMA RemoveShiftStep ==
  ASSUME IInv, NEW t \in Threads, RemoveShift(t)
  PROVE  IInv'
<1> USE DEF IInv, RemoveShift, callVars
<1>1. \A s \in Threads : s # t => pc[s] \in {"out", "lock"} /\ pc'[s] = pc[s] /\ call'[s] = call[s]
  BY DEF TypeOK
<1>2. TypeOK'
  BY DEF TypeOK, Removes
<1>3. NoOverrun'
  BY DEF NoOverrun, TypeOK, Fills
<1>4. Steps'
  BY <1>1 DEF Steps
<1>5. Slots'
  BY DEF Slots, Shifting, TypeOK, Fills
<1> QED
  BY <1>2, <1>3, <1>4, <1>5

LEMMA RemoveShiftedStep ==
  ASSUME IInv, NEW t \in Threads, RemoveShifted(t)
  PROVE  IInv'
<1> USE DEF IInv, RemoveShifted, Goto, callVars
<1>1. \A s \in Threads : s # t => pc[s] \in {"out", "lock"} /\ pc'[s] = pc[s] /\ call'[s] = call[s]
  BY DEF TypeOK
<1>2. TypeOK'
  BY DEF TypeOK, Pc, NoOverrun, Removes
<1>3. NoOverrun'
  BY DEF NoOverrun, TypeOK, Removes
<1>4. Steps'
  BY <1>1 DEF Steps
<1>5. Slots'
  BY DEF Slots, Shifting, TypeOK, Steps
<1> QED
  BY <1>2, <1>3, <1>4, <1>5

LEMMA CutStep ==
  ASSUME IInv, NEW t \in Threads, Cut(t)
  PROVE  IInv'
<1> USE DEF IInv, Cut, Goto, callVars, Resize
<1>1. \A s \in Threads : s # t => pc[s] \in {"out", "lock"} /\ pc'[s] = pc[s] /\ call'[s] = call[s]
  BY DEF TypeOK
<1>2. TypeOK'
  BY DEF TypeOK, Pc, Removes
<1>3. NoOverrun'
  BY <1>1 DEF NoOverrun, Fills, Removes
<1>4. Steps'
  BY <1>1 DEF Steps
<1>5. Slots'
  BY DEF Slots, Shifting, TypeOK, Fills, Removes
<1> QED
  BY <1>2, <1>3, <1>4, <1>5

LEMMA GetStep ==
  ASSUME IInv, NEW t \in Threads, Get(t)
  PROVE  IInv'
<1> USE DEF IInv, Get, Goto, Returns, callVars, Starts
<1>1. call[t].i < size
  BY DEF Valid
<1>2. ~Shifting /\ call[t].i \in Nat
  BY CallArguments DEF TypeOK, Shifting, Fills, Removes
<1>3. ret'[t] \in Answers /\ ret'[t] # NoRet
  <2>1. tab[call[t].i] \in Values
    BY <1>1, <1>2 DEF Slots, TypeOK
  <2> QED
    BY <2>1 DEF TypeOK, Answers, NoRet
<1>4. TypeOK'
  BY <1>3 DEF TypeOK, Pc, Removes
<1>5. NoOverrun'
  BY DEF NoOverrun, Fills, Removes
<1>6. Steps'
  BY DEF Steps
<1>7. Slots'
  BY DEF Slots, Shifting, Fills, Removes
<1> QED
  BY <1>4, <1>5, <1>6, <1>7

LEMMA SetStep ==
  ASSUME IInv, NEW t \in Threads, Set(t)
  PROVE  IInv'
<1> USE DEF IInv, Set, Goto, Returns, callVars, Starts
<1>1. call[t].i < size
  BY DEF Valid
<1>2. \A s \in Threads : s # t => pc[s] \in {"out", "lock"} /\ pc'[s] = pc[s] /\ call'[s] = call[s]
  BY DEF TypeOK
<1>3. TypeOK'
  BY CallArguments, <1>1 DEF TypeOK, Pc, Answers, Ok, NoRet, Removes
<1>4. NoOverrun'
  BY DEF NoOverrun, Fills, Removes
<1>5. Steps'
  BY <1>2 DEF Steps
<1>6. Slots'
  BY CallArguments DEF Slots, Shifting, TypeOK, Fills, Removes
<1> QED
  BY <1>3, <1>4, <1>5, <1>6

LEMMA SizeStep ==
  ASSUME IInv, NEW t \in Threads, Size(t)
  PROVE  IInv'
<1> USE DEF IInv, Size, Goto, Returns, callVars, Starts
<1>1. TypeOK'
  BY DEF TypeOK, Pc, Answers, NoRet, Removes
<1>2. NoOverrun'
  BY DEF NoOverrun, Fills, Removes
<1>3. Steps'
  BY DEF Steps
<1>4. Slots'
  BY DEF Slots, Shifting, Fills, Removes
<1> QED
  BY <1>1, <1>2, <1>3, <1>4

LEMMA FindStep ==
  ASSUME IInv, NEW t \in Threads, Find(t)
  PROVE  IInv'
<1> USE DEF IInv, Find, Goto, Returns, callVars, Starts
<1>1. ret'[t] \in Answers /\ ret'[t] # NoRet
  <2>1. (\E k \in 0..(size - 1) : tab[k] = call[t].v) \in BOOLEAN
    OBVIOUS
  <2> QED
    BY <2>1 DEF TypeOK, Answers, NoRet
<1>2. TypeOK'
  BY <1>1 DEF TypeOK, Pc, Ok, NoRet, Removes
<1>3. NoOverrun'
  BY DEF NoOverrun, Fills, Removes
<1>4. Steps'
  BY DEF Steps
<1>5. Slots'
  BY DEF Slots, Shifting, Fills, Removes
<1> QED
  BY <1>2, <1>3, <1>4, <1>5

LEMMA ClearStartStep ==
  ASSUME IInv, NEW t \in Threads, ClearStart(t)
  PROVE  IInv'
<1> USE DEF IInv, ClearStart, Goto, Returns, callVars, Starts
<1>1. TypeOK'
  BY DEF TypeOK, Pc, Answers, Ok, NoRet, Removes
<1>2. NoOverrun'
  BY DEF NoOverrun, Fills, Removes
<1>3. Steps'
  BY DEF Steps
<1>4. Slots'
  BY DEF Slots, Shifting, Fills, Removes
<1> QED
  BY <1>1, <1>2, <1>3, <1>4

LEMMA ClearOneStep ==
  ASSUME IInv, NEW t \in Threads, ClearOne(t)
  PROVE  IInv'
<1> USE DEF IInv, ClearOne, callVars
<1>1. \A s \in Threads : s # t => pc[s] \in {"out", "lock"} /\ pc'[s] = pc[s] /\ call'[s] = call[s]
  BY DEF TypeOK
<1>2. TypeOK'
  BY DEF TypeOK, Removes
<1>3. NoOverrun'
  BY <1>1 DEF NoOverrun, Fills, Removes
<1>4. Steps'
  BY <1>1 DEF Steps
<1>5. Slots'
  BY <1>1 DEF Slots, Shifting, Fills, Removes
<1> QED
  BY <1>2, <1>3, <1>4, <1>5

LEMMA ClearedStep ==
  ASSUME IInv, NEW t \in Threads, Cleared(t)
  PROVE  IInv'
<1> USE DEF IInv, Cleared, Goto, callVars
<1>1. TypeOK'
  BY DEF TypeOK, Pc, Removes
<1>2. NoOverrun'
  BY DEF NoOverrun, Fills, Removes
<1>3. Steps'
  BY DEF Steps
<1>4. Slots'
  BY DEF Slots, Fills
<1> QED
  BY <1>1, <1>2, <1>3, <1>4

(* The invariant holds for ever.                                            *)
LEMMA Inductive == Spec => []IInv
<1>1. Init => IInv
  BY TypeInit
<1>2. IInv /\ [Next]_vars => IInv'
  <2> SUFFICES ASSUME IInv, [Next]_vars PROVE IInv'
    OBVIOUS
  <2>1. CASE UNCHANGED vars
    BY <2>1 DEF vars, IInv, TypeOK, NoOverrun, Steps, Slots, Shifting, Fills, Removes
  <2>2. ASSUME NEW t \in Threads, (\E c \in Calls : Call(t, c)) \/ Lock(t) \/ Unlock(t)
        PROVE  IInv'
    BY <2>2, CallStep, LockStep, UnlockStep
  <2>3. ASSUME NEW t \in Threads, Body(t)
        PROVE  IInv'
    BY <2>3, ExitStep, AddStartStep, InsertStartStep, InsertShiftStep, InsertShiftedStep,
       StoreStep, CountStep, PopTakeStep, RemoveTakeStep, RemoveShiftStep, RemoveShiftedStep,
       CutStep, GetStep, SetStep, SizeStep, FindStep, ClearStartStep, ClearOneStep, ClearedStep
    DEF Body
  <2> QED
    BY <2>1, <2>2, <2>3 DEF Next
<1> QED
  BY <1>1, <1>2, PTL DEF Spec

(* Every variable of a list keeps its type, and one thread at most is in    *)
(* the body of a call.                                                      *)
THEOREM ListTypeCorrect == Spec => []TypeOK
BY Inductive, PTL DEF IInv

(* No statement of genericlist.c reads or writes outside l->tab.            *)
THEOREM ListNeverOverruns == Spec => []NoOverrun
BY Inductive, PTL DEF IInv

------------------------------------------------------------------------------
(* The operators of AtomicList on sequences *)

LEMMA SeqIsFunction ==
  ASSUME NEW S, NEW s \in Seq(S)
  PROVE  s = [k \in 1..Len(s) |-> s[k]]
BY LenProperties

LEMMA RemoveAtFunction ==
  ASSUME NEW S, NEW s \in Seq(S), NEW i \in 0..(Len(s) - 1)
  PROVE  List!RemoveAt(s, i + 1) = [k \in 1..(Len(s) - 1) |-> IF k - 1 >= i THEN s[k + 1] ELSE s[k]]
<1> DEFINE front == SubSeq(s, 1, (i + 1) - 1)
           rest == SubSeq(s, (i + 1) + 1, Len(s))
<1>1. Len(s) \in Nat /\ \A k \in 1..Len(s) : s[k] \in S
  BY LenProperties, ElementOfSeq
<1>2. front \in Seq(S) /\ Len(front) = i /\ \A k \in 1..i : front[k] = s[k]
  <2>1. \A k \in 1..((i + 1) - 1) : s[k] \in S
    BY <1>1
  <2> QED
    BY <1>1, <2>1, SubSeqProperties
<1>3. /\ rest \in Seq(S) /\ Len(rest) = Len(s) - i - 1
      /\ \A k \in 1..(Len(s) - i - 1) : rest[k] = s[k + i + 1]
  <2>1. \A k \in ((i + 1) + 1)..Len(s) : s[k] \in S
    BY <1>1
  <2>2. /\ rest \in Seq(S)
        /\ Len(rest) = IF (i + 1) + 1 <= Len(s) THEN Len(s) - ((i + 1) + 1) + 1 ELSE 0
        /\ \A k \in 1..(Len(s) - ((i + 1) + 1) + 1) : rest[k] = s[((i + 1) + 1) + k - 1]
    BY <1>1, <2>1, SubSeqProperties
  <2> HIDE DEF rest
  <2> QED
    BY <1>1, <2>2
<1> HIDE DEF front, rest
<1> DEFINE all == front \o rest
<1>4. /\ all \in Seq(S) /\ Len(all) = Len(s) - 1
      /\ \A k \in 1..(Len(s) - 1) : all[k] = IF k <= i THEN s[k] ELSE s[k + 1]
  <2>1. /\ all \in Seq(S) /\ Len(all) = Len(front) + Len(rest)
        /\ \A k \in 1..(Len(front) + Len(rest)) :
             all[k] = IF k <= Len(front) THEN front[k] ELSE rest[k - Len(front)]
    <3>1. front \in Seq(S) /\ rest \in Seq(S)
      BY <1>2, <1>3
    <3> QED
      BY <3>1, ConcatProperties
  <2>2. Len(front) + Len(rest) = Len(s) - 1
    BY <1>1, <1>2, <1>3
  <2>3. \A k \in (i + 1)..(Len(s) - 1) : rest[k - i] = s[k + 1]
    BY <1>1, <1>3
  <2> QED
    BY <1>1, <1>2, <2>1, <2>2, <2>3
<1> HIDE DEF all
<1>5. all = [k \in 1..(Len(s) - 1) |-> IF k - 1 >= i THEN s[k + 1] ELSE s[k]]
  <2>1. all = [k \in 1..(Len(s) - 1) |-> all[k]]
    BY <1>4, SeqIsFunction
  <2>2. [k \in 1..(Len(s) - 1) |-> all[k]]
          = [k \in 1..(Len(s) - 1) |-> IF k - 1 >= i THEN s[k + 1] ELSE s[k]]
    BY <1>1, <1>4
  <2> QED
    BY <2>1, <2>2
<1> QED
  BY <1>5 DEF List!RemoveAt, all, front, rest

LEMMA InsertAtFunction ==
  ASSUME NEW S, NEW s \in Seq(S), NEW i \in 0..Len(s), NEW e \in S
  PROVE  List!InsertAt(s, i + 1, e) =
           [k \in 1..(Len(s) + 1) |-> IF k - 1 < i THEN s[k] ELSE IF k - 1 = i THEN e ELSE s[k - 1]]
<1> DEFINE front == SubSeq(s, 1, (i + 1) - 1)
           rest == SubSeq(s, i + 1, Len(s))
<1>1. Len(s) \in Nat /\ \A k \in 1..Len(s) : s[k] \in S
  BY LenProperties, ElementOfSeq
<1>2. front \in Seq(S) /\ Len(front) = i /\ \A k \in 1..i : front[k] = s[k]
  <2>1. \A k \in 1..((i + 1) - 1) : s[k] \in S
    BY <1>1
  <2> QED
    BY <1>1, <2>1, SubSeqProperties
<1>3. /\ rest \in Seq(S) /\ Len(rest) = Len(s) - i
      /\ \A k \in 1..(Len(s) - i) : rest[k] = s[k + i]
  <2>1. \A k \in (i + 1)..Len(s) : s[k] \in S
    BY <1>1
  <2>2. /\ rest \in Seq(S)
        /\ Len(rest) = IF i + 1 <= Len(s) THEN Len(s) - (i + 1) + 1 ELSE 0
        /\ \A k \in 1..(Len(s) - (i + 1) + 1) : rest[k] = s[(i + 1) + k - 1]
    BY <1>1, <2>1, SubSeqProperties
  <2> HIDE DEF rest
  <2> QED
    BY <1>1, <2>2
<1> HIDE DEF front, rest
<1>4. <<e>> \in Seq(S) /\ Len(<<e>>) = 1 /\ <<e>>[1] = e
  OBVIOUS
<1> DEFINE some == front \o <<e>>
<1>5. /\ some \in Seq(S) /\ Len(some) = i + 1
      /\ \A k \in 1..(i + 1) : some[k] = IF k <= i THEN s[k] ELSE e
  BY <1>1, <1>2, <1>4, ConcatProperties
<1> HIDE DEF some
<1> DEFINE all == some \o rest
<1>6. /\ all \in Seq(S) /\ Len(all) = Len(s) + 1
      /\ \A k \in 1..(Len(s) + 1) :
           all[k] = IF k <= i THEN s[k] ELSE IF k = i + 1 THEN e ELSE s[k - 1]
  <2>1. /\ all \in Seq(S) /\ Len(all) = Len(some) + Len(rest)
        /\ \A k \in 1..(Len(some) + Len(rest)) :
             all[k] = IF k <= Len(some) THEN some[k] ELSE rest[k - Len(some)]
    <3>1. some \in Seq(S) /\ rest \in Seq(S)
      BY <1>3, <1>5
    <3> QED
      BY <3>1, ConcatProperties
  <2>2. Len(some) + Len(rest) = Len(s) + 1
    BY <1>1, <1>3, <1>5
  <2>3. \A k \in (i + 2)..(Len(s) + 1) : rest[k - (i + 1)] = s[k - 1]
    BY <1>1, <1>3
  <2> QED
    BY <1>1, <1>5, <2>1, <2>2, <2>3
<1> HIDE DEF all
<1>7. all = [k \in 1..(Len(s) + 1) |-> IF k - 1 < i THEN s[k] ELSE IF k - 1 = i THEN e ELSE s[k - 1]]
  <2>1. all = [k \in 1..(Len(s) + 1) |-> all[k]]
    BY <1>6, SeqIsFunction
  <2>2. [k \in 1..(Len(s) + 1) |-> all[k]]
          = [k \in 1..(Len(s) + 1) |-> IF k - 1 < i THEN s[k] ELSE IF k - 1 = i THEN e ELSE s[k - 1]]
    BY <1>1, <1>6
  <2> QED
    BY <2>1, <2>2
<1> QED
  BY <1>7 DEF List!InsertAt, all, some, front, rest

LEMMA FrontFunction ==
  ASSUME NEW S, NEW s \in Seq(S), NEW n \in Nat, Len(s) = n + 1
  PROVE  List!Front(s) = [k \in 1..n |-> s[k]]
<1> DEFINE front == SubSeq(s, 1, n)
<1>1. \A k \in 1..n : s[k] \in S
  BY ElementOfSeq
<1>2. front \in Seq(S) /\ Len(front) = n /\ \A k \in 1..n : front[k] = s[k]
  BY <1>1, SubSeqProperties
<1> HIDE DEF front
<1>3. front = [k \in 1..n |-> front[k]]
  <2>1. front = [k \in 1..Len(front) |-> front[k]]
    BY <1>2, SeqIsFunction
  <2> QED
    BY <1>2, <2>1
<1>4. [k \in 1..n |-> front[k]] = [k \in 1..n |-> s[k]]
  BY <1>2
<1>5. List!Front(s) = front
  BY DEF List!Front, front
<1> QED
  BY <1>3, <1>4, <1>5

LEMMA AppendFunction ==
  ASSUME NEW S, NEW s \in Seq(S), NEW e \in S
  PROVE  Append(s, e) = [k \in 1..(Len(s) + 1) |-> IF k = Len(s) + 1 THEN e ELSE s[k]]
<1>1. Len(s) \in Nat
  BY LenProperties
<1>2. /\ Append(s, e) \in Seq(S) /\ Len(Append(s, e)) = Len(s) + 1
      /\ \A k \in 1..(Len(s) + 1) : Append(s, e)[k] = IF k = Len(s) + 1 THEN e ELSE s[k]
  BY <1>1, AppendProperties
<1>3. Append(s, e) = [k \in 1..(Len(s) + 1) |-> Append(s, e)[k]]
  BY <1>2, SeqIsFunction
<1> QED
  BY <1>1, <1>2, <1>3
------------------------------------------------------------------------------
(* What the array holds, seen as a sequence *)

Quiet == ~Shifting /\ \A t \in Threads : pc[t] # "clear"

Views ==
  /\ Quiet => Content = [k \in 1..size |-> tab[k - 1]]
  /\ \A t \in Threads : Fills(t) =>
       Content = [k \in 1..size |-> IF k - 1 >= hole THEN tab[k] ELSE tab[k - 1]]
  /\ \A t \in Threads : Removes(t) =>
       Content = [k \in 1..(size - 1) |-> IF k - 1 >= hole THEN tab[k] ELSE tab[k - 1]]
  /\ \A t \in Threads : pc[t] = "clear" => Content = << >>

LEMMA ViewsHold == IInv => Views
<1> SUFFICES ASSUME IInv PROVE Views
  OBVIOUS
<1>1. TypeOK
  BY DEF IInv
<1>2. Quiet => Content = [k \in 1..size |-> tab[k - 1]]
  <2>1. Quiet => Length = size
    BY DEF Quiet, Shifting, Length
  <2> QED
    BY <2>1 DEF Content, Quiet
<1>3. ASSUME NEW t \in Threads, Fills(t)
      PROVE  Content = [k \in 1..size |-> IF k - 1 >= hole THEN tab[k] ELSE tab[k - 1]]
  <2>1. \A s \in Threads : ~Removes(s) /\ pc[s] # "clear"
    BY <1>1, <1>3, Alone DEF Fills, Removes
  <2>2. Shifting /\ Length = size
    BY <1>3, <2>1 DEF Shifting, Length
  <2> QED
    BY <2>2 DEF Content
<1>4. ASSUME NEW t \in Threads, Removes(t)
      PROVE  Content = [k \in 1..(size - 1) |-> IF k - 1 >= hole THEN tab[k] ELSE tab[k - 1]]
  <2>1. \A s \in Threads : pc[s] # "clear"
    BY <1>1, <1>4, Alone DEF Removes
  <2>2. Shifting /\ Length = size - 1
    BY <1>4, <2>1 DEF Shifting, Length
  <2> QED
    BY <2>2 DEF Content
<1>5. ASSUME NEW t \in Threads, pc[t] = "clear"
      PROVE  Content = << >>
  <2>1. Length = 0
    BY <1>5 DEF Length
  <2> QED
    BY <2>1 DEF Content
<1> QED
  BY <1>2, <1>3, <1>4, <1>5 DEF Views

LEMMA ViewsNext == (IInv => Views)'
BY ViewsHold, PTL

LEMMA ContentIsSeq == IInv /\ Quiet => Content \in Seq(Values) /\ Len(Content) = size
<1> SUFFICES ASSUME IInv, Quiet PROVE Content \in Seq(Values) /\ Len(Content) = size
  OBVIOUS
<1>1. size \in Nat /\ \A k \in 0..(size - 1) : tab[k] \in Values
  BY DEF IInv, TypeOK, Slots, Quiet
<1>2. Content = [k \in 1..size |-> tab[k - 1]]
  BY ViewsHold DEF Views
<1> QED
  BY <1>1, <1>2

LEMMA FillingIsSeq ==
  ASSUME IInv, NEW t \in Threads, Fills(t)
  PROVE  Content \in Seq(Values) /\ Len(Content) = size
<1>1. size \in Nat /\ hole \in Nat /\ \A k \in 0..size : k # hole => tab[k] \in Values
  BY DEF IInv, TypeOK, Slots
<1>2. Content = [k \in 1..size |-> IF k - 1 >= hole THEN tab[k] ELSE tab[k - 1]]
  BY ViewsHold DEF Views
<1>3. \A k \in 1..size : (IF k - 1 >= hole THEN tab[k] ELSE tab[k - 1]) \in Values
  BY <1>1
<1> QED
  BY <1>1, <1>2, <1>3

LEMMA ValuesHeld == IInv => HoldsValues
<1> SUFFICES ASSUME IInv PROVE HoldsValues
  OBVIOUS
<1>1. CASE Quiet
  BY <1>1, ContentIsSeq, ViewsHold DEF HoldsValues, Views, Length, Quiet, Shifting, IInv, Slots, TypeOK
<1>2. CASE \E t \in Threads : Fills(t)
  BY <1>2, FillingIsSeq DEF HoldsValues, Length, IInv, TypeOK
<1>3. ASSUME NEW t \in Threads, Removes(t)
      PROVE  HoldsValues
  <2>1. \A s \in Threads : pc[s] # "clear"
    BY <1>3, Alone DEF Removes, IInv
  <2>2. Length = size - 1
    BY <1>3, <2>1 DEF Length
  <2>3. size \in Nat /\ hole \in Nat /\ \A k \in 0..(size - 1) : k # hole => tab[k] \in Values
    BY <1>3 DEF IInv, TypeOK, Slots
  <2>4. Content = [k \in 1..(size - 1) |-> IF k - 1 >= hole THEN tab[k] ELSE tab[k - 1]]
    BY <1>3, ViewsHold DEF Views
  <2> QED
    BY <2>2, <2>3, <2>4 DEF HoldsValues
<1>4. CASE \E t \in Threads : pc[t] = "clear"
  BY <1>4 DEF HoldsValues, Length
<1> QED
  BY <1>1, <1>2, <1>3, <1>4 DEF Quiet, Shifting
------------------------------------------------------------------------------
(* Each step of the code is a step of AtomicList, or changes nothing in it  *)

(* The list when the body of a call begins, and when its end is near.       *)
LEMMA Started ==
  ASSUME IInv, NEW t \in Threads, pc[t] = "start"
  PROVE  /\ call[t] \in Calls /\ call[t] # NoCall /\ ret[t] = NoRet
         /\ size \in Nat /\ Len(Content) = size /\ Content \in Seq(Values)
         /\ Content = [k \in 1..size |-> tab[k - 1]]
         /\ \A i \in 0..(size - 1) : Content[i + 1] = tab[i]
<1>1. Quiet
  BY Alone DEF Quiet, Shifting, Fills, Removes, IInv
<1>2. size \in Nat /\ Content = [k \in 1..size |-> tab[k - 1]]
  BY <1>1, ViewsHold DEF Views, IInv, TypeOK
<1>3. ASSUME NEW i \in 0..(size - 1)
      PROVE  Content[i + 1] = tab[i]
  <2>1. i + 1 \in 1..size /\ (i + 1) - 1 = i
    BY <1>2
  <2> QED
    BY <1>2, <2>1
<1> QED
  BY <1>1, <1>2, <1>3, ContentIsSeq DEF IInv, TypeOK, Removes

LEMMA Ending ==
  ASSUME IInv', NEW t \in Threads, pc'[t] \in {"start", "cut", "unlock"}
  PROVE  Content' = [k \in 1..size' |-> tab'[k - 1]]
<1>1. \A s \in Threads : s # t => pc'[s] \in {"out", "lock"}
  BY DEF IInv, TypeOK
<1>2. Quiet'
  BY <1>1 DEF Quiet, Shifting, Fills, Removes
<1> QED
  BY <1>2, ViewsNext DEF Views

LEMMA EffectRule ==
  ASSUME NEW t, ~dead, call[t] # NoCall, ret[t] = NoRet,
         List!Allowed(call[t], Len(Content)),
         Content' = List!After(call[t], Content),
         ret' = [ret EXCEPT ![t] = List!Answer(call[t], Content)],
         UNCHANGED callVars
  PROVE  List!Effect(t)
BY DEF List!Effect, List!NoCall, List!NoRet, NoCall, NoRet, callVars

LEMMA GetEffect ==
  ASSUME IInv, IInv', NEW t \in Threads, Get(t)
  PROVE  List!Effect(t)
<1> DEFINE i == call[t].i
<1>1. call[t].op = "get" /\ i < size /\ pc[t] = "start" /\ ~dead
  BY DEF Get, Starts, Valid
<1>2. i \in 0..(size - 1) /\ Content[i + 1] = tab[i]
  BY <1>1, Started, CallArguments
<1>3. List!Allowed(call[t], Len(Content))
  BY <1>1, Started DEF List!Allowed
<1>4. Content' = List!After(call[t], Content)
  <2>1. pc'[t] = "unlock" /\ tab' = tab /\ size' = size
    BY DEF Get, Goto, IInv, TypeOK
  <2> QED
    BY <1>1, <2>1, Started, Ending DEF List!After
<1>5. ret' = [ret EXCEPT ![t] = List!Answer(call[t], Content)]
  BY <1>1, <1>2 DEF Get, Returns, List!Answer
<1> QED
  BY <1>1, <1>3, <1>4, <1>5, Started, EffectRule DEF Get

LEMMA SetEffect ==
  ASSUME IInv, IInv', NEW t \in Threads, Set(t)
  PROVE  List!Effect(t)
<1> DEFINE i == call[t].i
           v == call[t].v
<1>1. call[t].op = "set" /\ i < size /\ pc[t] = "start" /\ ~dead
  BY DEF Set, Starts, Valid
<1>2. i \in 0..(size - 1) /\ size \in Nat
  BY <1>1, Started, CallArguments
<1>3. List!Allowed(call[t], Len(Content))
  BY <1>1, Started DEF List!Allowed
<1>4. Content' = List!After(call[t], Content)
  <2>1. pc'[t] = "unlock" /\ tab' = [tab EXCEPT ![i] = v] /\ size' = size
    BY DEF Set, Goto, IInv, TypeOK
  <2> HIDE DEF i, v
  <2>2. Content' = [k \in 1..size |-> tab'[k - 1]]
    BY <2>1, Ending
  <2>3. \A k \in 1..size : tab'[k - 1] = IF k = i + 1 THEN v ELSE tab[k - 1]
    BY <1>2, <2>1 DEF IInv, TypeOK
  <2>4. Content' = [k \in 1..size |-> IF k = i + 1 THEN v ELSE tab[k - 1]]
    BY <2>2, <2>3
  <2>5. [Content EXCEPT ![i + 1] = v] = [k \in 1..size |-> IF k = i + 1 THEN v ELSE tab[k - 1]]
    BY <1>1, <1>2, Started
  <2> QED
    BY <1>1, <2>4, <2>5 DEF List!After, List!ReplaceAt, i, v
<1>5. ret' = [ret EXCEPT ![t] = List!Answer(call[t], Content)]
  BY <1>1 DEF Set, Returns, List!Answer, Ok, List!Ok
<1> QED
  BY <1>1, <1>3, <1>4, <1>5, Started, EffectRule DEF Set

LEMMA SizeEffect ==
  ASSUME IInv, IInv', NEW t \in Threads, Size(t)
  PROVE  List!Effect(t)
<1>1. call[t].op = "size" /\ pc[t] = "start" /\ ~dead
  BY DEF Size, Starts
<1>2. List!Allowed(call[t], Len(Content))
  BY <1>1 DEF List!Allowed
<1>3. Content' = List!After(call[t], Content)
  <2>1. pc'[t] = "unlock" /\ tab' = tab /\ size' = size
    BY DEF Size, Goto, IInv, TypeOK
  <2> QED
    BY <1>1, <2>1, Started, Ending DEF List!After
<1>4. ret' = [ret EXCEPT ![t] = List!Answer(call[t], Content)]
  BY <1>1, Started DEF Size, Returns, List!Answer
<1> QED
  BY <1>1, <1>2, <1>3, <1>4, Started, EffectRule DEF Size

LEMMA FindEffect ==
  ASSUME IInv, IInv', NEW t \in Threads, Find(t)
  PROVE  List!Effect(t)
<1> DEFINE v == call[t].v
<1>1. call[t].op = "find" /\ pc[t] = "start" /\ ~dead
  BY DEF Find, Starts
<1>2. List!Allowed(call[t], Len(Content))
  BY <1>1 DEF List!Allowed
<1>3. Content' = List!After(call[t], Content)
  <2>1. pc'[t] = "unlock" /\ tab' = tab /\ size' = size
    BY DEF Find, Goto, IInv, TypeOK
  <2> QED
    BY <1>1, <2>1, Started, Ending DEF List!After
<1>4. (\E k \in DOMAIN Content : Content[k] = v) <=> (\E k \in 0..(size - 1) : tab[k] = v)
  <2> HIDE DEF v
  <2>1. size \in Nat /\ DOMAIN Content = 1..size
    BY <1>1, Started
  <2>2. ASSUME NEW k \in 1..size, Content[k] = v
        PROVE  \E j \in 0..(size - 1) : tab[j] = v
    <3>1. k - 1 \in 0..(size - 1) /\ tab[k - 1] = v
      BY <1>1, <2>1, <2>2, Started
    <3> QED
      BY <3>1
  <2>3. ASSUME NEW k \in 0..(size - 1), tab[k] = v
        PROVE  \E j \in 1..size : Content[j] = v
    <3>1. k + 1 \in 1..size /\ Content[k + 1] = v
      BY <1>1, <2>1, <2>3, Started
    <3> QED
      BY <3>1
  <2> QED
    BY <2>1, <2>2, <2>3
<1>5. List!Answer(call[t], Content) = <<"found", \E k \in 0..(size - 1) : tab[k] = v>>
  BY <1>1, <1>4 DEF List!Answer
<1>6. ret' = [ret EXCEPT ![t] = List!Answer(call[t], Content)]
  BY <1>5 DEF Find, Returns
<1> QED
  BY <1>1, <1>2, <1>3, <1>6, Started, EffectRule DEF Find

LEMMA ClearEffect ==
  ASSUME IInv, IInv', NEW t \in Threads, ClearStart(t)
  PROVE  List!Effect(t)
<1>1. call[t].op = "clear" /\ pc[t] = "start" /\ ~dead
  BY DEF ClearStart, Starts
<1>2. List!Allowed(call[t], Len(Content))
  BY <1>1 DEF List!Allowed
<1>3. Content' = List!After(call[t], Content)
  <2>1. pc'[t] = "clear"
    BY DEF ClearStart, Goto, IInv, TypeOK
  <2> QED
    BY <1>1, <2>1, ViewsNext DEF List!After, Views
<1>4. ret' = [ret EXCEPT ![t] = List!Answer(call[t], Content)]
  BY <1>1 DEF ClearStart, Returns, List!Answer, Ok, List!Ok
<1> QED
  BY <1>1, <1>2, <1>3, <1>4, Started, EffectRule DEF ClearStart

LEMMA RemoveEffect ==
  ASSUME IInv, IInv', NEW t \in Threads, RemoveTake(t)
  PROVE  List!Effect(t)
<1> DEFINE i == call[t].i
<1>1. call[t].op = "remove" /\ i < size /\ pc[t] = "start" /\ ~dead
  BY DEF RemoveTake, Starts, Valid
<1>2. i \in 0..(size - 1) /\ size \in Nat /\ Content[i + 1] = tab[i]
  BY <1>1, Started, CallArguments
<1>3. List!Allowed(call[t], Len(Content))
  BY <1>1, Started DEF List!Allowed
<1>4. Content' = List!After(call[t], Content)
  <2>1. Removes(t)' /\ tab' = tab /\ size' = size /\ hole' = i
    BY <1>1 DEF RemoveTake, Goto, Removes, callVars, IInv, TypeOK
  <2> HIDE DEF i
  <2>2. Content' = [k \in 1..(size - 1) |-> IF k - 1 >= i THEN tab[k] ELSE tab[k - 1]]
    BY <2>1, ViewsNext DEF Views
  <2>3. List!RemoveAt(Content, i + 1) =
          [k \in 1..(size - 1) |-> IF k - 1 >= i THEN Content[k + 1] ELSE Content[k]]
    <3>1. i \in 0..(Len(Content) - 1)
      BY <1>1, <1>2, Started
    <3>2. List!RemoveAt(Content, i + 1) =
            [k \in 1..(Len(Content) - 1) |-> IF k - 1 >= i THEN Content[k + 1] ELSE Content[k]]
      BY <1>1, <3>1, Started, RemoveAtFunction
    <3> QED
      BY <1>1, <3>2, Started
  <2>4. \A k \in 1..(size - 1) : Content[k + 1] = tab[k] /\ Content[k] = tab[k - 1]
    BY <1>1, <1>2, Started
  <2> QED
    BY <1>1, <2>2, <2>3, <2>4 DEF List!After, i
<1>5. ret' = [ret EXCEPT ![t] = List!Answer(call[t], Content)]
  BY <1>1, <1>2 DEF RemoveTake, Returns, List!Answer
<1> QED
  BY <1>1, <1>3, <1>4, <1>5, Started, EffectRule DEF RemoveTake

LEMMA PopEffect ==
  ASSUME IInv, IInv', NEW t \in Threads, PopTake(t)
  PROVE  List!Effect(t)
<1>1. call[t].op = "pop" /\ size > 0 /\ pc[t] = "start" /\ ~dead
  BY DEF PopTake, Starts, Valid
<1>2. PICK n \in Nat : size = n + 1
  <2>1. size - 1 \in Nat /\ size = (size - 1) + 1
    BY <1>1 DEF IInv, TypeOK
  <2> QED
    BY <2>1
<1>3. Len(Content) = n + 1 /\ Content[n + 1] = tab[n]
  BY <1>1, <1>2, Started
<1>4. List!Allowed(call[t], Len(Content))
  BY <1>1, <1>3 DEF List!Allowed
<1>5. Content' = List!After(call[t], Content)
  <2>1. pc'[t] = "cut" /\ tab' = tab /\ size' = n
    BY <1>2 DEF PopTake, Goto, IInv, TypeOK
  <2>2. Content' = [k \in 1..n |-> tab[k - 1]]
    BY <2>1, Ending
  <2>3. List!Front(Content) = [k \in 1..n |-> Content[k]]
    BY <1>1, <1>3, Started, FrontFunction
  <2>4. \A k \in 1..n : Content[k] = tab[k - 1]
    BY <1>1, <1>2, Started
  <2> QED
    BY <1>1, <2>2, <2>3, <2>4 DEF List!After
<1>6. List!Answer(call[t], Content) = <<"value", tab[n]>>
  BY <1>1, <1>3 DEF List!Answer, List!Last
<1>7. ret' = [ret EXCEPT ![t] = <<"value", tab[n]>>]
  BY <1>2 DEF PopTake, Returns
<1> QED
  BY <1>1, <1>4, <1>5, <1>6, <1>7, Started, EffectRule DEF PopTake

LEMMA CountEffect ==
  ASSUME IInv, IInv', NEW t \in Threads, Count(t)
  PROVE  List!Effect(t)
<1> DEFINE v == call[t].v
<1>1. pc[t] = "count" /\ ~dead /\ call[t].op \in {"add", "insert"}
  BY DEF Count, IInv, Steps
<1>2. call[t] \in Calls /\ call[t] # NoCall /\ ret[t] = NoRet
  BY <1>1 DEF IInv, TypeOK, Removes
<1>3. v \in Values
  BY <1>1, <1>2, CallArguments
<1>4. /\ Fills(t) /\ hole \in 0..size /\ size \in Nat /\ tab[hole] = v
      /\ call[t].op = "insert" => call[t].i = hole
      /\ call[t].op = "add" => hole = size
  BY <1>1 DEF Fills, IInv, NoOverrun, Steps, TypeOK
<1> HIDE DEF v
<1>5. Content \in Seq(Values) /\ Len(Content) = size
  BY <1>4, FillingIsSeq
<1>6. \A k \in 1..size : Content[k] = IF k - 1 >= hole THEN tab[k] ELSE tab[k - 1]
  BY <1>4, ViewsHold DEF Views
<1>7. Content' = [k \in 1..(size + 1) |-> tab[k - 1]]
  <2>1. pc'[t] = "unlock" /\ tab' = tab /\ size' = size + 1
    BY DEF Count, Goto, IInv, TypeOK
  <2> QED
    BY <2>1, Ending
<1>8. ret' = [ret EXCEPT ![t] = List!Answer(call[t], Content)]
  BY <1>1 DEF Count, Returns, List!Answer, Ok, List!Ok
<1>9. CASE call[t].op = "add"
  <2>1. List!Allowed(call[t], Len(Content))
    BY <1>9 DEF List!Allowed
  <2>2. Append(Content, v) = [k \in 1..(size + 1) |-> IF k = size + 1 THEN v ELSE Content[k]]
    BY <1>3, <1>5, AppendFunction
  <2>3. \A k \in 1..(size + 1) : tab[k - 1] = IF k = size + 1 THEN v ELSE Content[k]
    BY <1>4, <1>6, <1>9
  <2>4. Content' = List!After(call[t], Content)
    BY <1>7, <1>9, <2>2, <2>3 DEF List!After, v
  <2> QED
    BY <1>1, <1>2, <1>8, <2>1, <2>4, EffectRule DEF Count
<1>10. CASE call[t].op = "insert"
  <2>1. List!Allowed(call[t], Len(Content))
    BY <1>4, <1>5, <1>10 DEF List!Allowed
  <2>2. List!InsertAt(Content, hole + 1, v) =
          [k \in 1..(size + 1) |->
             IF k - 1 < hole THEN Content[k] ELSE IF k - 1 = hole THEN v ELSE Content[k - 1]]
    BY <1>3, <1>4, <1>5, InsertAtFunction
  <2>3. \A k \in 1..(size + 1) : tab[k - 1] =
          IF k - 1 < hole THEN Content[k] ELSE IF k - 1 = hole THEN v ELSE Content[k - 1]
    BY <1>4, <1>6
  <2>4. Content' = List!After(call[t], Content)
    BY <1>4, <1>7, <1>10, <2>2, <2>3 DEF List!After, v
  <2> QED
    BY <1>1, <1>2, <1>8, <2>1, <2>4, EffectRule DEF Count
<1> QED
  BY <1>1, <1>9, <1>10

LEMMA ExitEffect ==
  ASSUME IInv, IInv', NEW t \in Threads, Exit(t)
  PROVE  List!Exit(t)
<1>1. /\ pc[t] = "start" /\ ~dead /\ ~Valid(t)
      /\ call[t].op \in {"insert", "pop", "remove", "get", "set"}
  BY DEF Exit, Starts
<1>2. ~List!Allowed(call[t], Len(Content))
  BY <1>1, Started DEF Valid, List!Allowed
<1>3. Content' = Content
  <2>1. pc'[t] = "start" /\ tab' = tab /\ size' = size
    BY <1>1 DEF Exit
  <2> QED
    BY <1>1, <2>1, Started, Ending
<1> QED
  BY <1>1, <1>2, <1>3, Started DEF Exit, List!Exit, List!NoCall, List!NoRet, NoCall, NoRet

(* Making a call, taking the mutex and releasing it do not touch the list.  *)
LEMMA SameView ==
  ASSUME UNCHANGED <<size, tab, hole>>,
         \A s \in Threads : /\ Fills(s)' <=> Fills(s)
                            /\ Removes(s)' <=> Removes(s)
                            /\ pc'[s] = "clear" <=> pc[s] = "clear"
  PROVE  Content' = Content
<1>1. Length' = Length
  BY DEF Length
<1>2. Shifting' <=> Shifting
  BY DEF Shifting
<1> QED
  BY <1>1, <1>2 DEF Content

LEMMA OutsideKeeps ==
  ASSUME IInv, NEW t \in Threads,
         Lock(t) \/ Unlock(t) \/ \E c \in Calls : Call(t, c)
  PROVE  Content' = Content
<1>1. CASE Lock(t)
  BY <1>1, SameView DEF Lock, Goto, callVars, Fills, Removes, IInv, TypeOK
<1>2. CASE Unlock(t)
  BY <1>2, SameView DEF Unlock, Goto, Fills, Removes, IInv, TypeOK
<1>3. CASE \E c \in Calls : Call(t, c)
  BY <1>3, SameView DEF Call, Goto, Fills, Removes, IInv, TypeOK
<1> QED
  BY <1>1, <1>2, <1>3

(* Making room, and the shift: the hole moves, the elements do not.         *)
LEMMA RoomKeeps ==
  ASSUME IInv, IInv', NEW t \in Threads, AddStart(t) \/ InsertStart(t)
  PROVE  Content' = Content
<1>1. pc[t] = "start" /\ call[t].op \in {"add", "insert"} /\ size \in Nat
  BY DEF AddStart, InsertStart, Starts, IInv, TypeOK
<1>2. Fills(t)' /\ size' = size /\ hole' = size
  BY <1>1 DEF AddStart, InsertStart, Fills, Goto, callVars, IInv, TypeOK
<1>3. \A k \in 1..size : tab'[k - 1] = tab[k - 1]
  <2>1. MakeRoom /\ size <= memory /\ memory \in Nat
    BY DEF AddStart, InsertStart, IInv, TypeOK
  <2>2. CASE size = memory
    <3>1. PICK n \in Nat : n = memory + Growth
      BY <2>1, ListAssumption
    <3>2. Resize(n)
      BY <2>1, <2>2, <3>1 DEF MakeRoom
    <3>3. tab' = [k \in 0..(n - 1) |-> IF k < memory THEN tab[k] ELSE Junk]
      BY <3>2 DEF Resize
    <3> QED
      BY <2>1, <2>2, <3>1, <3>3, ListAssumption
  <2>3. CASE size # memory
    BY <2>1, <2>3 DEF MakeRoom
  <2> QED
    BY <2>2, <2>3
<1>4. Content' = [k \in 1..size |-> IF k - 1 >= size THEN tab'[k] ELSE tab'[k - 1]]
  BY <1>2, ViewsNext DEF Views
<1>5. \A k \in 1..size : (IF k - 1 >= size THEN tab'[k] ELSE tab'[k - 1]) = tab[k - 1]
  BY <1>1, <1>3
<1>6. Content = [k \in 1..size |-> tab[k - 1]]
  BY <1>1, Started
<1> QED
  BY <1>4, <1>5, <1>6

LEMMA InsertKeeps ==
  ASSUME IInv, IInv', NEW t \in Threads,
         InsertShift(t) \/ InsertShifted(t) \/ Store(t)
  PROVE  Content' = Content
<1>1. /\ Fills(t) /\ Fills(t)' /\ size' = size /\ size \in Nat
      /\ size < memory /\ hole \in 0..size /\ hole' \in 0..size
  BY DEF InsertShift, InsertShifted, Store, Goto, callVars, Fills, IInv, NoOverrun, TypeOK, Steps
<1>2. \A k \in 1..size : (IF k - 1 >= hole' THEN tab'[k] ELSE tab'[k - 1])
                           = IF k - 1 >= hole THEN tab[k] ELSE tab[k - 1]
  <2>1. CASE InsertShift(t)
    <3>1. hole > 0 /\ hole' = hole - 1 /\ hole \in 0..(memory - 1)
      BY <1>1, <2>1, CallArguments DEF InsertShift, IInv, TypeOK
    <3>2. \A k \in 0..size : tab'[k] = IF k = hole THEN tab[hole - 1] ELSE tab[k]
      BY <1>1, <2>1, <3>1 DEF InsertShift, IInv, TypeOK
    <3> QED
      BY <1>1, <3>1, <3>2
  <2>2. CASE InsertShifted(t)
    BY <2>2 DEF InsertShifted
  <2>3. CASE Store(t)
    <3>1. hole' = hole /\ \A k \in 0..size : k # hole => tab'[k] = tab[k]
      BY <1>1, <2>3 DEF Store, IInv, TypeOK
    <3> QED
      BY <1>1, <3>1
  <2> QED
    BY <2>1, <2>2, <2>3
<1>3. Content' = [k \in 1..size |-> IF k - 1 >= hole' THEN tab'[k] ELSE tab'[k - 1]]
  BY <1>1, ViewsNext DEF Views
<1>4. Content = [k \in 1..size |-> IF k - 1 >= hole THEN tab[k] ELSE tab[k - 1]]
  BY <1>1, ViewsHold DEF Views
<1> QED
  BY <1>2, <1>3, <1>4

LEMMA RemoveKeeps ==
  ASSUME IInv, IInv', NEW t \in Threads, RemoveShift(t) \/ RemoveShifted(t)
  PROVE  Content' = Content
<1>1. /\ Removes(t) /\ pc[t] = "shift" /\ size \in Nat /\ size <= memory
      /\ hole \in 0..(size - 1)
  BY DEF RemoveShift, RemoveShifted, Removes, IInv, NoOverrun, TypeOK
<1>2. Content = [k \in 1..(size - 1) |-> IF k - 1 >= hole THEN tab[k] ELSE tab[k - 1]]
  BY <1>1, ViewsHold DEF Views
<1>3. CASE RemoveShift(t)
  <2>1. Removes(t)' /\ size' = size /\ hole' = hole + 1
    BY <1>1, <1>3 DEF RemoveShift, callVars, Removes
  <2>2. \A k \in 0..(size - 1) : tab'[k] = IF k = hole THEN tab[hole + 1] ELSE tab[k]
    BY <1>1, <1>3 DEF RemoveShift, IInv, TypeOK
  <2>3. Content' = [k \in 1..(size - 1) |-> IF k - 1 >= hole + 1 THEN tab'[k] ELSE tab'[k - 1]]
    BY <2>1, ViewsNext DEF Views
  <2>4. \A k \in 1..(size - 1) : (IF k - 1 >= hole + 1 THEN tab'[k] ELSE tab'[k - 1])
                                   = IF k - 1 >= hole THEN tab[k] ELSE tab[k - 1]
    BY <1>1, <1>3, <2>2 DEF RemoveShift
  <2> QED
    BY <1>2, <2>3, <2>4
<1>4. CASE RemoveShifted(t)
  <2>1. pc'[t] = "cut" /\ size' = size - 1 /\ tab' = tab /\ hole >= size - 1
    BY <1>1, <1>4 DEF RemoveShifted, Goto, IInv, TypeOK
  <2>2. Content' = [k \in 1..(size - 1) |-> tab[k - 1]]
    BY <2>1, Ending
  <2>3. \A k \in 1..(size - 1) : (IF k - 1 >= hole THEN tab[k] ELSE tab[k - 1]) = tab[k - 1]
    BY <1>1, <2>1
  <2> QED
    BY <1>2, <2>2, <2>3
<1> QED
  BY <1>3, <1>4

(* Cutting the memory to the list, and giving its elements away.            *)
LEMMA CutKeeps ==
  ASSUME IInv, IInv', NEW t \in Threads, Cut(t)
  PROVE  Content' = Content
<1>1. pc[t] = "cut" /\ pc'[t] = "unlock" /\ size' = size /\ size \in 0..memory /\ memory \in Nat
  BY DEF Cut, Goto, IInv, TypeOK
<1>2. \A k \in 1..size : tab'[k - 1] = tab[k - 1]
  BY <1>1 DEF Cut, Resize
<1>3. Content' = [k \in 1..size |-> tab'[k - 1]]
  BY <1>1, Ending
<1>4. Content = [k \in 1..size |-> tab[k - 1]]
  <2>1. Quiet
    BY <1>1, Alone DEF Quiet, Shifting, Fills, Removes, IInv
  <2> QED
    BY <2>1, ViewsHold DEF Views
<1> QED
  BY <1>2, <1>3, <1>4

LEMMA ClearKeeps ==
  ASSUME IInv, IInv', NEW t \in Threads, ClearOne(t) \/ Cleared(t)
  PROVE  Content' = Content
<1>1. Content = << >>
  BY ViewsHold DEF ClearOne, Cleared, Views
<1>2. Content' = << >>
  <2>1. CASE ClearOne(t)
    BY <2>1, ViewsNext DEF ClearOne, Views
  <2>2. CASE Cleared(t)
    <3>1. pc'[t] = "unlock" /\ size' = 0
      BY <2>2 DEF Cleared, Goto, IInv, TypeOK
    <3> QED
      BY <3>1, Ending
  <2> QED
    BY <2>1, <2>2
<1> QED
  BY <1>1, <1>2

LEMMA StutterKeeps ==
  ASSUME IInv, UNCHANGED vars
  PROVE  Content' = Content
BY DEF vars, Content, Length, Shifting, Fills, Removes

LEMMA UnlockEffect ==
  ASSUME IInv, NEW t \in Threads, Unlock(t)
  PROVE  List!Return(t)
<1>1. ret[t] # NoRet
  BY DEF Unlock, IInv, TypeOK
<1> QED
  BY <1>1, OutsideKeeps DEF Unlock, Returns, List!Return, List!NoCall, List!NoRet, NoCall, NoRet

LEMMA CallEffect ==
  ASSUME IInv, NEW t \in Threads, NEW c \in Calls, Call(t, c)
  PROVE  List!Call(t, c) /\ c \in List!Calls
<1>1. call[t] = NoCall
  BY DEF Call, IInv, TypeOK
<1> QED
  BY <1>1, OutsideKeeps DEF Call, List!Call, List!NoCall, NoCall, List!Calls, Calls

(* The list implements the atomic list.                                     *)
LEMMA ListStep ==
  ASSUME IInv, IInv', [Next]_vars
  PROVE  List!Next \/ UNCHANGED <<Content, call, ret, dead>>
<1>1. CASE UNCHANGED vars
  BY <1>1, StutterKeeps DEF vars
<1>2. ASSUME NEW t \in Threads, NEW c \in Calls, Call(t, c)
      PROVE  List!Next
  BY <1>2, CallEffect DEF List!Next
<1>3. ASSUME NEW t \in Threads, Unlock(t)
      PROVE  List!Next
  BY <1>3, UnlockEffect DEF List!Next
<1>4. ASSUME NEW t \in Threads, Exit(t)
      PROVE  List!Next
  BY <1>4, ExitEffect DEF List!Next
<1>5. ASSUME NEW t \in Threads,
             \/ Count(t) \/ PopTake(t) \/ RemoveTake(t) \/ Get(t) \/ Set(t)
             \/ Size(t) \/ Find(t) \/ ClearStart(t)
      PROVE  List!Next
  BY <1>5, CountEffect, PopEffect, RemoveEffect, GetEffect, SetEffect, SizeEffect, FindEffect,
     ClearEffect
  DEF List!Next
<1>6. ASSUME NEW t \in Threads,
             \/ Lock(t) \/ AddStart(t) \/ InsertStart(t) \/ InsertShift(t) \/ InsertShifted(t)
             \/ Store(t) \/ RemoveShift(t) \/ RemoveShifted(t) \/ Cut(t)
             \/ ClearOne(t) \/ Cleared(t)
      PROVE  UNCHANGED <<Content, call, ret, dead>>
  <2>1. Content' = Content
    BY <1>6, OutsideKeeps, RoomKeeps, InsertKeeps, RemoveKeeps, CutKeeps, ClearKeeps
  <2>2. UNCHANGED <<call, ret, dead>>
    BY <1>6 DEF Lock, AddStart, InsertStart, InsertShift, InsertShifted, Store, RemoveShift,
                RemoveShifted, Cut, ClearOne, Cleared, callVars
  <2> QED
    BY <2>1, <2>2
<1> QED
  BY <1>1, <1>2, <1>3, <1>4, <1>5, <1>6 DEF Next, Body

(* A list holds nothing but what was put in it.                             *)
THEOREM ListHoldsValues == Spec => []HoldsValues
BY Inductive, ValuesHeld, PTL

(* Every call happens at one point: the array, its shifts and its mutex     *)
(* implement the sequence of AtomicList.                                    *)
THEOREM ListImplemented == Spec => ImplementsList
<1>1. Init => List!Init
  <2> SUFFICES ASSUME Init PROVE List!Init
    OBVIOUS
  <2>1. IInv /\ Quiet /\ size = 0
    BY TypeInit DEF Quiet, Shifting, Fills, Removes, Init
  <2>2. Content = << >>
    BY <2>1, ContentIsSeq, EmptySeq
  <2> QED
    BY <2>2 DEF Init, List!Init, List!NoCall, List!NoRet, NoCall, NoRet
<1>2. IInv /\ IInv' /\ [Next]_vars => [List!Next]_<<Content, call, ret, dead>>
  BY ListStep
<1> QED
  BY <1>1, <1>2, Inductive, PTL DEF Spec, ImplementsList, List!Spec
=============================================================================

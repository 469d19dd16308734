----------------------------- MODULE SharedList -----------------------------
(***************************************************************************)
(* A GenList (src/types/genericlist.c): an array tab of memory slots, whose *)
(* first size slots hold the list, with a mutex.  Threads call it, and a    *)
(* call is a step for each place where it reads or writes the array or its  *)
(* two sizes.  ClientList keeps such an array too, and its one operation of *)
(* another form, the search of clientListGetId, is here as Find.            *)
(***************************************************************************)
EXTENDS Integers, Sequences, FiniteSets

CONSTANTS
  Threads,
  Values,   \* what a slot may hold: pointers
  Junk,     \* what realloc leaves in a new slot
  Growth,   \* slots added to a full array, 8 in the code
  MaxSize   \* bound on the elements of the list

ASSUME ListAssumption ==
  /\ IsFiniteSet(Threads)
  /\ Junk \notin Values
  /\ Growth \in Nat \ {0} /\ MaxSize \in Nat

VARIABLES
  memory,  \* l->memory_size
  size,    \* l->size
  tab,     \* l->tab, from 0
  mutex,   \* the threads that hold l->mutex
  hole,    \* while the owner shifts: the slot that holds no element
  call, ret, dead,  \* as in AtomicList; ret is set by the step that counts
  pc       \* where each thread is

vars == <<memory, size, tab, mutex, hole, call, ret, dead, pc>>
callVars == <<call, dead>>

NoCall == [op |-> "none"]
NoRet == <<>>
Ok == <<"ok">>

Calls ==
  [op : {"add", "find"}, v : Values] \union [op : {"insert", "set"}, v : Values, i : 0..MaxSize]
  \union [op : {"remove", "get"}, i : 0..MaxSize] \union [op : {"pop", "size", "clear"}]

Pc == {"out", "lock", "start", "shift", "store", "count", "cut", "clear", "unlock"}

(* initGenList(n), for one of the first sizes the callers give.             *)
Init ==
  /\ memory \in 0..MaxSize /\ size = 0
  /\ tab = [k \in 0..(memory - 1) |-> Junk]
  /\ mutex = {} /\ hole = 0
  /\ call = [t \in Threads |-> NoCall] /\ ret = [t \in Threads |-> NoRet]
  /\ dead = FALSE
  /\ pc = [t \in Threads |-> "out"]

Goto(t, l) == pc' = [pc EXCEPT ![t] = l]
Returns(t, r) == ret' = [ret EXCEPT ![t] = r]

\* mutant: new memory is taken, and the elements are not copied
ResizeFresh(n) == memory' = n /\ tab' = [k \in 0..(n - 1) |-> Junk]

\* adjustMemorySizeGenList
Resize(n) ==
  /\ memory' = n
  /\ tab' = [k \in 0..(n - 1) |-> IF k < memory THEN tab[k] ELSE Junk]

------------------------------------------------------------------------------

Adders == {t \in Threads : call[t].op \in {"add", "insert"}}

Call(t, c) ==
  /\ ~dead /\ pc[t] = "out"
  /\ c.op \in {"add", "insert"} => size + Cardinality(Adders) < MaxSize
  /\ call' = [call EXCEPT ![t] = c]
  /\ Goto(t, "lock")
  /\ UNCHANGED <<memory, size, tab, mutex, hole, ret, dead>>

\* mutant: the list is used without its mutex
LockNot(t) ==
  /\ ~dead /\ pc[t] = "lock"
  /\ mutex' = mutex \union {t}
  /\ Goto(t, "start")
  /\ UNCHANGED <<memory, size, tab, hole, ret, callVars>>

Lock(t) ==
  /\ ~dead /\ pc[t] = "lock" /\ mutex = {}
  /\ mutex' = {t}
  /\ Goto(t, "start")
  /\ UNCHANGED <<memory, size, tab, hole, ret, callVars>>

Unlock(t) ==
  /\ ~dead /\ pc[t] = "unlock"
  /\ mutex' = {}
  /\ call' = [call EXCEPT ![t] = NoCall]
  /\ Returns(t, NoRet)
  /\ Goto(t, "out")
  /\ UNCHANGED <<memory, size, tab, hole, dead>>

Starts(t, ops) == ~dead /\ pc[t] = "start" /\ call[t].op \in ops

Valid(t) ==
  CASE call[t].op = "insert" -> call[t].i <= size
    [] call[t].op = "pop" -> size > 0
    [] OTHER -> call[t].i < size

(* exitl on a position outside the list, with the mutex held.               *)
Exit(t) ==
  /\ Starts(t, {"insert", "pop", "remove", "get", "set"}) /\ ~Valid(t)
  /\ dead' = TRUE
  /\ UNCHANGED <<memory, size, tab, mutex, hole, call, ret, pc>>

\* mutant: the array grows one element too late
MakeRoomLate == IF size > memory THEN Resize(memory + Growth) ELSE UNCHANGED <<memory, tab>>

\* genListAdd and genListInsert make room: for another element, if full
MakeRoom == IF size = memory THEN Resize(memory + Growth) ELSE UNCHANGED <<memory, tab>>

AddStart(t) ==
  /\ Starts(t, {"add"})
  /\ MakeRoom
  /\ hole' = size
  /\ Goto(t, "store")
  /\ UNCHANGED <<size, mutex, ret, callVars>>

InsertStart(t) ==
  /\ Starts(t, {"insert"}) /\ Valid(t)
  /\ MakeRoom
  /\ hole' = size
  /\ Goto(t, "shift")
  /\ UNCHANGED <<size, mutex, ret, callVars>>

(* The loop of genListInsert, with hole = j + 1.                            *)
InsertShift(t) ==
  /\ ~dead /\ pc[t] = "shift" /\ call[t].op = "insert" /\ hole > call[t].i
  /\ tab' = [tab EXCEPT ![hole] = tab[hole - 1]]
  /\ hole' = hole - 1
  /\ UNCHANGED <<memory, size, mutex, ret, callVars, pc>>

InsertShifted(t) ==
  /\ ~dead /\ pc[t] = "shift" /\ call[t].op = "insert" /\ hole = call[t].i
  /\ Goto(t, "store")
  /\ UNCHANGED <<memory, size, tab, mutex, hole, ret, callVars>>

\* tab[size] = v, or tab[i] = v
Store(t) ==
  /\ ~dead /\ pc[t] = "store"
  /\ tab' = [tab EXCEPT ![hole] = call[t].v]
  /\ Goto(t, "count")
  /\ UNCHANGED <<memory, size, mutex, hole, ret, callVars>>

Count(t) ==
  /\ ~dead /\ pc[t] = "count"
  /\ size' = size + 1
  /\ Returns(t, Ok)
  /\ Goto(t, "unlock")
  /\ UNCHANGED <<memory, tab, mutex, hole, callVars>>

PopTake(t) ==
  /\ Starts(t, {"pop"}) /\ Valid(t)
  /\ Returns(t, <<"value", tab[size - 1]>>)
  /\ size' = size - 1
  /\ Goto(t, "cut")
  /\ UNCHANGED <<memory, tab, mutex, hole, callVars>>

\* mutant: the shift begins one slot too far
RemoveTakeNext(t) ==
  /\ Starts(t, {"remove"}) /\ Valid(t)
  /\ Returns(t, <<"value", tab[call[t].i]>>)
  /\ hole' = call[t].i + 1
  /\ Goto(t, "shift")
  /\ UNCHANGED <<memory, size, tab, mutex, callVars>>

RemoveTake(t) ==
  /\ Starts(t, {"remove"}) /\ Valid(t)
  /\ Returns(t, <<"value", tab[call[t].i]>>)
  /\ hole' = call[t].i
  /\ Goto(t, "shift")
  /\ UNCHANGED <<memory, size, tab, mutex, callVars>>

(* The loop of genListRemove, with hole = j.                                *)
RemoveShift(t) ==
  /\ ~dead /\ pc[t] = "shift" /\ call[t].op = "remove" /\ hole < size - 1
  /\ tab' = [tab EXCEPT ![hole] = tab[hole + 1]]
  /\ hole' = hole + 1
  /\ UNCHANGED <<memory, size, mutex, ret, callVars, pc>>

RemoveShifted(t) ==
  /\ ~dead /\ pc[t] = "shift" /\ call[t].op = "remove" /\ hole >= size - 1
  /\ size' = size - 1
  /\ Goto(t, "cut")
  /\ UNCHANGED <<memory, tab, mutex, hole, ret, callVars>>

\* the memory is cut to what is left, down to none
Cut(t) ==
  /\ ~dead /\ pc[t] = "cut"
  /\ Resize(size)
  /\ Goto(t, "unlock")
  /\ UNCHANGED <<size, mutex, hole, ret, callVars>>

Get(t) ==
  /\ Starts(t, {"get"}) /\ Valid(t)
  /\ Returns(t, <<"value", tab[call[t].i]>>)
  /\ Goto(t, "unlock")
  /\ UNCHANGED <<memory, size, tab, mutex, hole, callVars>>

Set(t) ==
  /\ Starts(t, {"set"}) /\ Valid(t)
  /\ tab' = [tab EXCEPT ![call[t].i] = call[t].v]
  /\ Returns(t, Ok)
  /\ Goto(t, "unlock")
  /\ UNCHANGED <<memory, size, mutex, hole, callVars>>

Size(t) ==
  /\ Starts(t, {"size"})
  /\ Returns(t, <<"size", size>>)
  /\ Goto(t, "unlock")
  /\ UNCHANGED <<memory, size, tab, mutex, hole, callVars>>

\* clientListGetId: does a client with this id exist
Find(t) ==
  /\ Starts(t, {"find"})
  /\ Returns(t, <<"found", \E k \in 0..(size - 1) : tab[k] = call[t].v>>)
  /\ Goto(t, "unlock")
  /\ UNCHANGED <<memory, size, tab, mutex, hole, callVars>>

\* genListClear gives the elements to fun, the last first, and keeps the memory
ClearStart(t) ==
  /\ Starts(t, {"clear"})
  /\ Returns(t, Ok)
  /\ Goto(t, "clear")
  /\ UNCHANGED <<memory, size, tab, mutex, hole, callVars>>

ClearOne(t) ==
  /\ ~dead /\ pc[t] = "clear" /\ size > 0
  /\ size' = size - 1
  /\ UNCHANGED <<memory, tab, mutex, hole, ret, callVars, pc>>

Cleared(t) ==
  /\ ~dead /\ pc[t] = "clear" /\ size = 0
  /\ Goto(t, "unlock")
  /\ UNCHANGED <<memory, size, tab, mutex, hole, ret, callVars>>

------------------------------------------------------------------------------

Body(t) ==
  \/ Exit(t) \/ AddStart(t) \/ InsertStart(t) \/ InsertShift(t) \/ InsertShifted(t)
  \/ Store(t) \/ Count(t) \/ PopTake(t)
  \/ RemoveTake(t) \/ RemoveShift(t) \/ RemoveShifted(t) \/ Cut(t)
  \/ Get(t) \/ Set(t) \/ Size(t) \/ Find(t)
  \/ ClearStart(t) \/ ClearOne(t) \/ Cleared(t)

Next ==
  \E t \in Threads : (\E c \in Calls : Call(t, c)) \/ Lock(t) \/ Body(t) \/ Unlock(t)

Spec == Init /\ [][Next]_vars

------------------------------------------------------------------------------
(* Properties *)

Answers ==
  {NoRet, Ok} \union ({"value"} \X Values) \union ({"size"} \X Nat) \union ({"found"} \X BOOLEAN)

Fills(t) == pc[t] \in {"shift", "store", "count"} /\ call[t].op \in {"add", "insert"}
Removes(t) == pc[t] = "shift" /\ call[t].op = "remove"

(* The type invariant, with the mutex: one thread at most is between its    *)
(* lock and its unlock, and a call has its result once it has counted.      *)
TypeOK ==
  /\ memory \in Nat /\ size \in 0..memory /\ hole \in Nat
  /\ tab \in [0..(memory - 1) -> Values \union {Junk}]
  /\ mutex = {t \in Threads : pc[t] \notin {"out", "lock"}}
  /\ \A s, t \in mutex : s = t
  /\ call \in [Threads -> Calls \union {NoCall}]
  /\ ret \in [Threads -> Answers]
  /\ dead \in BOOLEAN
  /\ pc \in [Threads -> Pc]
  /\ \A t \in Threads :
       /\ call[t] = NoCall <=> pc[t] = "out"
       /\ ret[t] # NoRet <=> pc[t] \in {"cut", "clear", "unlock"} \/ Removes(t)

(* No statement reads or writes outside the memory of the array: an element *)
(* is stored only where adjustMemorySizeGenList has made room, and both     *)
(* loops stay inside what the list had when they began.                     *)
NoOverrun ==
  \A t \in Threads :
    /\ Fills(t) => size < memory /\ hole \in 0..size
    /\ Removes(t) => hole \in 0..(size - 1)

\* the elements of the list, without the slot that is being filled or left
Length ==
  IF \E t \in Threads : pc[t] = "clear" THEN 0
  ELSE IF \E t \in Threads : Removes(t) THEN size - 1
  ELSE size

Shifting == \E t \in Threads : Fills(t) \/ Removes(t)

Content ==
  [k \in 1..Length |-> IF Shifting /\ k - 1 >= hole THEN tab[k] ELSE tab[k - 1]]

(* An element of the list is one that was put in it, whatever realloc left  *)
(* in the new slots and a shift in the old ones.                            *)
HoldsValues == \A k \in 1..Length : Content[k] \in Values

(* Each call behaves as if it happened at one point: the list implements a  *)
(* sequence that the threads share.                                         *)
List == INSTANCE AtomicList WITH content <- Content
ImplementsList == List!Spec
=============================================================================

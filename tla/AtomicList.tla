----------------------------- MODULE AtomicList -----------------------------
(***************************************************************************)
(* What a GenList promises to the threads that share one (genericlist.h):  *)
(* it is a sequence, each call takes effect at once between its start and  *)
(* its return, and a call with a position outside the list, or a pop of an *)
(* empty one, ends the program.  Positions start from 0.  "find" is the    *)
(* search of clientListGetId, which ClientList makes in the same array.    *)
(***************************************************************************)
EXTENDS Integers, Sequences, SequencesExt

CONSTANTS Threads, Values, MaxSize

VARIABLES
  content,  \* the elements of the list
  call,     \* the call each thread has made, or NoCall
  ret,      \* what it has returned, NoRet before it takes effect
  dead      \* exitl was called

NoCall == [op |-> "none"]
NoRet == <<>>
Ok == <<"ok">>

Calls ==
  [op : {"add", "find"}, v : Values] \union [op : {"insert", "set"}, v : Values, i : 0..MaxSize]
  \union [op : {"remove", "get"}, i : 0..MaxSize] \union [op : {"pop", "size", "clear"}]

Init ==
  /\ content = <<>>
  /\ call = [t \in Threads |-> NoCall] /\ ret = [t \in Threads |-> NoRet]
  /\ dead = FALSE

Call(t, c) ==
  /\ ~dead /\ call[t] = NoCall
  /\ call' = [call EXCEPT ![t] = c]
  /\ UNCHANGED <<content, ret, dead>>

\* the positions that a call on a list of n elements may be given
Allowed(c, n) ==
  CASE c.op = "insert" -> c.i <= n
    [] c.op \in {"remove", "get", "set"} -> c.i < n
    [] c.op = "pop" -> n > 0
    [] OTHER -> TRUE

(* The list after a call on s, and what the call returns.                   *)
After(c, s) ==
  CASE c.op = "add" -> Append(s, c.v)
    [] c.op = "insert" -> InsertAt(s, c.i + 1, c.v)
    [] c.op = "set" -> ReplaceAt(s, c.i + 1, c.v)
    [] c.op = "remove" -> RemoveAt(s, c.i + 1)
    [] c.op = "pop" -> Front(s)
    [] c.op = "clear" -> <<>>
    [] OTHER -> s

Answer(c, s) ==
  CASE c.op \in {"remove", "get"} -> <<"value", s[c.i + 1]>>
    [] c.op = "pop" -> <<"value", Last(s)>>
    [] c.op = "size" -> <<"size", Len(s)>>
    [] c.op = "find" -> <<"found", \E k \in DOMAIN s : s[k] = c.v>>
    [] OTHER -> Ok

Effect(t) ==
  /\ ~dead /\ call[t] # NoCall /\ ret[t] = NoRet
  /\ Allowed(call[t], Len(content))
  /\ content' = After(call[t], content)
  /\ ret' = [ret EXCEPT ![t] = Answer(call[t], content)]
  /\ UNCHANGED <<call, dead>>

Exit(t) ==
  /\ ~dead /\ call[t] # NoCall /\ ret[t] = NoRet
  /\ ~Allowed(call[t], Len(content))
  /\ dead' = TRUE
  /\ UNCHANGED <<content, call, ret>>

Return(t) ==
  /\ ~dead /\ ret[t] # NoRet
  /\ call' = [call EXCEPT ![t] = NoCall]
  /\ ret' = [ret EXCEPT ![t] = NoRet]
  /\ UNCHANGED <<content, dead>>

Next ==
  \E t \in Threads : (\E c \in Calls : Call(t, c)) \/ Effect(t) \/ Exit(t) \/ Return(t)

Spec == Init /\ [][Next]_<<content, call, ret, dead>>
=============================================================================

------------------------------- MODULE Manager -------------------------------
(***************************************************************************)
(* One Buffer_module of the client's manager (src/network/manager.c): a    *)
(* LIFO buffer of packets shared by the threads that post to it and the    *)
(* one thread that owns it.  Two pthread mutexes protect it:               *)
(*   - mutex_access_buffer, an ordinary lock around every operation;       *)
(*   - mutex_wait_read, used as a binary semaphore: a sender unlocks it to *)
(*     say "there is something to read", whoever holds it.                 *)
(* A pipe gets one byte per packet, for an owner that polls.  Each step is *)
(* one acquisition, one critical section or one release, so the model has  *)
(* every interleaving the other threads can see.                           *)
(***************************************************************************)
EXTENDS Integers, Sequences, Functions

CONSTANTS
  Senders,    \* threads that call managerSend on this module
  Owner,      \* the thread that reads the module and sets its state
  Packets,    \* packets, each posted at most once (packetCopy)
  NoOne,      \* mutex_access_buffer is free
  ReadModes,  \* how the owner reads: subset of Modes
  MaxSets     \* bound on the number of calls to managerSetState

Modes == {"blocking", "nonblocking", "polled"}
States == {"CLOSED", "IN_PROGRESS", "OPEN"}
Threads == Senders \union {Owner}

ASSUME ManagerAssumption ==
  /\ Owner \notin Senders
  /\ NoOne \notin Threads
  /\ ReadModes \subseteq Modes
  /\ MaxSets \in Nat

VARIABLES
  state,      \* buffer->state
  wait,       \* mutex_wait_read: "locked" or "unlocked"
  access,     \* the holder of mutex_access_buffer
  buff,       \* buffer->buff, the last element is the next one popped
  alert,      \* bytes waiting in the pipe fd_alert
  pc,         \* where each thread is
  target,     \* the state the owner's managerSetState asks for
  mode,       \* how the owner's current receive was called
  posted,     \* history: packets accepted by managerSend
  refused,    \* history: packets managerSend answered MANAGER_ERR_CLOSED for
  received,   \* history: packets handed to the owner
  discarded,  \* history: number of packets freed by setStateClose
  sets,       \* history: number of calls to managerSetState
  stranded,   \* history: packets whose token an opening took, none being
              \* given since
  ways        \* history: how the module was read since it was opened

shared == <<state, wait, access, buff, alert>>
history == <<posted, refused, received, discarded, sets, stranded, ways>>
vars == <<shared, pc, target, mode, history>>

\* pcs of a sender and of the owner, named after the call that comes next
SenderPc == {"idle", "add", "signal", "release"}
OwnerPc == {"idle", "set", "token", "trylock", "lock", "recv", "release"}

\* threads between the lock and the unlock of mutex_access_buffer
Inside == {"add", "signal", "set", "recv", "release"}

(* initManagerBuffer: closed, both mutexes unlocked, nothing to read. *)
Init ==
  /\ state = "CLOSED" /\ wait = "unlocked" /\ access = NoOne
  /\ buff = <<>> /\ alert = 0
  /\ pc = [t \in Threads |-> "idle"]
  /\ target = "CLOSED" /\ mode = "blocking"
  /\ posted = {} /\ refused = {} /\ received = {}
  /\ discarded = 0 /\ sets = 0
  /\ stranded = {} /\ ways = {}

Goto(t, l) == pc' = [pc EXCEPT ![t] = l]

(* pthread_mutex_lock and pthread_mutex_unlock of mutex_access_buffer. *)
Acquire(t) == access = NoOne /\ access' = t

\* mutant: one return path forgets the unlock
ReleaseForgets(t) ==
  /\ pc[t] = "release"
  /\ access' = IF t = Owner /\ buff = <<>> THEN access ELSE NoOne
  /\ Goto(t, "idle")
  /\ UNCHANGED <<state, wait, buff, alert, target, mode, history>>

Release(t) ==
  /\ pc[t] = "release"
  /\ access' = NoOne
  /\ Goto(t, "idle")
  /\ UNCHANGED <<state, wait, buff, alert, target, mode, history>>

------------------------------------------------------------------------------
(* managerSend *)

SendLock(s) ==
  /\ pc[s] = "idle"
  /\ Packets \ (posted \union refused) # {}
  /\ Acquire(s)
  /\ Goto(s, "add")
  /\ UNCHANGED <<state, wait, buff, alert, target, mode, history>>

\* mutant: the packet is kept whatever the state of the module
SendAnyState(s, p) ==
  /\ pc[s] = "add"
  /\ p \notin posted \union refused
  /\ buff' = Append(buff, p)
  /\ alert' = alert + 1
  /\ posted' = posted \union {p}
  /\ Goto(s, "signal")
  /\ UNCHANGED <<state, wait, access, target, mode, refused, received, discarded, sets, stranded, ways>>

\* mutant: the byte is written to the pipe only when the buffer was empty
SendAddFirstByte(s, p) ==
  /\ pc[s] = "add"
  /\ state # "CLOSED"
  /\ p \notin posted \union refused
  /\ buff' = Append(buff, p)
  /\ alert' = IF buff = <<>> THEN alert + 1 ELSE alert
  /\ posted' = posted \union {p}
  /\ Goto(s, "signal")
  /\ UNCHANGED <<state, wait, access, target, mode, refused, received, discarded, sets, stranded, ways>>

SendAdd(s, p) ==
  /\ pc[s] = "add"
  /\ state # "CLOSED"
  /\ p \notin posted \union refused
  /\ buff' = Append(buff, p)
  /\ alert' = alert + 1
  /\ posted' = posted \union {p}
  /\ Goto(s, "signal")
  /\ UNCHANGED <<state, wait, access, target, mode, refused, received, discarded, sets, stranded, ways>>

SendRefused(s, p) ==
  /\ pc[s] = "add"
  /\ state = "CLOSED"
  /\ p \notin posted \union refused
  /\ refused' = refused \union {p}
  /\ Goto(s, "signal")
  /\ UNCHANGED <<shared, target, mode, posted, received, discarded, sets, stranded, ways>>

\* mutant: only an open module is signalled, not one in progress
SendSignalOpen(s) ==
  /\ pc[s] = "signal"
  /\ wait' = IF state = "OPEN" THEN "unlocked" ELSE wait
  /\ Goto(s, "release")
  /\ UNCHANGED <<state, access, buff, alert, target, mode, history>>

(* mutex_wait_read is unlocked in both branches, access still held. *)
SendSignal(s) ==
  /\ pc[s] = "signal"
  /\ wait' = "unlocked"
  /\ stranded' = {}
  /\ Goto(s, "release")
  /\ UNCHANGED <<state, access, buff, alert, target, mode>>
  /\ UNCHANGED <<posted, refused, received, discarded, sets, ways>>

------------------------------------------------------------------------------
(* managerSetState: the owner's calls, one at a time. *)

SetLock(s) ==
  /\ pc[Owner] = "idle"
  /\ sets < MaxSets
  /\ Acquire(Owner)
  /\ target' = s
  /\ sets' = sets + 1
  /\ Goto(Owner, "set")
  /\ UNCHANGED <<state, wait, buff, alert, mode, posted, refused, received, discarded, stranded, ways>>

(* setStateClose: an open module is emptied; its pipe is not drained. *)
SetClose ==
  /\ state' = "CLOSED"
  /\ wait' = IF state = "CLOSED" THEN wait ELSE "unlocked"
  /\ buff' = IF state = "CLOSED" THEN buff ELSE <<>>
  /\ discarded' = IF state = "CLOSED" THEN discarded ELSE discarded + Len(buff)
  /\ stranded' = {}
  /\ UNCHANGED ways

(* setStateOpen: the trylock takes the token whatever the buffer holds. *)
SetOpen ==
  /\ state' = "OPEN"
  /\ wait' = IF state = "OPEN" THEN wait ELSE "locked"
  /\ stranded' = IF state = "OPEN" THEN stranded ELSE Range(buff)
  /\ ways' = IF state = "OPEN" THEN ways ELSE {}
  /\ UNCHANGED <<buff, discarded>>

\* mutant: no trylock, the token of the closed module stays free
SetInProgressNoTrylock ==
  /\ state' = "IN_PROGRESS"
  /\ UNCHANGED <<wait, buff, discarded, stranded, ways>>

(* setStateInProgress *)
SetInProgress ==
  /\ state' = "IN_PROGRESS"
  /\ wait' = IF state = "CLOSED" THEN "locked" ELSE wait
  /\ UNCHANGED <<buff, discarded, stranded, ways>>

SetBody ==
  /\ pc[Owner] = "set"
  /\ \/ target = "CLOSED" /\ SetClose
     \/ target = "OPEN" /\ SetOpen
     \/ target = "IN_PROGRESS" /\ SetInProgress
  /\ Goto(Owner, "release")
  /\ UNCHANGED <<access, alert, target, mode, posted, refused, received, sets>>

------------------------------------------------------------------------------
(* managerReceiveBlocking and managerReceiveNonBlocking *)

(* The caller: a blocking read waits for the token first; a polled one is   *)
(* the non-blocking read of tlsStartListenning, made once the pipe has a    *)
(* byte.                                                                    *)
RecvStart(m) ==
  /\ pc[Owner] = "idle"
  /\ m = "polled" => alert > 0
  /\ mode' = m
  /\ Goto(Owner, IF m = "blocking" THEN "token" ELSE "trylock")
  /\ ways' = ways \union {m}
  /\ UNCHANGED <<shared, target, posted, refused, received, discarded, sets, stranded>>

(* pthread_mutex_lock(mutex_wait_read) of managerReceiveBlocking. *)
RecvToken ==
  /\ pc[Owner] = "token"
  /\ wait = "unlocked"
  /\ wait' = "locked"
  /\ Goto(Owner, "trylock")
  /\ UNCHANGED <<state, access, buff, alert, target, mode, history>>

(* pthread_mutex_trylock: the token is taken if it is free. *)
RecvTrylock ==
  /\ pc[Owner] = "trylock"
  /\ wait' = "locked"
  /\ Goto(Owner, "lock")
  /\ UNCHANGED <<state, access, buff, alert, target, mode, history>>

RecvLock ==
  /\ pc[Owner] = "lock"
  /\ Acquire(Owner)
  /\ Goto(Owner, "recv")
  /\ UNCHANGED <<state, wait, buff, alert, target, mode, history>>

RecvClosed ==   \* MANAGER_ERR_CLOSED
  /\ pc[Owner] = "recv"
  /\ state = "CLOSED"
  /\ wait' = "unlocked"
  /\ Goto(Owner, "release")
  /\ UNCHANGED <<state, access, buff, alert, target, mode, history>>

RecvEmpty ==    \* MANAGER_ERR_RETRY: the token stays taken
  /\ pc[Owner] = "recv"
  /\ state # "CLOSED"
  /\ buff = <<>>
  /\ Goto(Owner, "release")
  /\ UNCHANGED <<shared, target, mode, history>>

\* mutant: the packet handed out is not the one removed
RecvPopOther ==
  /\ pc[Owner] = "recv"
  /\ state # "CLOSED" /\ buff # <<>>
  /\ alert > 0
  /\ received' = received \union {Head(buff)}
  /\ buff' = SubSeq(buff, 1, Len(buff) - 1)
  /\ alert' = alert - 1
  /\ wait' = IF Len(buff) > 1 THEN "unlocked" ELSE wait
  /\ stranded' = {}
  /\ Goto(Owner, "release")
  /\ UNCHANGED <<state, access, target, mode, posted, refused, discarded, sets, ways>>

\* mutant: the token is not given back when packets remain
RecvPopKeepsToken ==
  /\ pc[Owner] = "recv"
  /\ state # "CLOSED" /\ buff # <<>>
  /\ alert > 0
  /\ received' = received \union {buff[Len(buff)]}
  /\ buff' = SubSeq(buff, 1, Len(buff) - 1)
  /\ alert' = alert - 1
  /\ UNCHANGED wait
  /\ stranded' = {}
  /\ Goto(Owner, "release")
  /\ UNCHANGED <<state, access, target, mode, posted, refused, discarded, sets, ways>>

(* MANAGER_ERR_SUCCESS: the last packet is popped, one byte is read from    *)
(* the pipe (the read blocks while the pipe is empty) and the token is      *)
(* given back if packets remain.                                            *)
RecvPop ==
  /\ pc[Owner] = "recv"
  /\ state # "CLOSED" /\ buff # <<>>
  /\ alert > 0
  /\ received' = received \union {buff[Len(buff)]}
  /\ buff' = SubSeq(buff, 1, Len(buff) - 1)
  /\ alert' = alert - 1
  /\ wait' = IF Len(buff) > 1 THEN "unlocked" ELSE wait
  /\ stranded' = {}
  /\ Goto(Owner, "release")
  /\ UNCHANGED <<state, access, target, mode, posted, refused, discarded, sets, ways>>

------------------------------------------------------------------------------
SenderStep(s) ==
  \/ SendLock(s)
  \/ \E p \in Packets : SendAdd(s, p)
  \/ \E p \in Packets : SendRefused(s, p)
  \/ SendSignal(s)
  \/ Release(s)

OwnerStep ==
  \/ \E s \in States : SetLock(s)
  \/ SetBody
  \/ \E m \in ReadModes : RecvStart(m)
  \/ RecvToken
  \/ RecvTrylock
  \/ RecvLock
  \/ RecvClosed
  \/ RecvEmpty
  \/ RecvPop
  \/ Release(Owner)

Next == OwnerStep \/ \E s \in Senders : SenderStep(s)

Spec == Init /\ [][Next]_vars

(* The scheduler runs every thread that can run, and a thread inside a call *)
(* goes on.  Nothing makes a sender start a new call.  Once the owner has   *)
(* made its last managerSetState it does nothing but read, as the loops of  *)
(* stdoutHandler and funStartPeer do.                                       *)
FairSpec ==
  /\ Spec
  /\ WF_vars(OwnerStep)
  /\ \A s \in Senders : WF_vars(SenderStep(s) /\ pc[s] # "idle")

------------------------------------------------------------------------------
(* Every variable has its type, and mutex_access_buffer is held by exactly  *)
(* the thread that is between its lock and its unlock.                      *)
TypeOK ==
  /\ state \in States
  /\ wait \in {"locked", "unlocked"}
  /\ access \in Threads \union {NoOne}
  /\ buff \in Seq(Packets)
  /\ alert \in Nat
  /\ pc \in [Threads -> SenderPc \union OwnerPc]
  /\ pc[Owner] \in OwnerPc
  /\ \A s \in Senders : pc[s] \in SenderPc
  /\ target \in States
  /\ mode \in Modes
  /\ posted \subseteq Packets /\ refused \subseteq Packets /\ received \subseteq Packets
  /\ discarded \in Nat /\ sets \in Nat
  /\ stranded \subseteq Packets /\ ways \subseteq Modes
  /\ \A t \in Threads : (pc[t] \in Inside) <=> (access = t)

(* managerReceiveNonBlocking reads a byte of the pipe while it holds        *)
(* mutex_access_buffer: with no byte there, every thread of the client      *)
(* would end up waiting for that mutex.  The pipe holds one byte for each   *)
(* packet of the buffer, and one for each packet that a close discarded     *)
(* (the bytes setStateClose leaves behind, which wake a polling owner for   *)
(* nothing).                                                                *)
AlertAccounting == alert = Len(buff) + discarded

(* A closed module holds no packet, whatever the senders were doing when it *)
(* closed: the next thread to open it never reads one meant for the last.   *)
ClosedIsEmpty == state = "CLOSED" => buff = <<>>

(* managerReceiveBlocking never waits for a token nobody will give while a  *)
(* packet is in the buffer, with one exception: setStateOpen took the token *)
(* of packets that were there before the module was opened, and nothing was *)
(* posted since.                                                            *)
NoLostWakeup ==
  (pc[Owner] = "token" /\ wait = "locked" /\ buff # <<>>)
    => stranded # {} \/ \E s \in Senders : pc[s] = "signal"

(* manager.h: managerReceiveBlocking can return MANAGER_ERR_RETRY "if       *)
(* multiple threads try to read in the module".                             *)
NoSpuriousRetry ==
  (pc[Owner] = "recv" /\ mode = "blocking") => (state = "CLOSED" \/ buff # <<>>)

(* A single reader that is answered RETRY has mixed the two ways of reading *)
(* since it opened the module: the trylock of a non-blocking read can leave *)
(* a token too many, nothing else does.                                     *)
RetryOnlyIfMixed == NoSpuriousRetry \/ ~ways \subseteq {"blocking"}

(* The module behaves as the atomic mailbox: no packet is handed out twice, *)
(* invented, or kept across a close.                                        *)
Mail == INSTANCE Mailbox WITH mstate <- state, pending <- Range(buff)
ImplementsMailbox == Mail!MailSpec

(* A packet accepted by an open module leaves it: it is read, or the module *)
(* is closed.  The owner that waits for it is woken, unless the module was  *)
(* opened over the packets it holds.                                        *)
PacketsLeave == \A p \in Packets : (p \in Range(buff)) ~> (p \notin Range(buff) \/ p \in stranded)
==============================================================================

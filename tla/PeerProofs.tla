----------------------------- MODULE PeerProofs -----------------------------
(***************************************************************************)
(* The safety of a chat between two clients, for every bound on the        *)
(* threads, the commands and the messages of its users.                    *)
(***************************************************************************)
EXTENDS PeerSession, FiniteSetTheorems, TLAPS

------------------------------------------------------------------------------
(* The inductive invariant *)

Chat ==
  [wire : [Clients -> Seq(Packet \union {Fin})], shut : SUBSET Clients, gone : SUBSET Clients,
   broken : BOOLEAN, why : SUBSET {"close", "reject", "broken"}]

\* the messages of a sequence of packets were typed for chat k
Kept(q, k, own) == \A m \in Texts(q) : m.n \in DOMAIN own /\ own[m.n] = k

\* a packet of q ends the chat that reads it
Ends(q) == \E m \in Range(q) : m.type \in {"close", "reject"}

(* A connection: its messages are its own, an end whose stream has ended is *)
(* shut, what ends it has a reason, and it is released in order.            *)
GoodChat(k, ch, own) ==
  /\ ch \in Chat
  /\ \A c \in Clients :
       /\ Kept(ch.wire[c], k, own)
       /\ Fin \in Range(ch.wire[c]) => c \in ch.shut
       /\ Ends(ch.wire[c]) => ch.why # {}
  /\ ch.shut # {} \/ ch.broken => ch.why # {}
  /\ ch.gone # {} => ch.shut = Clients \/ ch.broken

(* What waits for a peer thread belongs to the chat it holds, l, and is     *)
(* among the reasons of that chat if it ends it.                            *)
GoodInbox(q, l, own, chs) == Kept(q, l, own) /\ (l # 0 /\ Ends(q) => chs[l].why # {})

ModuleTypes ==
  /\ state \in [Clients -> {"CLOSED", "IN_PROGRESS", "OPEN"}]
  /\ inbox \in [Clients -> Seq(Packet)]
  /\ pc \in [Clients -> PeerPc]
  /\ direct \in [Clients -> BOOLEAN]

LinkTypes ==
  /\ link \in [Clients -> 0..Len(chats)]
  /\ drains \subseteq Clients \X (1..Len(chats))

CommandTypes ==
  /\ typing \in [Clients -> 0..Len(chats)]
  /\ chatOf \in Seq(1..Len(chats)) /\ shown \subseteq 1..Len(chatOf)
  /\ starts \in [Clients -> 0..MaxStarts] /\ closes \in 0..MaxCloses

\* what the server tells a client
Told == {m \in P2P : m.type # "close"}

ServerTypes ==
  /\ fromServer \in [Clients -> Seq(Told)]
  /\ asked \subseteq Clients /\ infos \subseteq Clients
  /\ shake \in {<<>>} \union {<<c>> : c \in Clients}

Places ==
  \A c \in Clients :
    /\ state[c] = "CLOSED" <=> pc[c] = "none"
    /\ state[c] = "OPEN" <=> pc[c] \in {"listen", "stop"}
    /\ link[c] # 0 <=> pc[c] \in {"linked", "listen", "stop"}
    /\ link[c] # 0 => c \notin chats[link[c]].gone
    /\ pc[c] = "stop" => c \in chats[link[c]].shut

Chats == chats \in Seq(Chat) /\ \A k \in DOMAIN chats : GoodChat(k, chats[k], chatOf)

Inboxes == \A c \in Clients : GoodInbox(inbox[c], link[c], chatOf, chats)

\* a chat that exitThreadPeer closes is held by no thread, and ends for a reason
Drained ==
  \A c \in Clients, k \in DOMAIN chats :
    <<c, k>> \in drains => link[c] # k /\ chats[k].why # {}

\* the chat a message is typed for is the one PEER is in, or was in last
Typed ==
  \A c \in Clients :
    typing[c] # 0 => state[c] = "CLOSED" \/ (state[c] = "OPEN" /\ typing[c] = link[c])

\* the messages being typed are counted in the bound
Room == Len(chatOf) + Cardinality({c \in Clients : ~Idle(c)}) <= MaxTexts

IInv ==
  /\ ModuleTypes /\ LinkTypes /\ CommandTypes /\ ServerTypes
  /\ Places /\ Chats /\ Inboxes /\ Drained /\ Typed /\ Room

------------------------------------------------------------------------------
(* Packets, sequences of packets and the two clients *)

(* What a packet is.                                                        *)
LEMMA PacketFacts ==
  /\ \A m \in P2P : m \in Packet /\ m.type \in {"close", "reject", "get_infos", "try"}
  /\ \A m \in Packet : m.type \in {"close", "reject", "get_infos", "try", "text"}
  /\ \A m \in Packet : m.type = "try" => m.mode \in TlsModes
  /\ \A m \in Packet : m.type = "text" => m.n \in 1..MaxTexts
  /\ Fin \notin Packet /\ Fin.type = "fin"
BY DEF P2P, Packet, Fin

(* What the buffer and the connection hold after a read or a write.         *)
LEMMA AppendRange ==
  ASSUME NEW S, NEW q \in Seq(S), NEW m
  PROVE  Range(Append(q, m)) = Range(q) \union {m}
<1>1. DOMAIN Append(q, m) = 1..(Len(q) + 1) /\ DOMAIN q = 1..Len(q)
  OBVIOUS
<1>2. \A i \in 1..Len(q) : Append(q, m)[i] = q[i]
  OBVIOUS
<1>3. Append(q, m)[Len(q) + 1] = m
  OBVIOUS
<1>4. QED
  BY <1>1, <1>2, <1>3 DEF Range

LEMMA FrontRange ==
  ASSUME NEW S, NEW q \in Seq(S), q # <<>>
  PROVE  /\ Front(q) \in Seq(S) /\ Range(Front(q)) \subseteq Range(q)
         /\ Last(q) \in Range(q) /\ Last(q) \in S
<1>1. Len(q) \in Nat \ {0} /\ DOMAIN q = 1..Len(q) /\ \A i \in 1..Len(q) : q[i] \in S
  OBVIOUS
<1>2. Front(q) \in Seq(S) /\ Len(Front(q)) = Len(q) - 1
  BY <1>1 DEF Front
<1>3. \A i \in 1..(Len(q) - 1) : Front(q)[i] = q[i]
  BY <1>1 DEF Front
<1>4. DOMAIN Front(q) = 1..(Len(q) - 1)
  BY <1>2
<1>5. QED
  BY <1>1, <1>2, <1>3, <1>4 DEF Range, Last

LEMMA TailRange ==
  ASSUME NEW S, NEW q \in Seq(S), q # <<>>
  PROVE  /\ Tail(q) \in Seq(S) /\ Range(Tail(q)) \subseteq Range(q)
         /\ Head(q) \in Range(q) /\ Head(q) \in S
<1>1. Len(q) \in Nat \ {0} /\ DOMAIN q = 1..Len(q) /\ \A i \in 1..Len(q) : q[i] \in S
  OBVIOUS
<1>2. Tail(q) \in Seq(S) /\ Len(Tail(q)) = Len(q) - 1
  BY <1>1
<1>3. \A i \in 1..(Len(q) - 1) : Tail(q)[i] = q[i + 1]
  BY <1>1
<1>4. DOMAIN Tail(q) = 1..(Len(q) - 1)
  BY <1>2
<1>5. QED
  BY <1>1, <1>2, <1>3, <1>4 DEF Range

LEMMA EmptyRange == Range(<<>>) = {}
BY DEF Range

LEMMA Widens ==
  ASSUME NEW S, NEW T, NEW q \in Seq(S), \A x : x \in S => x \in T
  PROVE  q \in Seq(T)
OBVIOUS

(* A sequence that holds no more than q keeps what is said of q.            *)
LEMMA Shrinks ==
  ASSUME NEW q, NEW r, NEW k, NEW own, Range(r) \subseteq Range(q)
  PROVE  (Kept(q, k, own) => Kept(r, k, own)) /\ (Ends(r) => Ends(q))
BY DEF Kept, Ends, Texts

LEMMA Grows ==
  ASSUME NEW S, NEW q \in Seq(S), NEW m, NEW k, NEW own,
         Kept(q, k, own), m.type = "text" => m.n \in DOMAIN own /\ own[m.n] = k
  PROVE  /\ Kept(Append(q, m), k, own)
         /\ Ends(Append(q, m)) => Ends(q) \/ m.type \in {"close", "reject"}
BY AppendRange DEF Kept, Ends, Texts

LEMMA EmptyKept == \A k, own : Kept(<<>>, k, own) /\ ~Ends(<<>>) /\ Fin \notin Range(<<>>)
BY EmptyRange DEF Kept, Ends, Texts

LEMMA TwoClients ==
  /\ IsFiniteSet(Clients)
  /\ \A c \in Clients : Other(c) \in Clients /\ Other(c) # c /\ Clients = {c, Other(c)}
<1>1. IsFiniteSet(Clients) /\ Cardinality(Clients) = 2
  BY PeerAssumption
<1>2. ASSUME NEW c \in Clients
      PROVE  Other(c) \in Clients /\ Other(c) # c /\ Clients = {c, Other(c)}
  <2>1. IsFiniteSet(Clients \ {c}) /\ Cardinality(Clients \ {c}) = 1
    BY <1>1, FS_RemoveElement
  <2>2. PICK d : Clients \ {c} = {d}
    BY <2>1, FS_Singleton
  <2>3. d \in Clients /\ d # c
    BY <2>2
  <2>4. Other(c) \in Clients /\ Other(c) # c
    BY <2>3 DEF Other
  <2>5. QED
    BY <2>2, <2>4
<1>3. QED
  BY <1>1, <1>2

------------------------------------------------------------------------------
(* Connections *)

\* a connection by its fields
Made(wire, shut, gone, broken, why) ==
  [wire |-> wire, shut |-> shut, gone |-> gone, broken |-> broken, why |-> why]

(* The fields of a connection, one by one.                                  *)
LEMMA FieldsOf ==
  \A w, s, g, b, y :
    /\ Made(w, s, g, b, y).wire = w /\ Made(w, s, g, b, y).shut = s
    /\ Made(w, s, g, b, y).gone = g /\ Made(w, s, g, b, y).broken = b
    /\ Made(w, s, g, b, y).why = y
BY DEF Made

(* What each kind of update makes of a connection.                          *)
LEMMA Updates ==
  ASSUME NEW ch \in Chat
  PROVE  /\ ch = Made(ch.wire, ch.shut, ch.gone, ch.broken, ch.why)
         /\ \A s : [ch EXCEPT !.shut = s] = Made(ch.wire, s, ch.gone, ch.broken, ch.why)
         /\ \A g : [ch EXCEPT !.gone = g] = Made(ch.wire, ch.shut, g, ch.broken, ch.why)
         /\ \A b : [ch EXCEPT !.broken = b] = Made(ch.wire, ch.shut, ch.gone, b, ch.why)
         /\ \A y : [ch EXCEPT !.why = y] = Made(ch.wire, ch.shut, ch.gone, ch.broken, y)
         /\ \A w : [ch EXCEPT !.wire = w] = Made(w, ch.shut, ch.gone, ch.broken, ch.why)
         /\ \A c \in Clients : \A q : [ch EXCEPT !.wire[c] = q]
                   = Made([ch.wire EXCEPT ![c] = q], ch.shut, ch.gone, ch.broken, ch.why)
<1>1. \A w : [ch EXCEPT !.wire = w] = Made(w, ch.shut, ch.gone, ch.broken, ch.why)
  BY DEF Chat, Made
<1>2. ASSUME NEW c \in Clients, NEW q
      PROVE  [ch EXCEPT !.wire[c] = q]
               = Made([ch.wire EXCEPT ![c] = q], ch.shut, ch.gone, ch.broken, ch.why)
  <2> DEFINE w == [ch.wire EXCEPT ![c] = q]
  <2>1. [ch EXCEPT !.wire[c] = q] = [ch EXCEPT !.wire = w]
    OBVIOUS
  <2> HIDE DEF w
  <2>2. [ch EXCEPT !.wire = w] = Made(w, ch.shut, ch.gone, ch.broken, ch.why)
    BY <1>1
  <2>3. QED
    BY <2>1, <2>2 DEF w
<1>3. ch = Made(ch.wire, ch.shut, ch.gone, ch.broken, ch.why)
  BY DEF Chat, Made
<1>4. \A s : [ch EXCEPT !.shut = s] = Made(ch.wire, s, ch.gone, ch.broken, ch.why)
  BY DEF Chat, Made
<1>5. \A g : [ch EXCEPT !.gone = g] = Made(ch.wire, ch.shut, g, ch.broken, ch.why)
  BY DEF Chat, Made
<1>6. \A y : [ch EXCEPT !.why = y] = Made(ch.wire, ch.shut, ch.gone, ch.broken, y)
  BY DEF Chat, Made
<1>7. \A b : [ch EXCEPT !.broken = b] = Made(ch.wire, ch.shut, ch.gone, b, ch.why)
  BY DEF Chat, Made
<1>8. QED
  BY <1>1, <1>2, <1>3, <1>4, <1>5, <1>6, <1>7

LEMMA MadeChat ==
  ASSUME NEW w \in [Clients -> Seq(Packet \union {Fin})],
         NEW s \in SUBSET Clients, NEW g \in SUBSET Clients, NEW b \in BOOLEAN,
         NEW y \in SUBSET {"close", "reject", "broken"}
  PROVE  Made(w, s, g, b, y) \in Chat
BY DEF Made, Chat

(* A connection from its fields.                                            *)
LEMMA MadeGood ==
  ASSUME NEW k, NEW own, NEW w \in [Clients -> Seq(Packet \union {Fin})],
         NEW s \in SUBSET Clients, NEW g \in SUBSET Clients, NEW b \in BOOLEAN,
         NEW y \in SUBSET {"close", "reject", "broken"},
         \A c \in Clients :
           /\ Kept(w[c], k, own)
           /\ Fin \in Range(w[c]) => c \in s
           /\ Ends(w[c]) => y # {},
         s # {} \/ b => y # {},
         g # {} => s = Clients \/ b
  PROVE  GoodChat(k, Made(w, s, g, b, y), own)
<1>1. Made(w, s, g, b, y) \in Chat
  BY DEF Made, Chat
<1>2. QED
  BY <1>1, FieldsOf DEF GoodChat

LEMMA GoodFields ==
  ASSUME NEW k, NEW ch, NEW own, GoodChat(k, ch, own)
  PROVE  /\ ch \in Chat /\ ch.wire \in [Clients -> Seq(Packet \union {Fin})]
         /\ ch.shut \in SUBSET Clients /\ ch.gone \in SUBSET Clients /\ ch.broken \in BOOLEAN
         /\ ch.why \in SUBSET {"close", "reject", "broken"}
         /\ \A c \in Clients :
              /\ Kept(ch.wire[c], k, own)
              /\ Fin \in Range(ch.wire[c]) => c \in ch.shut
              /\ Ends(ch.wire[c]) => ch.why # {}
         /\ ch.shut # {} \/ ch.broken => ch.why # {}
         /\ ch.gone # {} => ch.shut = Clients \/ ch.broken
BY DEF GoodChat, Chat

(* What is written to a connection: nothing, if it is lost, or one packet   *)
(* of the same chat.                                                        *)
LEMMA Writes ==
  ASSUME NEW k, NEW ch, NEW own, GoodChat(k, ch, own), NEW c \in Clients,
         NEW m \in Packet \union {Fin},
         m.type = "text" => m.n \in DOMAIN own /\ own[m.n] = k,
         m.type \in {"close", "reject"} => ch.why # {}
  PROVE  \E w \in [Clients -> Seq(Packet \union {Fin})] :
           /\ Sent(ch, c, m) = Made(w, ch.shut, ch.gone, ch.broken, ch.why)
           /\ \A d \in Clients :
                /\ Kept(w[d], k, own)
                /\ Fin \in Range(w[d]) => d \in ch.shut \/ (d = c /\ m = Fin)
                /\ Ends(w[d]) => ch.why # {}
<1>1. ch \in Chat /\ ch.wire \in [Clients -> Seq(Packet \union {Fin})]
  BY GoodFields
<1>2. CASE ch.broken \/ Other(c) \in ch.gone
  <2>1. Sent(ch, c, m) = Made(ch.wire, ch.shut, ch.gone, ch.broken, ch.why)
    BY <1>1, <1>2, Updates DEF Sent
  <2>2. QED
    BY <1>1, <2>1, GoodFields
<1>3. CASE ~(ch.broken \/ Other(c) \in ch.gone)
  <2> DEFINE q == Append(ch.wire[c], m)
             w == [ch.wire EXCEPT ![c] = q]
  <2>1. Sent(ch, c, m) = [ch EXCEPT !.wire[c] = q]
    BY <1>3 DEF Sent
  <2>2. /\ q \in Seq(Packet \union {Fin}) /\ Range(q) = Range(ch.wire[c]) \union {m}
        /\ Kept(q, k, own) /\ (Ends(q) => ch.why # {})
    <3>1. ch.wire[c] \in Seq(Packet \union {Fin})
      BY <1>1
    <3>2. Kept(ch.wire[c], k, own) /\ (Ends(ch.wire[c]) => ch.why # {})
      BY GoodFields
    <3>3. QED
      BY <3>1, <3>2, AppendRange, Grows
  <2> HIDE DEF q
  <2>3. Sent(ch, c, m) = Made(w, ch.shut, ch.gone, ch.broken, ch.why)
    BY <1>1, <2>1, Updates
  <2>4. /\ w \in [Clients -> Seq(Packet \union {Fin})]
        /\ w[c] = q /\ \A d \in Clients : d # c => w[d] = ch.wire[d]
    BY <1>1, <2>2
  <2> HIDE DEF w
  <2>5. \A d \in Clients :
          /\ Kept(ch.wire[d], k, own)
          /\ Fin \in Range(ch.wire[d]) => d \in ch.shut
          /\ Ends(ch.wire[d]) => ch.why # {}
    BY GoodFields
  <2>6. \A d \in Clients :
          /\ Kept(w[d], k, own)
          /\ Fin \in Range(w[d]) => d \in ch.shut \/ (d = c /\ m = Fin)
          /\ Ends(w[d]) => ch.why # {}
    BY <2>2, <2>4, <2>5
  <2>7. QED
    BY <2>3, <2>4, <2>6
<1>4. QED
  BY <1>2, <1>3

(* tlsSend.                                                                 *)
LEMMA Forwards ==
  ASSUME NEW k, NEW ch, NEW own, GoodChat(k, ch, own), NEW c \in Clients, NEW m \in Packet,
         m.type = "text" => m.n \in DOMAIN own /\ own[m.n] = k,
         m.type \in {"close", "reject"} => ch.why # {}
  PROVE  /\ GoodChat(k, Sent(ch, c, m), own)
         /\ Sent(ch, c, m).shut = ch.shut /\ Sent(ch, c, m).gone = ch.gone
         /\ Sent(ch, c, m).why = ch.why /\ Sent(ch, c, m).broken = ch.broken
<1>1. m # Fin
  BY PacketFacts
<1>2. PICK w \in [Clients -> Seq(Packet \union {Fin})] :
        /\ Sent(ch, c, m) = Made(w, ch.shut, ch.gone, ch.broken, ch.why)
        /\ \A d \in Clients :
             /\ Kept(w[d], k, own)
             /\ Fin \in Range(w[d]) => d \in ch.shut \/ (d = c /\ m = Fin)
             /\ Ends(w[d]) => ch.why # {}
  BY Writes
<1>3. GoodChat(k, Made(w, ch.shut, ch.gone, ch.broken, ch.why), own)
  BY <1>1, <1>2, GoodFields, MadeGood
<1>4. QED
  BY <1>2, <1>3, FieldsOf

(* SSL_shutdown of a chat that ends for a reason.                           *)
LEMMA Shuts ==
  ASSUME NEW k, NEW ch, NEW own, GoodChat(k, ch, own), NEW c \in Clients, ch.why # {}
  PROVE  /\ GoodChat(k, Shut(ch, c), own)
         /\ Shut(ch, c).shut = ch.shut \union {c} /\ Shut(ch, c).gone = ch.gone
         /\ Shut(ch, c).why = ch.why /\ Shut(ch, c).broken = ch.broken
<1>1. CASE c \in ch.shut
  BY <1>1, GoodFields DEF Shut
<1>2. CASE c \notin ch.shut
  <2>1. Fin \in Packet \union {Fin} /\ Fin.type \notin {"text", "close", "reject"}
    BY PacketFacts
  <2>2. PICK w \in [Clients -> Seq(Packet \union {Fin})] :
          /\ Sent(ch, c, Fin) = Made(w, ch.shut, ch.gone, ch.broken, ch.why)
          /\ \A d \in Clients :
               /\ Kept(w[d], k, own)
               /\ Fin \in Range(w[d]) => d \in ch.shut \/ (d = c /\ Fin = Fin)
               /\ Ends(w[d]) => ch.why # {}
    BY <2>1, Writes
  <2>3. Shut(ch, c) = Made(w, ch.shut \union {c}, ch.gone, ch.broken, ch.why)
    <3>1. Shut(ch, c) = [Sent(ch, c, Fin) EXCEPT !.shut = ch.shut \union {c}]
      <4>1. Sent(ch, c, Fin).shut = ch.shut
        BY <2>2, FieldsOf
      <4>2. QED
        BY <1>2, <4>1 DEF Shut
    <3>2. \A s : [Sent(ch, c, Fin) EXCEPT !.shut = s] = Made(w, s, ch.gone, ch.broken, ch.why)
      BY <2>2 DEF Made
    <3>3. QED
      BY <3>1, <3>2
  <2>4. /\ ch.shut \union {c} \in SUBSET Clients
        /\ ch.gone # {} => ch.shut \union {c} = Clients \/ ch.broken
    BY GoodFields
  <2>5. \A d \in Clients :
          /\ Kept(w[d], k, own)
          /\ Fin \in Range(w[d]) => d \in ch.shut \union {c}
          /\ Ends(w[d]) => ch.why # {}
    BY <2>2
  <2>6. GoodChat(k, Made(w, ch.shut \union {c}, ch.gone, ch.broken, ch.why), own)
    BY <2>4, <2>5, GoodFields, MadeGood
  <2>7. QED
    BY <2>3, <2>6, FieldsOf
<1>3. QED
  BY <1>1, <1>2

(* SSL_read of a packet.                                                    *)
LEMMA Reads ==
  ASSUME NEW k, NEW ch, NEW own, GoodChat(k, ch, own), NEW d \in Clients, ch.wire[d] # <<>>
  PROVE  LET new == [ch EXCEPT !.wire[d] = Tail(@)]
         IN  /\ GoodChat(k, new, own)
             /\ new.shut = ch.shut /\ new.gone = ch.gone
             /\ new.why = ch.why /\ new.broken = ch.broken
<1> DEFINE q == Tail(ch.wire[d])
           w == [ch.wire EXCEPT ![d] = q]
           new == [ch EXCEPT !.wire[d] = q]
<1>1. ch \in Chat /\ ch.wire \in [Clients -> Seq(Packet \union {Fin})]
  BY GoodFields
<1>2. q \in Seq(Packet \union {Fin}) /\ Range(q) \subseteq Range(ch.wire[d])
  <2>1. ch.wire[d] \in Seq(Packet \union {Fin})
    BY <1>1
  <2>2. QED
    BY <2>1, TailRange
<1> HIDE DEF q
<1>3. new = Made(w, ch.shut, ch.gone, ch.broken, ch.why)
  BY <1>1, Updates
<1>4. /\ w \in [Clients -> Seq(Packet \union {Fin})]
      /\ \A c \in Clients : Range(w[c]) \subseteq Range(ch.wire[c])
  BY <1>1, <1>2
<1> HIDE DEF w, new
<1>5. ASSUME NEW c \in Clients
      PROVE  /\ Kept(w[c], k, own)
             /\ Fin \in Range(w[c]) => c \in ch.shut
             /\ Ends(w[c]) => ch.why # {}
  <2>1. /\ Kept(ch.wire[c], k, own)
        /\ Fin \in Range(ch.wire[c]) => c \in ch.shut
        /\ Ends(ch.wire[c]) => ch.why # {}
    BY GoodFields
  <2>2. Range(w[c]) \subseteq Range(ch.wire[c])
    BY <1>4
  <2>3. Kept(w[c], k, own) /\ (Ends(w[c]) => Ends(ch.wire[c]))
    BY <2>1, <2>2, Shrinks
  <2>4. QED
    BY <2>1, <2>2, <2>3
<1>6. GoodChat(k, Made(w, ch.shut, ch.gone, ch.broken, ch.why), own)
  BY <1>4, <1>5, GoodFields, MadeGood
<1>7. QED
  BY <1>3, <1>6, FieldsOf DEF new, q

(* close, once the other end has shut or the connection is broken.          *)
LEMMA Releases ==
  ASSUME NEW k, NEW ch, NEW own, GoodChat(k, ch, own), NEW c \in Clients, c \in ch.shut,
         \/ ch.broken
         \/ ch.wire[Other(c)] # <<>> /\ Head(ch.wire[Other(c)]) = Fin,
         NEW new, new = [ch EXCEPT !.gone = @ \union {c}]
  PROVE  /\ GoodChat(k, new, own)
         /\ new.shut = ch.shut /\ new.gone = ch.gone \union {c} /\ new.why = ch.why
<1>1. ch.shut = Clients \/ ch.broken
  <2>1. SUFFICES ASSUME ~ch.broken PROVE Clients \subseteq ch.shut
    BY GoodFields
  <2>2. ch.wire[Other(c)] \in Seq(Packet \union {Fin})
    BY GoodFields, TwoClients
  <2>3. Fin \in Range(ch.wire[Other(c)])
    BY <2>1, <2>2, TailRange
  <2>4. Other(c) \in ch.shut
    BY <2>3, TwoClients, GoodFields
  <2>5. QED
    BY <2>4, TwoClients
<1>2. new = Made(ch.wire, ch.shut, ch.gone \union {c}, ch.broken, ch.why)
  BY GoodFields, Updates
<1>3. GoodChat(k, Made(ch.wire, ch.shut, ch.gone \union {c}, ch.broken, ch.why), own)
  <2>1. ch.gone \union {c} \in SUBSET Clients
    BY GoodFields
  <2>2. QED
    BY <1>1, <2>1, GoodFields, MadeGood
<1>4. new.shut = ch.shut
  BY <1>2, FieldsOf
<1>5. new.gone = ch.gone \union {c}
  BY <1>2, FieldsOf
<1>6. new.why = ch.why
  BY <1>2, FieldsOf
<1>7. QED
  BY <1>2, <1>3, <1>4, <1>5, <1>6

(* A broken connection has lost what was on its way.                        *)
LEMMA Breaks ==
  ASSUME NEW k, NEW ch, NEW own, GoodChat(k, ch, own)
  PROVE  LET new == [ch EXCEPT !.broken = TRUE, !.why = @ \union {"broken"},
                               !.wire = [c \in Clients |-> <<>>]]
         IN  /\ GoodChat(k, new, own)
             /\ new.shut = ch.shut /\ new.gone = ch.gone /\ ch.why \subseteq new.why
<1> DEFINE w == [c \in Clients |-> <<>>]
           y == ch.why \union {"broken"}
           ch1 == [ch EXCEPT !.broken = TRUE]
           ch2 == [ch1 EXCEPT !.why = @ \union {"broken"}]
           new == [ch EXCEPT !.broken = TRUE, !.why = @ \union {"broken"}, !.wire = w]
<1>1. /\ w \in [Clients -> Seq(Packet \union {Fin})] /\ \A c \in Clients : w[c] = <<>>
      /\ y \in SUBSET {"close", "reject", "broken"} /\ y # {} /\ ch.why \subseteq y
  BY GoodFields
<1>2. new = [ch2 EXCEPT !.wire = w]
  OBVIOUS
<1>3. ch1 = Made(ch.wire, ch.shut, ch.gone, TRUE, ch.why) /\ ch1 \in Chat
  <2>1. ch \in Chat
    BY GoodFields
  <2>2. ch1 = Made(ch.wire, ch.shut, ch.gone, TRUE, ch.why)
    BY <2>1, Updates
  <2>3. QED
    BY <2>2, GoodFields DEF Made, Chat
<1> HIDE DEF ch1
<1>4. ch2 = Made(ch.wire, ch.shut, ch.gone, TRUE, y)
  <2>1. \A x : [ch1 EXCEPT !.why = x] = Made(ch1.wire, ch1.shut, ch1.gone, ch1.broken, x)
    BY <1>3, Updates
  <2>2. /\ ch1.wire = ch.wire /\ ch1.shut = ch.shut /\ ch1.gone = ch.gone
        /\ ch1.broken = TRUE /\ ch1.why = ch.why
    BY <1>3 DEF Made
  <2>3. QED
    BY <2>1, <2>2
<1> HIDE DEF y, ch2
<1>5. ch2 \in Chat
  BY <1>1, <1>4, GoodFields, MadeChat
<1> HIDE DEF w
<1>6. [ch2 EXCEPT !.wire = w] = Made(w, ch.shut, ch.gone, TRUE, y)
  <2>1. [ch2 EXCEPT !.wire = w] = Made(w, ch2.shut, ch2.gone, ch2.broken, ch2.why)
    BY <1>5, Updates
  <2>2. ch2.shut = ch.shut /\ ch2.gone = ch.gone /\ ch2.broken = TRUE /\ ch2.why = y
    BY <1>4 DEF Made
  <2>3. QED
    BY <2>1, <2>2
<1>7. \A c \in Clients : Kept(w[c], k, own) /\ ~Ends(w[c]) /\ Fin \notin Range(w[c])
  BY <1>1, EmptyKept
<1>8. ch.gone # {} => ch.shut = Clients \/ TRUE
  OBVIOUS
<1>9. GoodChat(k, Made(w, ch.shut, ch.gone, TRUE, y), own)
  BY <1>1, <1>7, GoodFields, MadeGood
<1>10. new = Made(w, ch.shut, ch.gone, TRUE, y)
  BY <1>2, <1>6
<1> HIDE DEF new
<1>11. GoodChat(k, new, own)
  BY <1>9, <1>10
<1>12. new.shut = ch.shut /\ new.gone = ch.gone /\ new.why = y
  BY <1>10 DEF Made
<1>13. QED
  BY <1>1, <1>11, <1>12 DEF new, w

(* A reason more.                                                           *)
LEMMA Reasoned ==
  ASSUME NEW k, NEW ch, NEW own, GoodChat(k, ch, own), NEW r \in {"close", "reject"}
  PROVE  LET new == [ch EXCEPT !.why = @ \union {r}]
         IN  /\ GoodChat(k, new, own)
             /\ new.shut = ch.shut /\ new.gone = ch.gone /\ new.why = ch.why \union {r}
<1> DEFINE new == [ch EXCEPT !.why = @ \union {r}]
<1>1. new = Made(ch.wire, ch.shut, ch.gone, ch.broken, ch.why \union {r})
  <2>1. ch \in Chat
    BY GoodFields
  <2>2. \A y : [ch EXCEPT !.why = y] = Made(ch.wire, ch.shut, ch.gone, ch.broken, y)
    BY <2>1, Updates
  <2>3. QED
    BY <2>2
<1>2. ch.why \union {r} \in SUBSET {"close", "reject", "broken"}
  BY GoodFields
<1>3. GoodChat(k, Made(ch.wire, ch.shut, ch.gone, ch.broken, ch.why \union {r}), own)
  BY <1>2, GoodFields, MadeGood
<1> HIDE DEF new
<1>4. QED
  BY <1>1, <1>3, FieldsOf DEF new

(* A new connection.                                                        *)
LEMMA NewGood ==
  ASSUME NEW k, NEW own, NEW y \in SUBSET {"close", "reject", "broken"}
  PROVE  GoodChat(k, NewChat(FALSE, y), own)
<1> DEFINE w == [c \in Clients |-> <<>>]
<1>1. w \in [Clients -> Seq(Packet \union {Fin})] /\ \A c \in Clients : w[c] = <<>>
  OBVIOUS
<1>2. NewChat(FALSE, y) = Made(w, {}, {}, FALSE, y)
  BY DEF NewChat, Made
<1> HIDE DEF w
<1>3. GoodChat(k, Made(w, {}, {}, FALSE, y), own)
  BY <1>1, EmptyKept, MadeGood
<1>4. QED
  BY <1>2, <1>3

LEMMA NewHalf ==
  ASSUME NEW k, NEW own, NEW c \in Clients
  PROVE  LET new == [NewChat(TRUE, {"broken"}) EXCEPT !.shut = {c}, !.gone = {c}]
         IN  GoodChat(k, new, own) /\ new.gone = {c} /\ new.why # {}
<1> DEFINE w == [d \in Clients |-> <<>>]
           ch0 == NewChat(TRUE, {"broken"})
           ch1 == [ch0 EXCEPT !.shut = {c}]
           new == [ch0 EXCEPT !.shut = {c}, !.gone = {c}]
<1>1. w \in [Clients -> Seq(Packet \union {Fin})] /\ \A d \in Clients : w[d] = <<>>
  OBVIOUS
<1>2. ch0 = Made(w, {}, {}, TRUE, {"broken"})
  BY DEF NewChat, Made
<1>3. \A d \in Clients : Kept(w[d], k, own) /\ ~Ends(w[d]) /\ Fin \notin Range(w[d])
  BY <1>1, EmptyKept
<1>4. new = [ch1 EXCEPT !.gone = {c}]
  OBVIOUS
<1> HIDE DEF w, ch0
<1>5. ch0 \in Chat
  BY <1>1, <1>2, MadeChat
<1>6. ch1 = Made(w, {c}, {}, TRUE, {"broken"})
  <2>1. ch1 = Made(ch0.wire, {c}, ch0.gone, ch0.broken, ch0.why)
    BY <1>5, Updates
  <2>2. ch0.wire = w /\ ch0.gone = {} /\ ch0.broken = TRUE /\ ch0.why = {"broken"}
    BY <1>2 DEF Made
  <2>3. QED
    BY <2>1, <2>2
<1> HIDE DEF ch1
<1>7. ch1 \in Chat
  BY <1>1, <1>6, MadeChat
<1>8. new = Made(w, {c}, {c}, TRUE, {"broken"})
  <2>1. [ch1 EXCEPT !.gone = {c}] = Made(ch1.wire, ch1.shut, {c}, ch1.broken, ch1.why)
    BY <1>7, Updates
  <2>2. ch1.wire = w /\ ch1.shut = {c} /\ ch1.broken = TRUE /\ ch1.why = {"broken"}
    BY <1>6 DEF Made
  <2>3. QED
    BY <1>4, <2>1, <2>2
<1> HIDE DEF new
<1>9. GoodChat(k, Made(w, {c}, {c}, TRUE, {"broken"}), own)
  BY <1>1, <1>3, MadeGood
<1>10. GoodChat(k, new, own)
  BY <1>8, <1>9
<1>11. new.gone = {c} /\ new.why = {"broken"}
  BY <1>8 DEF Made
<1>12. QED
  BY <1>10, <1>11 DEF new, ch0

------------------------------------------------------------------------------
(* Initial states *)

LEMMA PeerInit == Init => IInv
<1> SUFFICES ASSUME Init PROVE IInv
  OBVIOUS
<1>1. Len(chats) = 0 /\ Len(chatOf) = 0 /\ DOMAIN chats = {}
  BY DEF Init
<1>2. ModuleTypes
  BY DEF Init, ModuleTypes, PeerPc
<1>3. LinkTypes
  BY <1>1 DEF Init, LinkTypes
<1>4. CommandTypes
  BY <1>1, PeerAssumption DEF Init, CommandTypes
<1>5. ServerTypes
  BY DEF Init, ServerTypes
<1>6. Places
  BY DEF Init, Places
<1>7. Chats
  BY <1>1 DEF Init, Chats
<1>8. Inboxes
  BY EmptyKept DEF Init, Inboxes, GoodInbox
<1>9. Drained
  BY DEF Init, Drained
<1>10. Typed
  BY DEF Init, Typed
<1>11. Room
  <2>1. {c \in Clients : ~Idle(c)} = {}
    BY DEF Init, Idle
  <2>2. QED
    BY <1>1, <2>1, FS_EmptySet, PeerAssumption DEF Room
<1>12. QED
  BY <1>2, <1>3, <1>4, <1>5, <1>6, <1>7, <1>8, <1>9, <1>10, <1>11 DEF IInv

------------------------------------------------------------------------------
(* Steps that leave the connections alone *)

(* A step that changes no connection, and neither the chat of a thread nor  *)
(* the messages typed, keeps what is said of them.                          *)
LEMMA ChatsKept ==
  ASSUME Chats, UNCHANGED <<chats, chatOf>>
  PROVE  Chats'
BY DEF Chats

LEMMA RoomKept ==
  ASSUME Room, UNCHANGED <<chatOf, typing>>
  PROVE  Room'
BY DEF Room, Idle

(* The input thread creates a peer thread.                                  *)
LEMMA CreatesStep ==
  ASSUME IInv, NEW c \in Clients, NEW l \in PeerPc, NEW d \in BOOLEAN, Creates(c, l, d),
         l \notin {"none", "linked", "listen", "stop"},
         UNCHANGED <<link, drains, chats, typing, chatOf, closes, shown>>
  PROVE  /\ state' \in [Clients -> {"CLOSED", "IN_PROGRESS", "OPEN"}]
         /\ pc' \in [Clients -> PeerPc] /\ direct' \in [Clients -> BOOLEAN]
         /\ LinkTypes' /\ CommandTypes' /\ Places' /\ Chats' /\ Drained' /\ Typed' /\ Room'
<1> USE DEF Creates, Goto
<1>1. /\ state' \in [Clients -> {"CLOSED", "IN_PROGRESS", "OPEN"}]
      /\ pc' \in [Clients -> PeerPc] /\ direct' \in [Clients -> BOOLEAN]
  BY DEF IInv, ModuleTypes
<1>2. LinkTypes'
  BY DEF IInv, LinkTypes
<1>3. CommandTypes'
  BY PeerAssumption DEF IInv, CommandTypes
<1>4. Places'
  BY DEF IInv, Places, ModuleTypes
<1>5. Chats' /\ Room'
  BY ChatsKept, RoomKept DEF IInv
<1>6. Drained'
  BY DEF IInv, Drained
<1>7. Typed'
  BY DEF IInv, Typed, Idle, ModuleTypes
<1>8. QED
  BY <1>1, <1>2, <1>3, <1>4, <1>5, <1>6, <1>7

LEMMA InboxChange ==
  ASSUME Inboxes, NEW c \in Clients, NEW q, inbox \in [Clients -> Seq(Packet)],
         inbox' = [inbox EXCEPT ![c] = q], GoodInbox(q, link[c], chatOf, chats),
         UNCHANGED <<link, chatOf, chats>>
  PROVE  Inboxes'
BY DEF Inboxes

(* managerSend, to a thread that may hold a chat.                           *)
LEMMA Posts ==
  ASSUME NEW q \in Seq(Packet), NEW m \in Packet, NEW l, NEW own, NEW chs,
         GoodInbox(q, l, own, chs),
         m.type = "text" => m.n \in DOMAIN own /\ own[m.n] = l,
         l # 0 /\ m.type \in {"close", "reject"} => chs[l].why # {}
  PROVE  Append(q, m) \in Seq(Packet) /\ GoodInbox(Append(q, m), l, own, chs)
<1>1. /\ Kept(Append(q, m), l, own)
      /\ Ends(Append(q, m)) => Ends(q) \/ m.type \in {"close", "reject"}
  BY Grows DEF GoodInbox
<1>2. QED
  BY <1>1 DEF GoodInbox

LEMMA DirectStep ==
  ASSUME IInv, NEW c \in Clients, NEW m \in TlsModes, UserDirect(c, m)
  PROVE  IInv'
<1>1. m \in PeerPc /\ m \notin {"none", "linked", "listen", "stop"}
  BY DEF TlsModes, PeerPc
<1>2. /\ state' \in [Clients -> {"CLOSED", "IN_PROGRESS", "OPEN"}]
      /\ pc' \in [Clients -> PeerPc] /\ direct' \in [Clients -> BOOLEAN]
      /\ LinkTypes' /\ CommandTypes' /\ Places' /\ Chats' /\ Drained' /\ Typed' /\ Room'
  BY <1>1, CreatesStep DEF UserDirect
<1>3. ModuleTypes'
  BY <1>2 DEF IInv, ModuleTypes, UserDirect
<1>4. ServerTypes'
  BY DEF IInv, ServerTypes, UserDirect, serverVars
<1>5. Inboxes'
  BY DEF IInv, Inboxes, UserDirect
<1>6. QED
  BY <1>2, <1>3, <1>4, <1>5 DEF IInv

LEMMA RequestStep ==
  ASSUME IInv, NEW c \in Clients, UserRequest(c)
  PROVE  IInv'
<1>1. "infos" \in PeerPc
  BY DEF PeerPc
<1>2. /\ state' \in [Clients -> {"CLOSED", "IN_PROGRESS", "OPEN"}]
      /\ pc' \in [Clients -> PeerPc] /\ direct' \in [Clients -> BOOLEAN]
      /\ LinkTypes' /\ CommandTypes' /\ Places' /\ Chats' /\ Drained' /\ Typed' /\ Room'
  BY <1>1, CreatesStep DEF UserRequest
<1>3. ModuleTypes'
  BY <1>2 DEF IInv, ModuleTypes, UserRequest
<1>4. ServerTypes'
  BY DEF IInv, ServerTypes, UserRequest
<1>5. Inboxes'
  BY DEF IInv, Inboxes, UserRequest
<1>6. QED
  BY <1>2, <1>3, <1>4, <1>5 DEF IInv

LEMMA AcceptStep ==
  ASSUME IInv, NEW c \in Clients, UserAccept(c)
  PROVE  IInv'
<1>1. "infos" \in PeerPc
  BY DEF PeerPc
<1>2. /\ state' \in [Clients -> {"CLOSED", "IN_PROGRESS", "OPEN"}]
      /\ pc' \in [Clients -> PeerPc] /\ direct' \in [Clients -> BOOLEAN]
      /\ LinkTypes' /\ CommandTypes' /\ Places' /\ Chats' /\ Drained' /\ Typed' /\ Room'
  BY <1>1, CreatesStep DEF UserAccept
<1>3. ModuleTypes'
  BY <1>2 DEF IInv, ModuleTypes, UserAccept
<1>4. ServerTypes'
  <2>1. [type |-> "get_infos"] \in Told
    BY DEF P2P, Told
  <2>2. fromServer' \in [Clients -> Seq(Told)]
    BY <2>1 DEF IInv, ServerTypes, UserAccept
  <2>3. QED
    BY <2>2, TwoClients DEF IInv, ServerTypes, UserAccept
<1>5. Inboxes'
  BY DEF IInv, Inboxes, UserAccept
<1>6. QED
  BY <1>2, <1>3, <1>4, <1>5 DEF IInv

LEMMA UnservedStep ==
  ASSUME IInv, NEW c \in Clients, UserUnserved(c)
  PROVE  IInv'
<1>1. "infos" \in PeerPc
  BY DEF PeerPc
<1>2. /\ state' \in [Clients -> {"CLOSED", "IN_PROGRESS", "OPEN"}]
      /\ pc' \in [Clients -> PeerPc] /\ direct' \in [Clients -> BOOLEAN]
      /\ LinkTypes' /\ CommandTypes' /\ Places' /\ Chats' /\ Drained' /\ Typed' /\ Room'
  BY <1>1, CreatesStep DEF UserUnserved
<1> DEFINE q == Append(inbox[c], [type |-> "close"])
<1>3. q \in Seq(Packet) /\ GoodInbox(q, link[c], chatOf, chats)
  <2>1. link[c] = 0
    BY DEF IInv, Places, UserUnserved, Creates
  <2>2. inbox[c] \in Seq(Packet) /\ GoodInbox(inbox[c], link[c], chatOf, chats)
    BY DEF IInv, ModuleTypes, Inboxes
  <2>3. [type |-> "close"] \in Packet
    BY DEF Packet, P2P
  <2>4. QED
    BY <2>1, <2>2, <2>3, Posts
<1>4. inbox' = [inbox EXCEPT ![c] = q]
  BY DEF UserUnserved
<1> HIDE DEF q
<1>5. ModuleTypes'
  BY <1>2, <1>3, <1>4 DEF IInv, ModuleTypes
<1>6. ServerTypes'
  BY DEF IInv, ServerTypes, UserUnserved, serverVars
<1>7. Inboxes'
  BY <1>3, <1>4, InboxChange DEF IInv, ModuleTypes, UserUnserved
<1>8. QED
  BY <1>2, <1>5, <1>6, <1>7 DEF IInv

(* A message is typed, and then sent to PEER.                               *)
LEMMA TypesStep ==
  ASSUME IInv, NEW c \in Clients, UserTypes(c)
  PROVE  IInv'
<1>1. /\ state[c] = "OPEN" /\ link[c] # 0 /\ link[c] \in 1..Len(chats)
      /\ typing \in [Clients -> 0..Len(chats)] /\ typing[c] = 0
      /\ typing' = [typing EXCEPT ![c] = link[c]]
      /\ Len(chatOf) \in Nat
      /\ UNCHANGED <<moduleVars, threadVars, chatOf, starts, closes, serverVars, chats, shown>>
  <2>1. /\ state[c] = "OPEN" /\ typing[c] = 0 /\ typing' = [typing EXCEPT ![c] = link[c]]
        /\ UNCHANGED <<moduleVars, threadVars, chatOf, starts, closes, serverVars, chats, shown>>
    BY DEF UserTypes, Idle
  <2>2. link[c] # 0
    BY <2>1 DEF IInv, Places
  <2>3. link[c] \in 0..Len(chats)
    BY DEF IInv, LinkTypes
  <2>4. typing \in [Clients -> 0..Len(chats)] /\ chatOf \in Seq(1..Len(chats))
    BY DEF IInv, CommandTypes
  <2>5. Len(chatOf) \in Nat /\ Len(chats) \in Nat
    BY <2>4 DEF IInv, Chats
  <2>6. link[c] \in 1..Len(chats)
    BY <2>2, <2>3, <2>5
  <2>7. QED
    BY <2>1, <2>2, <2>4, <2>5, <2>6
<1>2. ModuleTypes' /\ LinkTypes' /\ ServerTypes' /\ Places'
  BY <1>1 DEF IInv, ModuleTypes, LinkTypes, ServerTypes, Places, moduleVars, threadVars, serverVars
<1>3. CommandTypes'
  BY <1>1 DEF IInv, CommandTypes
<1>4. Chats'
  BY <1>1, ChatsKept DEF IInv
<1>5. Inboxes' /\ Drained'
  BY <1>1 DEF IInv, Inboxes, Drained, moduleVars, threadVars
<1>6. Typed'
  BY <1>1 DEF IInv, Typed, moduleVars, threadVars
<1>7. Room'
  <2> DEFINE B == {d \in Clients : ~Idle(d)}
  <2>1. B' = B \union {c} /\ c \notin B /\ IsFiniteSet(B)
    <3>1. IsFiniteSet(B)
      BY TwoClients, FS_Subset
    <3>2. QED
      BY <1>1, <3>1 DEF Idle
  <2>2. Cardinality(B') = Cardinality(B) + 1 /\ Cardinality(B) \in Nat
    BY <2>1, FS_AddElement, FS_CardinalityType
  <2>3. Len(chatOf) + Cardinality(B) < MaxTexts
    BY DEF UserTypes
  <2> HIDE DEF B
  <2>4. Len(chatOf') + Cardinality(B') <= MaxTexts
    BY <1>1, <2>2, <2>3, PeerAssumption
  <2>5. QED
    BY <2>4 DEF Room, B
<1>8. QED
  BY <1>2, <1>3, <1>4, <1>5, <1>6, <1>7 DEF IInv

(* ... is sent, unless PEER has been closed meanwhile.                      *)
LEMMA SendsStep ==
  ASSUME IInv, NEW c \in Clients, UserSends(c)
  PROVE  IInv'
<1>1. /\ typing' = [typing EXCEPT ![c] = 0] /\ typing[c] # 0 /\ typing[c] \in 1..Len(chats)
      /\ typing \in [Clients -> 0..Len(chats)] /\ chatOf \in Seq(1..Len(chats))
      /\ Len(chatOf) \in Nat /\ Len(chats) \in Nat
      /\ UNCHANGED <<state, threadVars, starts, closes, serverVars, chats, shown>>
  <2>1. /\ typing' = [typing EXCEPT ![c] = 0] /\ typing[c] # 0
        /\ UNCHANGED <<state, threadVars, starts, closes, serverVars, chats, shown>>
    BY DEF UserSends, Idle
  <2>2. typing \in [Clients -> 0..Len(chats)] /\ chatOf \in Seq(1..Len(chats))
    BY DEF IInv, CommandTypes
  <2>3. Len(chatOf) \in Nat /\ Len(chats) \in Nat
    BY <2>2 DEF IInv, Chats
  <2>4. typing[c] \in 0..Len(chats)
    BY <2>2
  <2>5. typing[c] \in 1..Len(chats)
    BY <2>1, <2>3, <2>4
  <2>6. QED
    BY <2>1, <2>2, <2>3, <2>5
<1>2. /\ Len(chatOf) + 1 \in 1..MaxTexts
      /\ Len(chatOf) + Cardinality({d \in Clients : ~Idle(d)'}) + 1 <= MaxTexts
  <2> DEFINE B == {d \in Clients : ~Idle(d)}
  <2>1. {d \in Clients : ~Idle(d)'} = B \ {c} /\ c \in B /\ IsFiniteSet(B)
    <3>1. IsFiniteSet(B)
      BY TwoClients, FS_Subset
    <3>2. QED
      BY <1>1, <3>1 DEF Idle
  <2>2. Cardinality(B \ {c}) = Cardinality(B) - 1 /\ Cardinality(B) \in Nat
        /\ Cardinality(B \ {c}) \in Nat
    BY <2>1, FS_RemoveElement, FS_CardinalityType
  <2>3. Len(chatOf) + Cardinality(B) <= MaxTexts
    BY DEF IInv, Room
  <2> DEFINE i == Len(chatOf)
             j == Cardinality(B)
  <2>4. i \in Nat /\ j \in Nat /\ j - 1 \in Nat /\ i + j <= MaxTexts /\ MaxTexts \in Nat
    BY <1>1, <2>2, <2>3, PeerAssumption
  <2>5. Cardinality({d \in Clients : ~Idle(d)'}) = j - 1
    BY <2>1, <2>2
  <2> HIDE DEF B, i, j
  <2>6. i + 1 \in 1..MaxTexts /\ i + (j - 1) + 1 <= MaxTexts
    BY <2>4
  <2>7. QED
    BY <2>5, <2>6 DEF i
<1>3. ModuleTypes' /\ Inboxes'
  <2> DEFINE q == Posted(c, [type |-> "text", n |-> Len(chatOf) + 1])
  <2>1. inbox[c] \in Seq(Packet) /\ inbox' = [inbox EXCEPT ![c] = q]
    BY DEF IInv, ModuleTypes, UserSends
  <2>2. \A d \in Clients : GoodInbox(inbox[d], link[d], chatOf, chats)
    BY DEF IInv, Inboxes
  <2>3. CASE state[c] = "CLOSED"
    <3>1. q = inbox[c] /\ chatOf' = chatOf
      BY <2>3 DEF Posted, UserSends
    <3>2. inbox' = inbox
      BY <2>1, <3>1 DEF IInv, ModuleTypes
    <3>3. QED
      BY <1>1, <3>1, <3>2 DEF IInv, ModuleTypes, Inboxes, threadVars
  <2>4. CASE state[c] # "CLOSED"
    <3> DEFINE m == [type |-> "text", n |-> Len(chatOf) + 1]
    <3>1. q = Append(inbox[c], m) /\ chatOf' = Append(chatOf, typing[c])
      BY <2>4 DEF Posted, UserSends
    <3>2. typing[c] = link[c]
      BY <1>1, <2>4 DEF IInv, Typed
    <3>3. m \in Packet /\ m.type = "text" /\ m.n = Len(chatOf) + 1
      BY <1>2 DEF Packet
    <3> HIDE DEF m, q
    <3>4. /\ DOMAIN chatOf \subseteq DOMAIN chatOf'
          /\ \A n \in DOMAIN chatOf : chatOf'[n] = chatOf[n]
          /\ m.n \in DOMAIN chatOf' /\ chatOf'[m.n] = link[c]
      BY <1>1, <3>1, <3>2, <3>3
    <3>5. \A d \in Clients : GoodInbox(inbox[d], link[d], chatOf', chats)
      BY <2>2, <3>4 DEF GoodInbox, Kept
    <3>6. q \in Seq(Packet) /\ GoodInbox(q, link[c], chatOf', chats)
      BY <2>1, <3>1, <3>3, <3>4, <3>5, Posts
    <3>7. Inboxes'
      BY <1>1, <2>1, <3>5, <3>6 DEF IInv, ModuleTypes, Inboxes, threadVars
    <3>8. ModuleTypes'
      BY <1>1, <2>1, <3>6 DEF IInv, ModuleTypes, threadVars
    <3>9. QED
      BY <3>7, <3>8
  <2>5. QED
    BY <2>3, <2>4
<1>4. LinkTypes' /\ ServerTypes' /\ Places' /\ Drained'
  BY <1>1 DEF IInv, LinkTypes, ServerTypes, Places, Drained, threadVars, serverVars
<1>5. CommandTypes'
  <2>1. typing' \in [Clients -> 0..Len(chats)]
    BY <1>1
  <2>2. chatOf' \in Seq(1..Len(chats)) /\ Len(chatOf) <= Len(chatOf')
    <3>1. chatOf' = chatOf \/ chatOf' = Append(chatOf, typing[c])
      BY DEF UserSends
    <3>2. Append(chatOf, typing[c]) \in Seq(1..Len(chats))
      BY <1>1
    <3>3. Len(Append(chatOf, typing[c])) = Len(chatOf) + 1
      BY <1>1
    <3>4. CASE chatOf' = chatOf
      BY <1>1, <3>4
    <3>5. CASE chatOf' = Append(chatOf, typing[c])
      <4>1. chatOf' \in Seq(1..Len(chats)) /\ Len(chatOf') = Len(chatOf) + 1
        BY <3>2, <3>3, <3>5
      <4>2. QED
        BY <1>1, <4>1
    <3>6. QED
      BY <3>1, <3>4, <3>5
  <2>3. shown \subseteq 1..Len(chatOf')
    <3>1. shown \subseteq 1..Len(chatOf) /\ Len(chatOf') \in Nat
      BY <2>2 DEF IInv, CommandTypes
    <3>2. QED
      BY <1>1, <2>2, <3>1
  <2>4. QED
    BY <1>1, <2>1, <2>2, <2>3 DEF IInv, CommandTypes
<1>6. Chats'
  <2>1. \A n \in DOMAIN chatOf : n \in DOMAIN chatOf' /\ chatOf'[n] = chatOf[n]
    BY <1>1 DEF UserSends
  <2>2. ASSUME NEW k \in DOMAIN chats
        PROVE  GoodChat(k, chats[k], chatOf')
    <3>1. GoodChat(k, chats[k], chatOf)
      BY DEF IInv, Chats
    <3>2. \A d \in Clients : Kept(chats[k].wire[d], k, chatOf) => Kept(chats[k].wire[d], k, chatOf')
      BY <2>1 DEF Kept
    <3>3. QED
      BY <3>1, <3>2 DEF GoodChat
  <2>3. QED
    BY <1>1, <2>2 DEF IInv, Chats
<1>7. Typed'
  BY <1>1 DEF IInv, Typed, threadVars
<1>8. Room'
  <2> DEFINE n == Cardinality({d \in Clients : ~Idle(d)'})
  <2>1. n \in Nat
    BY TwoClients, FS_Subset, FS_CardinalityType
  <2>2. Len(chatOf') <= Len(chatOf) + 1 /\ Len(chatOf') \in Nat
    BY <1>1 DEF UserSends
  <2>3. Len(chatOf) + n + 1 <= MaxTexts
    BY <1>2
  <2> HIDE DEF n
  <2>4. Len(chatOf') + n <= MaxTexts
    BY <1>1, <2>1, <2>2, <2>3, PeerAssumption
  <2>5. QED
    BY <2>4 DEF Room, n
<1>9. QED
  BY <1>3, <1>4, <1>5, <1>6, <1>7, <1>8 DEF IInv

------------------------------------------------------------------------------
(* Steps that change the connections made                                   *)

(* No connection is made or forgotten, none loses its reasons or the mark   *)
(* of an end that has shut, and only the clients of S release theirs.       *)
Grown(S) ==
  /\ chats' \in Seq(Chat) /\ Len(chats') = Len(chats) /\ DOMAIN chats' = DOMAIN chats
  /\ \A k \in DOMAIN chats :
       /\ GoodChat(k, chats'[k], chatOf)
       /\ chats[k].shut \subseteq chats'[k].shut
       /\ chats[k].why \subseteq chats'[k].why
       /\ chats'[k].gone \subseteq chats[k].gone \union S

LEMMA GrownSame ==
  ASSUME IInv, UNCHANGED chats
  PROVE  Grown({})
<1>1. chats \in Seq(Chat) /\ \A k \in DOMAIN chats : GoodChat(k, chats[k], chatOf)
  BY DEF IInv, Chats
<1>2. QED
  BY <1>1 DEF Grown

LEMMA GrownOne ==
  ASSUME IInv, NEW S, NEW k \in DOMAIN chats, NEW new, chats' = [chats EXCEPT ![k] = new],
         GoodChat(k, new, chatOf), chats[k].shut \subseteq new.shut,
         chats[k].why \subseteq new.why, new.gone \subseteq chats[k].gone \union S
  PROVE  Grown(S) /\ chats'[k] = new
<1>1. chats \in Seq(Chat) /\ \A j \in DOMAIN chats : GoodChat(j, chats[j], chatOf)
  BY DEF IInv, Chats
<1>2. new \in Chat
  BY GoodFields
<1>3. /\ chats' \in Seq(Chat) /\ Len(chats') = Len(chats) /\ DOMAIN chats' = DOMAIN chats
      /\ chats'[k] = new /\ \A j \in DOMAIN chats : j # k => chats'[j] = chats[j]
  BY <1>1, <1>2
<1>4. ASSUME NEW j \in DOMAIN chats
      PROVE  /\ GoodChat(j, chats'[j], chatOf)
             /\ chats[j].shut \subseteq chats'[j].shut
             /\ chats[j].why \subseteq chats'[j].why
             /\ chats'[j].gone \subseteq chats[j].gone \union S
  <2>1. CASE j = k
    BY <1>3, <2>1
  <2>2. CASE j # k
    BY <1>1, <1>3, <2>2
  <2>3. QED
    BY <2>1, <2>2
<1>5. QED
  BY <1>3, <1>4 DEF Grown

(* What is held or closed is a connection made.                             *)
LEMMA LinkMade ==
  ASSUME IInv
  PROVE  /\ \A c \in Clients : link[c] # 0 => link[c] \in DOMAIN chats
         /\ \A c, k : <<c, k>> \in drains => c \in Clients /\ k \in DOMAIN chats
         /\ DOMAIN chats = 1..Len(chats) /\ Len(chats) \in Nat
         /\ \A k \in DOMAIN chats : k # 0
<1>1. chats \in Seq(Chat)
  BY DEF IInv, Chats
<1>2. DOMAIN chats = 1..Len(chats) /\ Len(chats) \in Nat
  BY <1>1
<1>3. \A c \in Clients : link[c] \in 0..Len(chats)
  BY DEF IInv, LinkTypes
<1>4. \A c, k : <<c, k>> \in drains => c \in Clients /\ k \in 1..Len(chats)
  BY DEF IInv, LinkTypes
<1>5. QED
  BY <1>2, <1>3, <1>4

(* An inbox whose chat has the reasons it had, and more.                    *)
LEMMA InboxesLater ==
  ASSUME IInv, NEW S, Grown(S), NEW d \in Clients
  PROVE  GoodInbox(inbox[d], link[d], chatOf, chats')
<1>1. GoodInbox(inbox[d], link[d], chatOf, chats)
  BY DEF IInv, Inboxes
<1>2. CASE link[d] = 0
  BY <1>1, <1>2 DEF GoodInbox
<1>3. CASE link[d] # 0
  <2>1. link[d] \in DOMAIN chats
    BY <1>3, LinkMade
  <2>2. chats[link[d]].why \subseteq chats'[link[d]].why
    BY <2>1 DEF Grown
  <2>3. QED
    BY <1>1, <2>2 DEF GoodInbox
<1>4. QED
  BY <1>2, <1>3

\* the places of a peer thread that holds no connection
Before == {"infos", "try", "retry", "fail"} \union TlsModes

LEMMA BeforeFacts ==
  Before \subseteq PeerPc /\ "stop" \in PeerPc
  /\ \A l \in Before : l \notin {"none", "linked", "listen", "stop"}
BY DEF Before, PeerPc, TlsModes

(* A step that opens and closes no module and gives no connection up: the   *)
(* thread of c moves before it has a connection, or begins to close it.     *)
LEMMA QuietStep ==
  ASSUME IInv, NEW c \in Clients, NEW q \in Seq(Packet), NEW l \in PeerPc,
         Grown({}), UNCHANGED <<state, direct, link, drains, typing, chatOf, starts>>,
         closes' \in 0..MaxCloses, shown' \subseteq 1..Len(chatOf), ServerTypes',
         inbox' = [inbox EXCEPT ![c] = q], GoodInbox(q, link[c], chatOf, chats'),
         pc' = [pc EXCEPT ![c] = l],
         \/ l = pc[c]
         \/ l \in Before /\ pc[c] \in Before
         \/ l = "stop" /\ pc[c] = "listen" /\ c \in chats'[link[c]].shut
  PROVE  IInv'
<1>1. ModuleTypes'
  BY DEF IInv, ModuleTypes
<1>2. LinkTypes' /\ CommandTypes'
  BY DEF IInv, LinkTypes, CommandTypes, Grown
<1>3. Places'
  <2> SUFFICES ASSUME NEW d \in Clients
               PROVE  /\ state[d] = "CLOSED" <=> pc'[d] = "none"
                      /\ state[d] = "OPEN" <=> pc'[d] \in {"listen", "stop"}
                      /\ link[d] # 0 <=> pc'[d] \in {"linked", "listen", "stop"}
                      /\ link[d] # 0 => d \notin chats'[link[d]].gone
                      /\ pc'[d] = "stop" => d \in chats'[link[d]].shut
    BY DEF Places
  <2>1. /\ state[d] = "CLOSED" <=> pc[d] = "none"
        /\ state[d] = "OPEN" <=> pc[d] \in {"listen", "stop"}
        /\ link[d] # 0 <=> pc[d] \in {"linked", "listen", "stop"}
        /\ link[d] # 0 => d \notin chats[link[d]].gone
        /\ pc[d] = "stop" => d \in chats[link[d]].shut
    BY DEF IInv, Places
  <2>2. link[d] # 0 => /\ chats[link[d]].shut \subseteq chats'[link[d]].shut
                       /\ chats'[link[d]].gone \subseteq chats[link[d]].gone
    BY LinkMade DEF Grown
  <2>3. pc \in [Clients -> PeerPc]
    BY DEF IInv, ModuleTypes
  <2>4. CASE pc'[d] = pc[d]
    BY <2>1, <2>2, <2>4
  <2>5. CASE pc'[d] # pc[d]
    <3>1. d = c /\ pc'[d] = l
      BY <2>3, <2>5
    <3>2. CASE l \in Before /\ pc[c] \in Before
      BY <2>1, <2>2, <3>1, <3>2, BeforeFacts
    <3>3. CASE l = "stop" /\ pc[c] = "listen" /\ c \in chats'[link[c]].shut
      BY <2>1, <2>2, <3>1, <3>3
    <3>4. QED
      BY <2>5, <3>1, <3>2, <3>3
  <2>6. QED
    BY <2>4, <2>5
<1>4. Chats'
  BY DEF Chats, Grown
<1>5. Inboxes'
  <2>1. \A d \in Clients : GoodInbox(inbox[d], link[d], chatOf, chats')
    BY InboxesLater
  <2>2. QED
    BY <2>1 DEF IInv, ModuleTypes, Inboxes
<1>6. Drained'
  BY DEF IInv, Drained, Grown
<1>7. Typed' /\ Room'
  BY RoomKept DEF IInv, Typed
<1>8. QED
  BY <1>1, <1>2, <1>3, <1>4, <1>5, <1>6, <1>7 DEF IInv

(* The end of a peer thread.                                                *)
LEMMA ClosesStep ==
  ASSUME IInv, NEW c \in Clients, Closes(c), Grown({c}), ThreadOnly,
         \/ drains' = drains
         \/ drains' = drains \union {<<c, link[c]>>} /\ link[c] # 0 /\ chats'[link[c]].why # {}
  PROVE  IInv'
<1> USE DEF Closes, Goto
<1>1. UNCHANGED <<typing, chatOf, starts, closes, shown, fromServer, asked, shake, infos>>
  BY DEF ThreadOnly, userVars, serverVars
<1>2. ModuleTypes'
  <2>1. "none" \in PeerPc /\ <<>> \in Seq(Packet)
    BY DEF PeerPc
  <2>2. QED
    BY <2>1 DEF IInv, ModuleTypes
<1>3. LinkTypes'
  <2>1. Len(chats') = Len(chats) /\ Len(chats) \in Nat
    BY LinkMade DEF Grown
  <2>2. link' \in [Clients -> 0..Len(chats)]
    BY <2>1 DEF IInv, LinkTypes
  <2>3. drains' \subseteq Clients \X (1..Len(chats))
    <3>1. drains \subseteq Clients \X (1..Len(chats))
      BY DEF IInv, LinkTypes
    <3>2. link[c] # 0 => <<c, link[c]>> \in Clients \X (1..Len(chats))
      BY LinkMade
    <3>3. QED
      BY <3>1, <3>2
  <2>4. QED
    BY <2>1, <2>2, <2>3 DEF LinkTypes
<1>4. CommandTypes' /\ ServerTypes'
  BY <1>1 DEF IInv, CommandTypes, ServerTypes, Grown
<1>5. Places'
  <2> SUFFICES ASSUME NEW d \in Clients
               PROVE  /\ state'[d] = "CLOSED" <=> pc'[d] = "none"
                      /\ state'[d] = "OPEN" <=> pc'[d] \in {"listen", "stop"}
                      /\ link'[d] # 0 <=> pc'[d] \in {"linked", "listen", "stop"}
                      /\ link'[d] # 0 => d \notin chats'[link'[d]].gone
                      /\ pc'[d] = "stop" => d \in chats'[link'[d]].shut
    BY DEF Places
  <2>1. /\ state[d] = "CLOSED" <=> pc[d] = "none"
        /\ state[d] = "OPEN" <=> pc[d] \in {"listen", "stop"}
        /\ link[d] # 0 <=> pc[d] \in {"linked", "listen", "stop"}
        /\ link[d] # 0 => d \notin chats[link[d]].gone
        /\ pc[d] = "stop" => d \in chats[link[d]].shut
    BY DEF IInv, Places
  <2>2. link[d] # 0 => /\ chats[link[d]].shut \subseteq chats'[link[d]].shut
                       /\ chats'[link[d]].gone \subseteq chats[link[d]].gone \union {c}
    BY LinkMade DEF Grown
  <2>3. CASE d = c
    <3>1. state'[d] = "CLOSED" /\ pc'[d] = "none" /\ link'[d] = 0
      BY <2>3 DEF IInv, ModuleTypes, LinkTypes
    <3>2. QED
      BY <3>1
  <2>4. CASE d # c
    <3>1. state'[d] = state[d] /\ pc'[d] = pc[d] /\ link'[d] = link[d]
      BY <2>4 DEF IInv, ModuleTypes, LinkTypes
    <3>2. QED
      BY <2>1, <2>2, <2>4, <3>1
  <2>5. QED
    BY <2>3, <2>4
<1>6. Chats'
  BY <1>1 DEF Chats, Grown
<1>7. Inboxes'
  <2> SUFFICES ASSUME NEW d \in Clients
               PROVE  GoodInbox(inbox'[d], link'[d], chatOf, chats')
    BY <1>1 DEF Inboxes
  <2>1. CASE d = c
    <3>1. inbox'[d] = <<>> /\ link'[d] = 0
      BY <2>1 DEF IInv, ModuleTypes, LinkTypes
    <3>2. QED
      BY <3>1, EmptyKept DEF GoodInbox
  <2>2. CASE d # c
    <3>1. inbox'[d] = inbox[d] /\ link'[d] = link[d]
      BY <2>2 DEF IInv, ModuleTypes, LinkTypes
    <3>2. QED
      BY <3>1, InboxesLater
  <2>3. QED
    BY <2>1, <2>2
<1>8. Drained'
  <2> SUFFICES ASSUME NEW d \in Clients, NEW k \in DOMAIN chats, <<d, k>> \in drains'
               PROVE  link'[d] # k /\ chats'[k].why # {}
    BY DEF Drained, Grown
  <2>1. link'[c] = 0 /\ k # 0 /\ (d # c => link'[d] = link[d])
    BY LinkMade DEF IInv, LinkTypes
  <2>2. CASE <<d, k>> \in drains
    <3>1. link[d] # k /\ chats[k].why # {}
      BY <2>2 DEF IInv, Drained
    <3>2. chats[k].why \subseteq chats'[k].why
      BY DEF Grown
    <3>3. QED
      BY <2>1, <3>1, <3>2
  <2>3. CASE <<d, k>> \notin drains
    <3>1. d = c /\ k = link[c] /\ chats'[link[c]].why # {}
      BY <2>3
    <3>2. QED
      BY <2>1, <3>1
  <2>4. QED
    BY <2>2, <2>3
<1>9. Typed'
  BY <1>1 DEF IInv, Typed, ModuleTypes, LinkTypes
<1>10. Room'
  BY <1>1, RoomKept DEF IInv
<1>11. QED
  BY <1>2, <1>3, <1>4, <1>5, <1>6, <1>7, <1>8, <1>9, <1>10 DEF IInv

LEMMA InboxLeft ==
  ASSUME IInv, NEW c \in Clients, Grown({})
  PROVE  /\ inbox[c] \in Seq(Packet) /\ GoodInbox(inbox[c], link[c], chatOf, chats')
         /\ inbox[c] # <<>> => /\ Front(inbox[c]) \in Seq(Packet)
                               /\ GoodInbox(Front(inbox[c]), link[c], chatOf, chats')
                               /\ Last(inbox[c]) \in Packet
                               /\ Last(inbox[c]) \in Range(inbox[c])
         /\ inbox = [inbox EXCEPT ![c] = inbox[c]] /\ pc = [pc EXCEPT ![c] = pc[c]]
         /\ pc[c] \in PeerPc
<1>1. /\ inbox[c] \in Seq(Packet) /\ inbox = [inbox EXCEPT ![c] = inbox[c]]
      /\ pc = [pc EXCEPT ![c] = pc[c]] /\ pc[c] \in PeerPc
  BY DEF IInv, ModuleTypes
<1>2. GoodInbox(inbox[c], link[c], chatOf, chats')
  BY InboxesLater
<1>3. ASSUME inbox[c] # <<>>
      PROVE  /\ Front(inbox[c]) \in Seq(Packet)
             /\ GoodInbox(Front(inbox[c]), link[c], chatOf, chats')
             /\ Last(inbox[c]) \in Packet /\ Last(inbox[c]) \in Range(inbox[c])
  <2>1. /\ Front(inbox[c]) \in Seq(Packet) /\ Range(Front(inbox[c])) \subseteq Range(inbox[c])
        /\ Last(inbox[c]) \in Packet /\ Last(inbox[c]) \in Range(inbox[c])
    BY <1>1, <1>3, FrontRange
  <2>2. GoodInbox(Front(inbox[c]), link[c], chatOf, chats')
    BY <1>2, <2>1, Shrinks DEF GoodInbox
  <2>3. QED
    BY <2>1, <2>2
<1>4. QED
  BY <1>1, <1>2, <1>3

LEMMA TypesKept ==
  ASSUME IInv
  PROVE  /\ closes \in 0..MaxCloses /\ shown \subseteq 1..Len(chatOf)
         /\ UNCHANGED serverVars => ServerTypes'
BY DEF IInv, CommandTypes, ServerTypes, serverVars

------------------------------------------------------------------------------
(* Steps before a connection                                                *)

(* The thread reads a packet, or none, and goes on.                         *)
LEMMA MovesStep ==
  ASSUME IInv, NEW c \in Clients, NEW l \in Before, pc[c] \in Before, Goto(c, l),
         UNCHANGED <<state, direct, link, drains, userVars, chats, shown>>, ServerTypes',
         UNCHANGED inbox \/ (inbox[c] # <<>> /\ Pop(c))
  PROVE  IInv'
<1>1. Grown({})
  BY GrownSame
<1>2. l \in PeerPc
  BY BeforeFacts
<1>3. UNCHANGED <<state, direct, link, drains, typing, chatOf, starts, closes, shown>>
  BY DEF userVars
<1>4. CASE UNCHANGED inbox
  <2>1. inbox[c] \in Seq(Packet) /\ GoodInbox(inbox[c], link[c], chatOf, chats')
    BY <1>1, InboxLeft
  <2>2. inbox' = [inbox EXCEPT ![c] = inbox[c]]
    BY <1>1, <1>4, InboxLeft
  <2>3. QED
    BY <1>1, <1>2, <1>3, <2>1, <2>2, TypesKept, QuietStep DEF Goto
<1>5. CASE inbox[c] # <<>> /\ Pop(c)
  <2>1. Front(inbox[c]) \in Seq(Packet) /\ GoodInbox(Front(inbox[c]), link[c], chatOf, chats')
    BY <1>1, <1>5, InboxLeft
  <2>2. inbox' = [inbox EXCEPT ![c] = Front(inbox[c])]
    BY <1>5 DEF Pop
  <2>3. QED
    BY <1>1, <1>2, <1>3, <2>1, <2>2, TypesKept, QuietStep DEF Goto
<1>6. QED
  BY <1>4, <1>5

LEMMA PeerInfosStep ==
  ASSUME IInv, NEW c \in Clients, PeerInfos(c)
  PROVE  IInv'
<1>1. pc[c] \in Before /\ "try" \in Before
  BY DEF PeerInfos, Before
<1>2. ServerTypes'
  BY DEF IInv, ServerTypes, PeerInfos
<1>3. QED
  BY <1>1, <1>2, MovesStep DEF PeerInfos, Has

LEMMA PeerTriesStep ==
  ASSUME IInv, NEW c \in Clients, PeerTries(c)
  PROVE  IInv'
<1>1. pc[c] \in Before
  BY DEF PeerTries, Before
<1>2. Last(inbox[c]).mode \in Before
  <2>1. Last(inbox[c]) \in Packet /\ Last(inbox[c]).type = "try"
    BY FrontRange DEF PeerTries, Has, IInv, ModuleTypes
  <2>2. QED
    BY <2>1, PacketFacts DEF Before
<1>3. ServerTypes'
  BY TypesKept DEF PeerTries, ThreadOnly
<1>4. QED
  BY <1>1, <1>2, <1>3, MovesStep DEF PeerTries, Has, ThreadOnly

LEMMA PeerIgnoresStep ==
  ASSUME IInv, NEW c \in Clients, PeerIgnores(c)
  PROVE  IInv'
<1>1. pc[c] \in Before /\ Goto(c, pc[c])
  BY DEF PeerIgnores, Before, Goto, threadVars, IInv, ModuleTypes
<1>2. ServerTypes'
  BY TypesKept DEF PeerIgnores, ThreadOnly
<1>3. QED
  BY <1>1, <1>2, MovesStep DEF PeerIgnores, Has, ThreadOnly, threadVars

LEMMA OpenFailsStep ==
  ASSUME IInv, NEW c \in Clients, OpenFails(c)
  PROVE  IInv'
<1>1. pc[c] \in Before /\ "fail" \in Before
  BY DEF OpenFails, Before
<1>2. ServerTypes'
  BY TypesKept DEF OpenFails, ThreadOnly
<1>3. QED
  BY <1>1, <1>2, MovesStep DEF OpenFails, ThreadOnly, moduleVars

LEMMA AcceptTimesOutStep ==
  ASSUME IInv, NEW c \in Clients, AcceptTimesOut(c)
  PROVE  IInv'
<1>1. pc[c] \in Before /\ "retry" \in Before
  BY DEF AcceptTimesOut, Before, TlsModes
<1>2. ServerTypes'
  BY TypesKept DEF AcceptTimesOut, ThreadOnly
<1>3. QED
  BY <1>1, <1>2, MovesStep DEF AcceptTimesOut, ThreadOnly, moduleVars

LEMMA RetryAgainStep ==
  ASSUME IInv, NEW c \in Clients, RetryAgain(c)
  PROVE  IInv'
<1>1. /\ pc[c] \in Before /\ "accept" \in Before /\ "fail" \in Before
  BY DEF RetryAgain, Before, TlsModes
<1>2. ServerTypes'
  BY TypesKept DEF RetryAgain, ThreadOnly
<1>3. UNCHANGED inbox \/ (inbox[c] # <<>> /\ Pop(c))
  BY DEF RetryAgain, Pop, IInv, ModuleTypes
<1>4. QED
  BY <1>1, <1>2, <1>3, MovesStep DEF RetryAgain, ThreadOnly

LEMMA TryFailedStep ==
  ASSUME IInv, NEW c \in Clients, TryFailed(c)
  PROVE  IInv'
<1>1. pc[c] \in Before /\ "try" \in Before
  BY DEF TryFailed, Before
<1>2. ServerTypes'
  BY TypesKept DEF TryFailed, ThreadOnly
<1>3. QED
  BY <1>1, <1>2, MovesStep DEF TryFailed, ThreadOnly, moduleVars

(* The thread ends without a connection.                                    *)
LEMMA AbandonsStep ==
  ASSUME IInv, NEW c \in Clients,
         \/ PeerRefused(c) \/ PeerGivesUp(c) \/ RetryClose(c) \/ RetryLost(c)
         \/ DirectFailed(c)
  PROVE  IInv'
<1>1. Closes(c) /\ UNCHANGED <<drains, chats>> /\ ThreadOnly
  BY DEF PeerRefused, PeerGivesUp, RetryClose, RetryLost, DirectFailed
<1>2. Grown({c})
  BY <1>1, GrownSame DEF Grown
<1>3. QED
  BY <1>1, <1>2, ClosesStep

------------------------------------------------------------------------------
(* What a user or the server sends to a peer thread                         *)

(* A packet reaches the thread of c, and is a reason if it ends the chat    *)
(* the thread holds.                                                        *)
LEMMA ReachesStep ==
  ASSUME IInv, NEW c \in Clients, NEW m \in P2P, ServerTypes', closes' \in 0..MaxCloses,
         \/ inbox' = [inbox EXCEPT ![c] = Append(@, m)] \/ UNCHANGED inbox,
         \/ link[c] = 0 /\ UNCHANGED chats
         \/ m.type \notin {"close", "reject"} /\ UNCHANGED chats
         \/ /\ m.type \in {"close", "reject"} /\ link[c] # 0
            /\ chats' = [chats EXCEPT ![link[c]].why = @ \union {m.type}],
         UNCHANGED <<state, threadVars, typing, chatOf, starts, shown>>
  PROVE  IInv'
<1>1. Grown({}) /\ (link[c] # 0 /\ m.type \in {"close", "reject"} => chats'[link[c]].why # {})
  <2>1. CASE UNCHANGED chats /\ (link[c] = 0 \/ m.type \notin {"close", "reject"})
    BY <2>1, GrownSame
  <2>2. CASE /\ m.type \in {"close", "reject"} /\ link[c] # 0
             /\ chats' = [chats EXCEPT ![link[c]].why = @ \union {m.type}]
    <3>1. PICK k \in DOMAIN chats, r \in {"close", "reject"} : k = link[c] /\ r = m.type
      BY <2>2, LinkMade
    <3>2. PICK ch : ch = chats[k] /\ GoodChat(k, ch, chatOf)
      BY DEF IInv, Chats
    <3> DEFINE new == [ch EXCEPT !.why = @ \union {r}]
    <3>3. /\ GoodChat(k, new, chatOf)
          /\ new.shut = ch.shut /\ new.gone = ch.gone /\ new.why = ch.why \union {r}
      BY <3>2, Reasoned
    <3>4. chats' = [chats EXCEPT ![k] = new]
      BY <2>2, <3>1, <3>2
    <3> HIDE DEF new
    <3>5. Grown({}) /\ chats'[k] = new
      BY <3>2, <3>3, <3>4, GrownOne
    <3>6. QED
      BY <3>1, <3>3, <3>5
  <2>3. QED
    BY <2>1, <2>2
<1>2. /\ UNCHANGED <<state, direct, link, drains, typing, chatOf, starts>>
      /\ pc' = [pc EXCEPT ![c] = pc[c]] /\ pc[c] \in PeerPc /\ shown' \subseteq 1..Len(chatOf)
  BY <1>1, InboxLeft, TypesKept DEF threadVars
<1>3. CASE UNCHANGED inbox
  <2>1. /\ inbox[c] \in Seq(Packet) /\ GoodInbox(inbox[c], link[c], chatOf, chats')
        /\ inbox' = [inbox EXCEPT ![c] = inbox[c]]
    BY <1>1, <1>3, InboxLeft
  <2>2. QED
    BY <1>1, <1>2, <2>1, QuietStep
<1>4. CASE inbox' = [inbox EXCEPT ![c] = Append(@, m)]
  <2> DEFINE q == Append(inbox[c], m)
  <2>1. inbox[c] \in Seq(Packet) /\ GoodInbox(inbox[c], link[c], chatOf, chats')
    BY <1>1, InboxLeft
  <2>2. m \in Packet /\ m.type # "text"
    BY PacketFacts
  <2>3. q \in Seq(Packet) /\ GoodInbox(q, link[c], chatOf, chats')
    BY <1>1, <2>1, <2>2, Posts
  <2>4. inbox' = [inbox EXCEPT ![c] = q]
    BY <1>4
  <2> HIDE DEF q
  <2>5. QED
    BY <1>1, <1>2, <2>3, <2>4, QuietStep
<1>5. QED
  BY <1>3, <1>4

LEMMA UserCloseStep ==
  ASSUME IInv, NEW c \in Clients, UserClose(c)
  PROVE  IInv'
<1> DEFINE m == [type |-> "close"]
<1>1. m \in P2P /\ m.type = "close"
  BY DEF P2P
<1>2. closes' \in 0..MaxCloses
  BY TypesKept, PeerAssumption DEF UserClose
<1>3. ServerTypes'
  BY TypesKept DEF UserClose
<1>4. /\ inbox' = [inbox EXCEPT ![c] = Append(@, m)]
      /\ UNCHANGED <<state, threadVars, typing, chatOf, starts, shown>>
  BY DEF UserClose
<1>5. \/ link[c] = 0 /\ UNCHANGED chats
      \/ link[c] # 0 /\ chats' = [chats EXCEPT ![link[c]].why = @ \union {m.type}]
  BY DEF UserClose
<1> HIDE DEF m
<1>6. QED
  BY <1>1, <1>2, <1>3, <1>4, <1>5, ReachesStep

LEMMA DeliverStep ==
  ASSUME IInv, NEW c \in Clients, Deliver(c)
  PROVE  IInv'
<1> DEFINE m == Head(fromServer[c])
<1>1. fromServer \in [Clients -> Seq(Told)] /\ fromServer[c] # <<>>
  BY DEF IInv, ServerTypes, Deliver
<1>2. m \in Told /\ Tail(fromServer[c]) \in Seq(Told)
  BY <1>1, TailRange
<1>3. ServerTypes'
  BY <1>1, <1>2 DEF IInv, ServerTypes, Deliver
<1>4. closes' \in 0..MaxCloses
  BY TypesKept DEF Deliver, userVars
<1>5. inbox' = [inbox EXCEPT ![c] = Append(@, m)] \/ UNCHANGED inbox
  BY DEF Deliver, Posted, IInv, ModuleTypes
<1>6. /\ UNCHANGED <<state, threadVars, typing, chatOf, starts, shown>>
      /\ \/ (m.type # "reject" \/ link[c] = 0) /\ UNCHANGED chats
         \/ /\ m.type = "reject" /\ link[c] # 0
            /\ chats' = [chats EXCEPT ![link[c]].why = @ \union {"reject"}]
  BY DEF Deliver, userVars
<1> HIDE DEF m
<1>7. m \in P2P /\ m.type # "close"
  BY <1>2 DEF Told
<1>8. QED
  BY <1>3, <1>4, <1>5, <1>6, <1>7, ReachesStep

LEMMA ServerRejectsStep ==
  ASSUME IInv, NEW c \in Clients, NEW d \in Clients, ServerRejects(c, d)
  PROVE  IInv'
<1> USE DEF ServerRejects
<1>1. ServerTypes'
  <2>1. [type |-> "reject"] \in Told
    BY DEF P2P, Told
  <2>2. fromServer' \in [Clients -> Seq(Told)]
    BY <2>1 DEF IInv, ServerTypes
  <2>3. QED
    BY <2>2 DEF IInv, ServerTypes
<1>2. ModuleTypes' /\ LinkTypes' /\ CommandTypes'
  BY DEF IInv, ModuleTypes, LinkTypes, CommandTypes, moduleVars, threadVars, userVars
<1>3. Places' /\ Chats' /\ Inboxes' /\ Drained' /\ Typed' /\ Room'
  BY ChatsKept, RoomKept
     DEF IInv, Places, Inboxes, Drained, Typed, moduleVars, threadVars, userVars
<1>4. QED
  BY <1>1, <1>2, <1>3 DEF IInv

LEMMA ServerTriesStep ==
  ASSUME IInv, ServerTries
  PROVE  IInv'
<1> USE DEF ServerTries
<1>1. ServerTypes'
  <2> DEFINE try(m) == [type |-> "try", mode |-> m]
  <2>1. try("accept") \in Told /\ try("connect") \in Told
    BY DEF P2P, Told, TlsModes
  <2>2. fromServer' \in [Clients -> Seq(Told)]
    BY <2>1 DEF IInv, ServerTypes
  <2>3. QED
    BY <2>2 DEF IInv, ServerTypes
<1>2. ModuleTypes' /\ LinkTypes' /\ CommandTypes'
  BY DEF IInv, ModuleTypes, LinkTypes, CommandTypes, moduleVars, threadVars, userVars
<1>3. Places' /\ Chats' /\ Inboxes' /\ Drained' /\ Typed' /\ Room'
  BY ChatsKept, RoomKept
     DEF IInv, Places, Inboxes, Drained, Typed, moduleVars, threadVars, userVars
<1>4. QED
  BY <1>1, <1>2, <1>3 DEF IInv

------------------------------------------------------------------------------
(* A connection is made                                                     *)

(* Before it has a connection a thread has no message in its buffer: every  *)
(* message was typed for a connection.                                      *)
LEMMA NoTexts ==
  ASSUME IInv, NEW d \in Clients, link[d] = 0, NEW l
  PROVE  Kept(inbox[d], l, chatOf)
<1>1. chatOf \in Seq(1..Len(chats)) /\ Len(chats) \in Nat
  BY LinkMade DEF IInv, CommandTypes
<1>2. \A n \in DOMAIN chatOf : chatOf[n] # 0
  BY <1>1
<1>3. \A m \in Texts(inbox[d]) : m.n \in DOMAIN chatOf /\ chatOf[m.n] = 0
  BY DEF IInv, Inboxes, GoodInbox, Kept
<1>4. QED
  BY <1>2, <1>3 DEF Kept

(* Both clients were connecting; a thread takes the new connection, or has  *)
(* failed.                                                                  *)
LEMMA MeetsStep ==
  ASSUME IInv, NEW new, chats' = Append(chats, new), GoodChat(Len(chats) + 1, new, chatOf),
         link' \in [Clients -> 0..(Len(chats) + 1)], pc' \in [Clients -> PeerPc],
         \A d \in Clients :
           /\ pc[d] \in TlsModes
           /\ \/ /\ pc'[d] = "linked" /\ link'[d] = Len(chats) + 1
                 /\ d \notin new.gone /\ (Ends(inbox[d]) => new.why # {})
              \/ pc'[d] = "fail" /\ link'[d] = 0,
         UNCHANGED <<moduleVars, direct, drains>>, ThreadOnly
  PROVE  IInv'
<1> DEFINE n == Len(chats) + 1
<1>1. /\ chats' \in Seq(Chat) /\ Len(chats') = n /\ Len(chats) \in Nat /\ n \in Nat \ {0}
      /\ n \notin DOMAIN chats /\ DOMAIN chats' = DOMAIN chats \union {n} /\ chats'[n] = new
      /\ \A k \in DOMAIN chats : chats'[k] = chats[k]
  <2>1. chats \in Seq(Chat) /\ new \in Chat
    BY GoodFields DEF IInv, Chats
  <2>2. QED
    BY <2>1
<1>2. /\ UNCHANGED <<state, inbox, direct, drains, typing, chatOf, starts, closes, shown>>
      /\ UNCHANGED <<fromServer, asked, shake, infos>>
  BY DEF ThreadOnly, moduleVars, userVars, serverVars
<1>3. \A i : i \in 0..Len(chats) => i \in 0..n
  BY <1>1
<1>4. \A i : i \in 1..Len(chats) => i \in 1..n
  BY <1>1
<1>5. \A d \in Clients : link[d] = 0 /\ state[d] = "IN_PROGRESS" /\ typing[d] = 0
  <2> TAKE d \in Clients
  <2>1. pc[d] \in {"accept", "connect"}
    BY DEF TlsModes
  <2>2. link[d] = 0 /\ state[d] # "CLOSED" /\ state[d] # "OPEN"
    BY <2>1 DEF IInv, Places
  <2>3. state[d] \in {"CLOSED", "IN_PROGRESS", "OPEN"}
    BY DEF IInv, ModuleTypes
  <2>4. typing[d] = 0
    BY <2>2 DEF IInv, Typed
  <2>5. QED
    BY <2>2, <2>3, <2>4
<1> HIDE DEF n
<1>6. ModuleTypes' /\ ServerTypes'
  BY <1>2 DEF IInv, ModuleTypes, ServerTypes
<1>7. LinkTypes'
  <2>1. drains \subseteq Clients \X (1..Len(chats))
    BY DEF IInv, LinkTypes
  <2>2. drains \subseteq Clients \X (1..n)
    BY <2>1, <1>4
  <2>3. QED
    BY <1>1, <1>2, <2>2 DEF LinkTypes, n
<1>8. CommandTypes'
  <2>1. typing \in [Clients -> 0..Len(chats)] /\ chatOf \in Seq(1..Len(chats))
    BY DEF IInv, CommandTypes
  <2>2. typing \in [Clients -> 0..n]
    BY <2>1, <1>3
  <2>3. chatOf \in Seq(1..n)
    BY <2>1, <1>4, Widens
  <2>4. QED
    BY <1>1, <1>2, <2>2, <2>3 DEF IInv, CommandTypes
<1>9. Places'
  BY <1>1, <1>2, <1>5 DEF Places, n
<1>10. Chats'
  <2>1. \A k \in DOMAIN chats : GoodChat(k, chats[k], chatOf)
    BY DEF IInv, Chats
  <2>2. GoodChat(n, new, chatOf)
    BY DEF n
  <2>3. QED
    BY <1>1, <1>2, <2>1, <2>2 DEF Chats
<1>11. Inboxes'
  <2> SUFFICES ASSUME NEW d \in Clients PROVE GoodInbox(inbox[d], link'[d], chatOf, chats')
    BY <1>2 DEF Inboxes
  <2>1. Kept(inbox[d], link'[d], chatOf)
    BY <1>5, NoTexts
  <2>2. link'[d] # 0 /\ Ends(inbox[d]) => chats'[link'[d]].why # {}
    BY <1>1 DEF n
  <2>3. QED
    BY <2>1, <2>2 DEF GoodInbox
<1>12. Drained'
  <2> SUFFICES ASSUME NEW d \in Clients, NEW k \in DOMAIN chats', <<d, k>> \in drains
               PROVE  link'[d] # k /\ chats'[k].why # {}
    BY <1>2 DEF Drained
  <2>1. k \in DOMAIN chats /\ k # 0 /\ k # n
    BY <1>1, LinkMade
  <2>2. chats[k].why # {}
    BY <2>1 DEF IInv, Drained
  <2>3. link'[d] = n \/ link'[d] = 0
    BY DEF n
  <2>4. QED
    BY <1>1, <2>1, <2>2, <2>3
<1>13. Typed' /\ Room'
  BY <1>2, <1>5, RoomKept DEF IInv, Typed
<1>14. QED
  BY <1>6, <1>7, <1>8, <1>9, <1>10, <1>11, <1>12, <1>13 DEF IInv

LEMMA MeetStep ==
  ASSUME IInv, NEW c \in Clients, Meet(c)
  PROVE  IInv'
<1> DEFINE new == NewChat(FALSE, Reasons)
<1>1. Reasons \in SUBSET {"close", "reject", "broken"}
  BY DEF Reasons
<1>2. GoodChat(Len(chats) + 1, new, chatOf) /\ new.gone = {} /\ new.why = Reasons
  BY <1>1, NewGood DEF NewChat
<1>3. \A d \in Clients : Ends(inbox[d]) => Reasons # {}
  BY DEF Ends, Reasons
<1>4. /\ chats' = Append(chats, new) /\ ThreadOnly /\ UNCHANGED <<moduleVars, direct, drains>>
      /\ link' = [d \in Clients |-> Len(chats) + 1] /\ pc' = [d \in Clients |-> "linked"]
      /\ pc[c] = "accept" /\ pc[Other(c)] = "connect"
  BY DEF Meet
<1>5. link' \in [Clients -> 0..(Len(chats) + 1)] /\ pc' \in [Clients -> PeerPc]
  BY <1>4, LinkMade DEF PeerPc
<1>6. \A d \in Clients : pc[d] \in TlsModes
  BY <1>4, TwoClients DEF TlsModes
<1> HIDE DEF new
<1>7. \A d \in Clients :
        /\ pc'[d] = "linked" /\ link'[d] = Len(chats) + 1
        /\ d \notin new.gone /\ (Ends(inbox[d]) => new.why # {})
  BY <1>2, <1>3, <1>4
<1>8. QED
  BY <1>2, <1>4, <1>5, <1>6, <1>7, MeetsStep

LEMMA HalfMeetStep ==
  ASSUME IInv, NEW c \in Clients, HalfMeet(c)
  PROVE  IInv'
<1> DEFINE new == [NewChat(TRUE, {"broken"}) EXCEPT !.shut = {c}, !.gone = {c}]
<1>1. GoodChat(Len(chats) + 1, new, chatOf) /\ new.gone = {c} /\ new.why # {}
  BY NewHalf
<1>2. /\ chats' = Append(chats, new) /\ ThreadOnly /\ UNCHANGED <<moduleVars, direct, drains>>
      /\ link' = [link EXCEPT ![Other(c)] = Len(chats) + 1]
      /\ pc' = [pc EXCEPT ![c] = "fail", ![Other(c)] = "linked"]
      /\ pc[c] = "accept" /\ pc[Other(c)] = "connect"
  BY DEF HalfMeet
<1>3. /\ link \in [Clients -> 0..Len(chats)] /\ pc \in [Clients -> PeerPc]
      /\ link[c] = 0 /\ Len(chats) \in Nat
  BY <1>2, LinkMade DEF IInv, LinkTypes, ModuleTypes, Places
<1>4. link' \in [Clients -> 0..(Len(chats) + 1)] /\ pc' \in [Clients -> PeerPc]
  <2>1. pc' \in [Clients -> PeerPc]
    BY <1>2, <1>3 DEF PeerPc
  <2>2. PICK n : n = Len(chats) /\ n \in Nat
    BY <1>3
  <2>3. \A i \in 0..n : i \in 0..(n + 1) /\ n + 1 \in 0..(n + 1)
    BY <2>2
  <2>4. link' \in [Clients -> 0..(n + 1)]
    BY <1>2, <1>3, <2>2, <2>3
  <2>5. QED
    BY <2>1, <2>2, <2>4
<1>5. \A d \in Clients : pc[d] \in TlsModes /\ (d = c \/ d = Other(c)) /\ Other(c) # c
  BY <1>2, TwoClients DEF TlsModes
<1> HIDE DEF new
<1>6. /\ pc'[c] = "fail" /\ link'[c] = 0
      /\ pc'[Other(c)] = "linked" /\ link'[Other(c)] = Len(chats) + 1
  BY <1>2, <1>3, TwoClients
<1>7. \A d \in Clients :
        \/ /\ pc'[d] = "linked" /\ link'[d] = Len(chats) + 1
           /\ d \notin new.gone /\ (Ends(inbox[d]) => new.why # {})
        \/ pc'[d] = "fail" /\ link'[d] = 0
  BY <1>1, <1>5, <1>6
<1>8. QED
  BY <1>1, <1>2, <1>4, <1>5, <1>7, MeetsStep

LEMMA OpensStep ==
  ASSUME IInv, NEW c \in Clients, Opens(c)
  PROVE  IInv'
<1> USE DEF Opens, Goto
<1>1. UNCHANGED <<typing, chatOf, starts, closes, shown, fromServer, asked, shake, infos>>
  BY DEF ThreadOnly, userVars, serverVars
<1>2. ModuleTypes'
  BY DEF IInv, ModuleTypes, PeerPc
<1>3. LinkTypes' /\ CommandTypes' /\ ServerTypes'
  BY <1>1 DEF IInv, LinkTypes, CommandTypes, ServerTypes
<1>4. Places'
  BY DEF IInv, Places, ModuleTypes
<1>5. Chats' /\ Inboxes' /\ Drained'
  BY <1>1, ChatsKept DEF IInv, Inboxes, Drained
<1>6. typing[c] = 0
  BY DEF IInv, Typed, Places
<1>7. Typed' /\ Room'
  BY <1>1, <1>6, RoomKept DEF IInv, Typed, ModuleTypes
<1>8. QED
  BY <1>2, <1>3, <1>4, <1>5, <1>7 DEF IInv

------------------------------------------------------------------------------
(* Steps of a chat                                                          *)

(* The thread of c, or its drain, changes connection k and keeps it.        *)
LEMMA ChatStep ==
  ASSUME IInv, NEW c \in Clients, NEW k \in DOMAIN chats, NEW new,
         chats' = [chats EXCEPT ![k] = new], GoodChat(k, new, chatOf),
         chats[k].shut \subseteq new.shut, chats[k].why \subseteq new.why,
         new.gone = chats[k].gone,
         UNCHANGED <<state, direct, link, drains, userVars, serverVars>>,
         shown' \subseteq 1..Len(chatOf),
         UNCHANGED inbox \/ (inbox[c] # <<>> /\ Pop(c)),
         \/ UNCHANGED pc
         \/ pc[c] = "listen" /\ Goto(c, "stop") /\ link[c] = k /\ c \in new.shut
  PROVE  IInv'
<1>1. Grown({}) /\ chats'[k] = new
  BY GrownOne
<1>2. PICK q \in Seq(Packet) :
        GoodInbox(q, link[c], chatOf, chats') /\ inbox' = [inbox EXCEPT ![c] = q]
  BY <1>1, InboxLeft DEF Pop
<1>3. PICK l \in PeerPc :
        /\ pc' = [pc EXCEPT ![c] = l]
        /\ l = pc[c] \/ (l = "stop" /\ pc[c] = "listen" /\ c \in chats'[link[c]].shut)
  BY <1>1, InboxLeft, BeforeFacts DEF Goto
<1>4. UNCHANGED <<state, direct, link, drains, typing, chatOf, starts, closes>>
  BY DEF userVars
<1>5. closes' \in 0..MaxCloses /\ ServerTypes'
  BY <1>4, TypesKept
<1>6. QED
  BY <1>1, <1>2, <1>3, <1>4, <1>5, QuietStep

LEMMA Held ==
  ASSUME IInv, NEW c \in Clients, pc[c] \in {"listen", "stop"}
  PROVE  /\ link[c] \in DOMAIN chats /\ GoodChat(link[c], chats[link[c]], chatOf)
         /\ inbox[c] \in Seq(Packet) /\ Kept(inbox[c], link[c], chatOf)
         /\ Ends(inbox[c]) => chats[link[c]].why # {}
         /\ pc[c] = "stop" => c \in chats[link[c]].shut
<1>1. link[c] # 0 /\ (pc[c] = "stop" => c \in chats[link[c]].shut)
  BY DEF IInv, Places
<1>2. link[c] \in DOMAIN chats
  BY <1>1, LinkMade
<1>3. GoodChat(link[c], chats[link[c]], chatOf)
  BY <1>2 DEF IInv, Chats
<1>4. GoodInbox(inbox[c], link[c], chatOf, chats) /\ inbox[c] \in Seq(Packet)
  BY DEF IInv, Inboxes, ModuleTypes
<1>5. QED
  BY <1>1, <1>2, <1>3, <1>4 DEF GoodInbox

LEMMA ListenCloseStep ==
  ASSUME IInv, NEW c \in Clients, ListenClose(c)
  PROVE  IInv'
<1> USE DEF ListenClose
<1>1. PICK k, ch : k \in DOMAIN chats /\ k = link[c] /\ ch = chats[k] /\ GoodChat(k, ch, chatOf)
  BY Held DEF Listening
<1>2. inbox[c] # <<>> /\ Last(inbox[c]) \in Range(inbox[c]) /\ Last(inbox[c]).type = "close"
  BY FrontRange DEF Has, IInv, ModuleTypes
<1>3. ch.why # {}
  BY <1>1, <1>2, Held DEF Listening, Ends
<1> DEFINE new == Shut(ch, c)
<1>4. /\ GoodChat(k, new, chatOf)
      /\ new.shut = ch.shut \union {c} /\ new.gone = ch.gone /\ new.why = ch.why
  BY <1>1, <1>3, Shuts
<1>5. chats' = [chats EXCEPT ![k] = new]
  BY <1>1
<1>6. shown' \subseteq 1..Len(chatOf)
  BY TypesKept DEF ThreadOnly
<1>7. /\ UNCHANGED <<state, direct, link, drains, userVars, serverVars>>
      /\ pc[c] = "listen" /\ Goto(c, "stop") /\ Pop(c)
  BY DEF ThreadOnly, Listening
<1> HIDE DEF new
<1> HIDE DEF ListenClose
<1>8. QED
  BY <1>1, <1>2, <1>4, <1>5, <1>6, <1>7, ChatStep

LEMMA ListenForwardStep ==
  ASSUME IInv, NEW c \in Clients, ListenForward(c)
  PROVE  IInv'
<1> USE DEF ListenForward
<1>1. PICK k, ch : k \in DOMAIN chats /\ k = link[c] /\ ch = chats[k] /\ GoodChat(k, ch, chatOf)
  BY Held DEF Listening
<1>2. PICK m \in Packet : m = Last(inbox[c]) /\ m \in Range(inbox[c])
  BY FrontRange DEF IInv, ModuleTypes
<1>3. /\ m.type = "text" => m.n \in DOMAIN chatOf /\ chatOf[m.n] = k
      /\ m.type \in {"close", "reject"} => ch.why # {}
  BY <1>1, <1>2, Held DEF Listening, Ends, Kept, Texts
<1> DEFINE new == Sent(ch, c, m)
<1>4. /\ GoodChat(k, new, chatOf)
      /\ new.shut = ch.shut /\ new.gone = ch.gone /\ new.why = ch.why
  BY <1>1, <1>3, Forwards
<1>5. chats' = [chats EXCEPT ![k] = new]
  BY <1>1, <1>2
<1>6. shown' \subseteq 1..Len(chatOf)
  BY TypesKept DEF ThreadOnly
<1>7. /\ UNCHANGED <<state, direct, link, drains, userVars, serverVars, pc>>
      /\ inbox[c] # <<>> /\ Pop(c)
  BY DEF ThreadOnly, threadVars
<1> HIDE DEF new
<1> HIDE DEF ListenForward
<1>8. QED
  BY <1>1, <1>4, <1>5, <1>6, <1>7, ChatStep

(* SSL_read takes a packet that was waiting.                                *)
LEMMA ReadChat ==
  ASSUME IInv, NEW c \in Clients, NEW k \in DOMAIN chats, Readable(c, k)
  PROVE  \E new :
           /\ Read(c, k) = [chats EXCEPT ![k] = new] /\ GoodChat(k, new, chatOf)
           /\ new.shut = chats[k].shut /\ new.gone = chats[k].gone /\ new.why = chats[k].why
           /\ Incoming(c, k) \in Packet \union {Fin}
           /\ Incoming(c, k).type \in {"close", "reject"} => chats[k].why # {}
           /\ Incoming(c, k) = Fin => chats[k].why # {}
           /\ Incoming(c, k).type = "text" =>
                Incoming(c, k).n \in DOMAIN chatOf /\ chatOf[Incoming(c, k).n] = k
<1>1. PICK ch : ch = chats[k] /\ GoodChat(k, ch, chatOf)
  BY DEF IInv, Chats
<1>2. PICK d \in Clients : d = Other(c)
  BY TwoClients
<1>3. ch.wire[d] # <<>> /\ Incoming(c, k) = Head(ch.wire[d])
  BY <1>1, <1>2 DEF Readable, Incoming
<1> DEFINE new == [ch EXCEPT !.wire[d] = Tail(@)]
<1>4. /\ GoodChat(k, new, chatOf)
      /\ new.shut = ch.shut /\ new.gone = ch.gone /\ new.why = ch.why
  BY <1>1, <1>3, Reads
<1>5. Read(c, k) = [chats EXCEPT ![k] = new]
  <2>1. Read(c, k) = [chats EXCEPT ![k].wire[d] = Tail(@)]
    BY <1>2 DEF Read
  <2>2. [chats EXCEPT ![k].wire[d] = Tail(@)]
          = [chats EXCEPT ![k] = [chats[k] EXCEPT !.wire[d] = Tail(@)]]
    OBVIOUS
  <2>3. QED
    BY <1>1, <2>1, <2>2
<1> HIDE DEF new
<1>6. /\ ch.wire[d] \in Seq(Packet \union {Fin}) /\ Kept(ch.wire[d], k, chatOf)
      /\ (Fin \in Range(ch.wire[d]) => d \in ch.shut) /\ (Ends(ch.wire[d]) => ch.why # {})
      /\ (ch.shut # {} => ch.why # {})
  BY <1>1, GoodFields
<1>7. PICK m \in Packet \union {Fin} : m = Head(ch.wire[d]) /\ m \in Range(ch.wire[d])
  BY <1>3, <1>6, TailRange
<1>8. /\ m.type \in {"close", "reject"} => ch.why # {}
      /\ m = Fin => ch.why # {}
      /\ m.type = "text" => m.n \in DOMAIN chatOf /\ chatOf[m.n] = k
  BY <1>6, <1>7 DEF Ends, Kept, Texts
<1>9. QED
  BY <1>1, <1>3, <1>4, <1>5, <1>7, <1>8

LEMMA ReadTextStep ==
  ASSUME IInv, NEW c \in Clients, ReadText(c)
  PROVE  IInv'
<1> USE DEF ReadText, Hears
<1>1. PICK k \in DOMAIN chats : k = link[c]
  BY Held DEF Listening
<1>2. PICK new :
        /\ Read(c, k) = [chats EXCEPT ![k] = new] /\ GoodChat(k, new, chatOf)
        /\ new.shut = chats[k].shut /\ new.gone = chats[k].gone /\ new.why = chats[k].why
        /\ Incoming(c, k).type = "text" =>
             Incoming(c, k).n \in DOMAIN chatOf /\ chatOf[Incoming(c, k).n] = k
  BY <1>1, ReadChat
<1>3. chats' = [chats EXCEPT ![k] = new]
  BY <1>1, <1>2
<1>4. shown' \subseteq 1..Len(chatOf)
  <2>1. Incoming(c, k).n \in DOMAIN chatOf /\ shown' = shown \union {Incoming(c, k).n}
    BY <1>1, <1>2
  <2>2. chatOf \in Seq(1..Len(chats))
    BY DEF IInv, CommandTypes
  <2>3. DOMAIN chatOf = 1..Len(chatOf)
    BY <2>2
  <2>4. QED
    BY <2>1, <2>3, TypesKept
<1>5. /\ UNCHANGED <<state, direct, link, drains, userVars, serverVars, pc, inbox>>
  BY DEF moduleVars, threadVars
<1> HIDE DEF ReadText
<1>6. QED
  BY <1>2, <1>3, <1>4, <1>5, ChatStep

(* A packet is read from the connection and dropped.                        *)
LEMMA DropsStep ==
  ASSUME IInv, NEW c \in Clients, NEW k \in DOMAIN chats, Readable(c, k), chats' = Read(c, k),
         UNCHANGED <<moduleVars, threadVars>>, ThreadOnly
  PROVE  IInv'
<1>1. PICK new :
        /\ Read(c, k) = [chats EXCEPT ![k] = new] /\ GoodChat(k, new, chatOf)
        /\ new.shut = chats[k].shut /\ new.gone = chats[k].gone /\ new.why = chats[k].why
  BY ReadChat
<1>2. chats' = [chats EXCEPT ![k] = new]
  BY <1>1
<1>3. shown' \subseteq 1..Len(chatOf)
  BY TypesKept DEF ThreadOnly
<1>4. UNCHANGED <<state, direct, link, drains, userVars, serverVars, pc, inbox>>
  BY DEF ThreadOnly, moduleVars, threadVars
<1>5. QED
  BY <1>1, <1>2, <1>3, <1>4, ChatStep

LEMMA ReadUnsupportedStep ==
  ASSUME IInv, NEW c \in Clients, ReadUnsupported(c)
  PROVE  IInv'
<1>1. link[c] \in DOMAIN chats
  BY Held DEF ReadUnsupported, Hears, Listening
<1>2. QED
  BY <1>1, DropsStep DEF ReadUnsupported, Hears

LEMMA StopReadsStep ==
  ASSUME IInv, NEW c \in Clients, StopReads(c)
  PROVE  IInv'
<1>1. link[c] \in DOMAIN chats
  BY Held DEF StopReads
<1>2. QED
  BY <1>1, DropsStep DEF StopReads, Dropping

LEMMA DrainReadsStep ==
  ASSUME IInv, NEW c \in Clients, NEW k \in DOMAIN chats, DrainReads(c, k)
  PROVE  IInv'
BY DropsStep DEF DrainReads, Dropping

(* The end of a chat as one client reads it.                                *)
LEMMA UnreadChat ==
  ASSUME IInv, NEW c \in Clients, Hears(c, {"reject", "fin"})
  PROVE  \E k, new :
           /\ k \in DOMAIN chats /\ k = link[c]
           /\ Unread(c) = [chats EXCEPT ![k] = new] /\ GoodChat(k, new, chatOf)
           /\ new.shut = chats[k].shut /\ new.gone = chats[k].gone
           /\ new.why = chats[k].why /\ new.why # {}
<1> USE DEF Hears
<1>1. PICK k \in DOMAIN chats : k = link[c] /\ GoodChat(k, chats[k], chatOf)
  BY Held DEF Listening
<1>2. PICK new :
        /\ Read(c, k) = [chats EXCEPT ![k] = new] /\ GoodChat(k, new, chatOf)
        /\ new.shut = chats[k].shut /\ new.gone = chats[k].gone /\ new.why = chats[k].why
        /\ Incoming(c, k) \in Packet \union {Fin}
        /\ Incoming(c, k).type \in {"close", "reject"} => chats[k].why # {}
        /\ Incoming(c, k) = Fin => chats[k].why # {}
  BY <1>1, ReadChat
<1>3. chats[k].why # {}
  <2>1. Incoming(c, k).type \in {"reject", "fin"}
    BY <1>1
  <2>2. QED
    BY <1>2, <2>1, PacketFacts
<1>4. CASE Hears(c, {"reject"})
  <2>1. Unread(c) = [chats EXCEPT ![k] = new]
    BY <1>1, <1>2, <1>4 DEF Unread
  <2>2. QED
    BY <1>1, <1>2, <1>3, <2>1
<1>5. CASE ~Hears(c, {"reject"})
  <2>1. Unread(c) = chats
    BY <1>5 DEF Unread
  <2>2. chats = [chats EXCEPT ![k] = chats[k]]
    BY DEF IInv, Chats
  <2>3. QED
    BY <1>1, <1>3, <2>1, <2>2
<1>6. QED
  BY <1>4, <1>5

(* tlsCloseCom begins.                                                      *)
LEMMA ReadEndsStep ==
  ASSUME IInv, NEW c \in Clients, ReadEnds(c)
  PROVE  IInv'
<1>1. PICK k, new :
        /\ k \in DOMAIN chats /\ k = link[c]
        /\ Unread(c) = [chats EXCEPT ![k] = new] /\ GoodChat(k, new, chatOf)
        /\ new.shut = chats[k].shut /\ new.gone = chats[k].gone
        /\ new.why = chats[k].why /\ new.why # {}
  BY UnreadChat DEF ReadEnds
<1> DEFINE end == Shut(new, c)
<1>2. /\ GoodChat(k, end, chatOf)
      /\ end.shut = chats[k].shut \union {c} /\ end.gone = chats[k].gone
      /\ end.why = chats[k].why
  BY <1>1, Shuts
<1>3. chats' = [chats EXCEPT ![k] = end]
  <2>1. chats' = [[chats EXCEPT ![k] = new] EXCEPT ![k] = Shut(@, c)]
    BY <1>1 DEF ReadEnds
  <2>2. [chats EXCEPT ![k] = new][k] = new
    BY <1>1
  <2>3. QED
    BY <2>1, <2>2
<1> HIDE DEF end
<1>4. shown' \subseteq 1..Len(chatOf)
  BY TypesKept DEF ReadEnds, ThreadOnly
<1>5. /\ UNCHANGED <<state, direct, link, drains, userVars, serverVars, inbox>>
      /\ pc[c] = "listen" /\ Goto(c, "stop")
  BY DEF ReadEnds, ThreadOnly, moduleVars, Hears, Listening
<1>6. QED
  BY <1>1, <1>2, <1>3, <1>4, <1>5, ChatStep

LEMMA ReadFailsStep ==
  ASSUME IInv, NEW c \in Clients, ReadFails(c)
  PROVE  IInv'
<1> USE DEF ReadFails
<1>1. PICK k, ch : k \in DOMAIN chats /\ k = link[c] /\ ch = chats[k] /\ GoodChat(k, ch, chatOf)
  BY Held DEF Listening
<1>2. ch.why # {}
  BY <1>1, GoodFields
<1> DEFINE new == Shut(ch, c)
<1>3. /\ GoodChat(k, new, chatOf)
      /\ new.shut = ch.shut \union {c} /\ new.gone = ch.gone /\ new.why = ch.why
  BY <1>1, <1>2, Shuts
<1>4. chats' = [chats EXCEPT ![k] = new]
  BY <1>1
<1>5. shown' \subseteq 1..Len(chatOf)
  BY TypesKept DEF ThreadOnly
<1>6. /\ UNCHANGED <<state, direct, link, drains, userVars, serverVars, inbox>>
      /\ pc[c] = "listen" /\ Goto(c, "stop")
  BY DEF ThreadOnly, moduleVars, Listening
<1> HIDE DEF new, ReadFails
<1>7. QED
  BY <1>1, <1>3, <1>4, <1>5, <1>6, ChatStep

LEMMA DrainShutsStep ==
  ASSUME IInv, NEW c \in Clients, NEW k \in DOMAIN chats, DrainShuts(c, k)
  PROVE  IInv'
<1> USE DEF DrainShuts
<1>1. PICK ch : ch = chats[k] /\ GoodChat(k, ch, chatOf) /\ ch.why # {}
  BY DEF IInv, Chats, Drained
<1> DEFINE new == Shut(ch, c)
<1>2. /\ GoodChat(k, new, chatOf)
      /\ new.shut = ch.shut \union {c} /\ new.gone = ch.gone /\ new.why = ch.why
  BY <1>1, Shuts
<1>3. chats' = [chats EXCEPT ![k] = new]
  BY <1>1
<1>4. shown' \subseteq 1..Len(chatOf)
  BY TypesKept DEF ThreadOnly
<1>5. UNCHANGED <<state, direct, link, drains, userVars, serverVars, inbox, pc>>
  BY DEF ThreadOnly, moduleVars, threadVars
<1> HIDE DEF new, DrainShuts
<1>6. QED
  BY <1>1, <1>2, <1>3, <1>4, <1>5, ChatStep

LEMMA LinkBreaksStep ==
  ASSUME IInv, NEW k \in DOMAIN chats, LinkBreaks(k)
  PROVE  IInv'
<1> USE DEF LinkBreaks
<1>1. PICK ch : ch = chats[k] /\ GoodChat(k, ch, chatOf)
  BY DEF IInv, Chats
<1> PICK c \in Clients : TRUE
  <2>1. Clients # {}
    BY PeerAssumption, FS_EmptySet
  <2>2. QED
    BY <2>1
<1> DEFINE new == [ch EXCEPT !.broken = TRUE, !.why = @ \union {"broken"},
                             !.wire = [d \in Clients |-> <<>>]]
<1>2. /\ GoodChat(k, new, chatOf)
      /\ new.shut = ch.shut /\ new.gone = ch.gone /\ ch.why \subseteq new.why
  BY <1>1, Breaks
<1>3. chats' = [chats EXCEPT ![k] = new]
  BY <1>1
<1>4. shown' \subseteq 1..Len(chatOf)
  BY TypesKept DEF ThreadOnly
<1>5. UNCHANGED <<state, direct, link, drains, userVars, serverVars, inbox, pc>>
  BY DEF ThreadOnly, moduleVars, threadVars
<1> HIDE DEF new, LinkBreaks
<1>6. QED
  BY <1>1, <1>2, <1>3, <1>4, <1>5, ChatStep

------------------------------------------------------------------------------
(* The end of a chat                                                        *)

LEMMA ReadEndsDirectStep ==
  ASSUME IInv, NEW c \in Clients, ReadEndsDirect(c)
  PROVE  IInv'
<1>1. PICK k, new :
        /\ k \in DOMAIN chats /\ k = link[c]
        /\ Unread(c) = [chats EXCEPT ![k] = new] /\ GoodChat(k, new, chatOf)
        /\ new.shut = chats[k].shut /\ new.gone = chats[k].gone
        /\ new.why = chats[k].why /\ new.why # {}
  BY UnreadChat DEF ReadEndsDirect
<1>2. Grown({c}) /\ chats'[k] = new
  BY <1>1, GrownOne DEF ReadEndsDirect
<1>3. link[c] # 0
  BY <1>1, LinkMade
<1>4. QED
  BY <1>1, <1>2, <1>3, ClosesStep DEF ReadEndsDirect

(* The socket is closed.                                                    *)
LEMMA ReleasedChat ==
  ASSUME IInv, NEW c \in Clients, NEW k \in DOMAIN chats, c \in chats[k].shut, Released(c, k)
  PROVE  Grown({c})
<1>1. PICK ch : ch = chats[k]
  OBVIOUS
<1>2. GoodChat(k, ch, chatOf)
  BY <1>1 DEF IInv, Chats
<1>3. c \in ch.shut
  BY <1>1
<1>4. \/ ch.broken
      \/ ch.wire[Other(c)] # <<>> /\ Head(ch.wire[Other(c)]) = Fin
  BY <1>1 DEF Released, Finished, Readable, Incoming
<1>5. PICK new : new = [ch EXCEPT !.gone = @ \union {c}]
  OBVIOUS
<1>6. /\ GoodChat(k, new, chatOf)
      /\ new.shut = ch.shut /\ new.gone = ch.gone \union {c} /\ new.why = ch.why
  BY <1>2, <1>3, <1>4, <1>5, Releases
<1>7. chats' = [chats EXCEPT ![k] = new]
  BY <1>1, <1>5 DEF Released
<1>8. QED
  BY <1>1, <1>6, <1>7, GrownOne

LEMMA StopEndsStep ==
  ASSUME IInv, NEW c \in Clients, StopEnds(c)
  PROVE  IInv'
<1>1. link[c] \in DOMAIN chats /\ c \in chats[link[c]].shut
  BY Held DEF StopEnds
<1>2. Grown({c})
  BY <1>1, ReleasedChat DEF StopEnds
<1>3. QED
  BY <1>2, ClosesStep DEF StopEnds

(* exitThreadPeer has closed a chat that no thread holds.                   *)
LEMMA DrainEndsStep ==
  ASSUME IInv, NEW c \in Clients, NEW k \in DOMAIN chats, DrainEnds(c, k)
  PROVE  IInv'
<1> USE DEF DrainEnds
<1>1. /\ UNCHANGED <<state, inbox, pc, direct, link, typing, chatOf, starts, closes, shown>>
      /\ UNCHANGED <<fromServer, asked, shake, infos>>
  BY DEF ThreadOnly, moduleVars, userVars, serverVars
<1>2. Grown({c}) /\ link[c] # k
  BY ReleasedChat DEF IInv, Drained
<1>3. \A j \in DOMAIN chats : j # k => chats'[j] = chats[j]
  BY DEF Released
<1>4. ModuleTypes' /\ CommandTypes' /\ ServerTypes'
  BY <1>1, <1>2 DEF IInv, ModuleTypes, CommandTypes, ServerTypes, Grown
<1>5. LinkTypes'
  BY <1>1, <1>2 DEF IInv, LinkTypes, Grown
<1>6. Places'
  <2> SUFFICES ASSUME NEW d \in Clients, link[d] # 0
               PROVE  /\ d \notin chats'[link[d]].gone
                      /\ pc[d] = "stop" => d \in chats'[link[d]].shut
    BY <1>1 DEF IInv, Places
  <2>1. link[d] \in DOMAIN chats
    BY LinkMade
  <2>2. d \notin chats[link[d]].gone /\ (pc[d] = "stop" => d \in chats[link[d]].shut)
    BY DEF IInv, Places
  <2>3. /\ chats[link[d]].shut \subseteq chats'[link[d]].shut
        /\ chats'[link[d]].gone \subseteq chats[link[d]].gone \union {c}
    BY <1>2, <2>1 DEF Grown
  <2>4. QED
    BY <1>2, <1>3, <2>1, <2>2, <2>3
<1>7. Chats'
  BY <1>1, <1>2 DEF Chats, Grown
<1>8. Inboxes'
  BY <1>1, <1>2, InboxesLater DEF Inboxes
<1>9. Drained'
  BY <1>1, <1>2 DEF IInv, Drained, Grown
<1>10. Typed' /\ Room'
  BY <1>1, RoomKept DEF IInv, Typed
<1>11. QED
  BY <1>4, <1>5, <1>6, <1>7, <1>8, <1>9, <1>10 DEF IInv

------------------------------------------------------------------------------
(* The invariant is inductive                                               *)

LEMMA StutterStep ==
  ASSUME IInv, UNCHANGED vars
  PROVE  IInv'
<1>1. UNCHANGED <<state, inbox, pc, direct, link, drains, chats, typing, chatOf, shown,
                  starts, closes, fromServer, asked, shake, infos>>
  BY DEF vars, moduleVars, threadVars, userVars, serverVars
<1>2. ModuleTypes' /\ LinkTypes' /\ CommandTypes' /\ ServerTypes'
  BY <1>1 DEF IInv, ModuleTypes, LinkTypes, CommandTypes, ServerTypes
<1>3. Places' /\ Chats' /\ Inboxes' /\ Drained' /\ Typed' /\ Room'
  BY <1>1, ChatsKept, RoomKept DEF IInv, Places, Inboxes, Drained, Typed
<1>4. QED
  BY <1>2, <1>3 DEF IInv

LEMMA UserStep ==
  ASSUME IInv, NEW c \in Clients, User(c)
  PROVE  IInv'
<1>1. CASE \E m \in TlsModes : UserDirect(c, m)
  BY <1>1, DirectStep
<1>2. CASE UserRequest(c)
  BY <1>2, RequestStep
<1>3. CASE UserAccept(c)
  BY <1>3, AcceptStep
<1>4. CASE UserUnserved(c)
  BY <1>4, UnservedStep
<1>5. CASE UserClose(c)
  BY <1>5, UserCloseStep
<1>6. CASE UserTypes(c)
  BY <1>6, TypesStep
<1>7. QED
  BY <1>1, <1>2, <1>3, <1>4, <1>5, <1>6 DEF User

LEMMA ConnectingStep ==
  ASSUME IInv, NEW c \in Clients, Connecting(c)
  PROVE  IInv'
<1>1. CASE PeerInfos(c) \/ PeerTries(c) \/ PeerIgnores(c)
  BY <1>1, PeerInfosStep, PeerTriesStep, PeerIgnoresStep
<1>2. CASE \/ PeerRefused(c) \/ PeerGivesUp(c) \/ RetryClose(c) \/ RetryLost(c)
           \/ DirectFailed(c)
  BY <1>2, AbandonsStep
<1>3. CASE Meet(c) \/ HalfMeet(c)
  BY <1>3, MeetStep, HalfMeetStep
<1>4. CASE OpenFails(c) \/ AcceptTimesOut(c) \/ RetryAgain(c) \/ TryFailed(c)
  BY <1>4, OpenFailsStep, AcceptTimesOutStep, RetryAgainStep, TryFailedStep
<1>5. QED
  BY <1>1, <1>2, <1>3, <1>4 DEF Connecting

LEMMA ChattingStep ==
  ASSUME IInv, NEW c \in Clients, Chatting(c)
  PROVE  IInv'
<1>1. CASE Opens(c) \/ ListenClose(c) \/ ListenForward(c)
  BY <1>1, OpensStep, ListenCloseStep, ListenForwardStep
<1>2. CASE ReadText(c) \/ ReadUnsupported(c) \/ ReadFails(c)
  BY <1>2, ReadTextStep, ReadUnsupportedStep, ReadFailsStep
<1>3. CASE ReadEnds(c) \/ ReadEndsDirect(c)
  BY <1>3, ReadEndsStep, ReadEndsDirectStep
<1>4. CASE StopReads(c) \/ StopEnds(c)
  BY <1>4, StopReadsStep, StopEndsStep
<1>5. QED
  BY <1>1, <1>2, <1>3, <1>4 DEF Chatting

LEMMA PeerInductive == IInv /\ [Next]_vars => IInv'
<1> SUFFICES ASSUME IInv, [Next]_vars PROVE IInv'
  OBVIOUS
<1>1. ASSUME NEW c \in Clients, User(c) \/ UserSends(c) \/ Deliver(c) \/ PeerThread(c)
      PROVE  IInv'
  BY <1>1, UserStep, SendsStep, DeliverStep, ConnectingStep, ChattingStep DEF PeerThread
<1>2. ASSUME NEW c \in Clients, NEW d \in Clients, ServerRejects(c, d)
      PROVE  IInv'
  BY <1>2, ServerRejectsStep
<1>3. CASE ServerTries
  BY <1>3, ServerTriesStep
<1>4. ASSUME NEW k \in DOMAIN chats, LinkBreaks(k)
      PROVE  IInv'
  BY <1>4, LinkBreaksStep
<1>5. ASSUME NEW k \in DOMAIN chats, NEW c \in Clients, Drains(c, k)
      PROVE  IInv'
  BY <1>5, DrainShutsStep, DrainReadsStep, DrainEndsStep DEF Drains
<1>6. CASE UNCHANGED vars
  BY <1>6, StutterStep
<1>7. QED
  BY <1>1, <1>2, <1>3, <1>4, <1>5, <1>6 DEF Next

------------------------------------------------------------------------------
(* What a chat promises                                                     *)

LEMMA PeerInvariant == Spec => []IInv
BY PeerInit, PeerInductive, PTL DEF Spec

LEMMA PeerTypes == IInv => TypeOK
<1> SUFFICES ASSUME IInv PROVE TypeOK
  OBVIOUS
<1>1. fromServer \in [Clients -> Seq(P2P)]
  <2>1. \A c \in Clients : fromServer[c] \in Seq(P2P)
    BY Widens DEF IInv, ServerTypes, Told
  <2>2. QED
    BY <2>1 DEF IInv, ServerTypes
<1>2. chats \in Seq([wire : [Clients -> Seq(Packet \union {Fin})],
                     shut : SUBSET Clients, gone : SUBSET Clients, broken : BOOLEAN,
                     why : SUBSET {"close", "reject", "broken"}])
  BY DEF IInv, Chats, Chat
<1>3. Types
  BY <1>1, <1>2 DEF IInv, ModuleTypes, LinkTypes, CommandTypes, ServerTypes, Types
<1>4. QED
  BY <1>3 DEF IInv, Places, TypeOK

(* PEER is closed exactly while its client has no peer thread, and open     *)
(* only with a connection in hand that the client has not closed, whatever  *)
(* the two users, the server and the network do.                            *)
THEOREM PeerTypeCorrect == Spec => []TypeOK
BY PeerInvariant, PeerTypes, PTL

(* No message crosses from one chat to the next, although chatSendMessage   *)
(* posts it long after it has looked at the state of PEER.                  *)
THEOREM PeerChatsSeparate == Spec => []ChatsSeparate
<1>1. IInv => ChatsSeparate
  BY DEF IInv, Chats, GoodChat, Inboxes, GoodInbox, Kept, ChatsSeparate
<1>2. QED
  BY <1>1, PeerInvariant, PTL

(* A socket is closed only when the other end has shut or the connection    *)
(* is broken: tlsCloseCom never provokes a write to a closed end.           *)
THEOREM PeerOrderlyRelease == Spec => []OrderlyRelease
<1>1. IInv => OrderlyRelease
  BY DEF IInv, Chats, GoodChat, OrderlyRelease
<1>2. QED
  BY <1>1, PeerInvariant, PTL

(* A chat ends by a /close, by a P2P_REJECT or with the network, and by     *)
(* nothing else that the server or the other client sends.                  *)
THEOREM PeerEndsForAReason == Spec => []ChatEndsForAReason
<1>1. IInv => ChatEndsForAReason
  BY DEF IInv, Chats, GoodChat, ChatEndsForAReason
<1>2. QED
  BY <1>1, PeerInvariant, PTL

=============================================================================

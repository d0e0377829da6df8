------------------------------ MODULE SessionProofs ------------------------------
(* The shared list over connections that break, for any number of pages, edits, *)
(* faults and states under way.                                                 *)
EXTENDS Session, RGATheorems

-----------------------------------------------------------------------------
(* Messages under way.                                                         *)

NodeMaps == UNION {[D -> Node] : D \in {E \in SUBSET Id : IsFiniteSet(E)}}

StateMessage == [type : {"list_state"}, nodes : NodeMaps]

Message == [type : {"open"}] \cup [type : {"auth"}, id : Client] \cup StateMessage

\* An id is handed out once over each connection.
OneAuth(queue) ==
    \A i, j \in DOMAIN queue : queue[i].type = "auth" /\ queue[j].type = "auth" => i = j

(* NodeMaps are the node maps.                                                 *)
LEMMA NodeMapsAre == \A ns : ns \in NodeMaps <=> IsNodeMap(ns)
<1> QED BY DEF NodeMaps, IsNodeMap

(* A node map can be sent.                                                     *)
LEMMA ListStateIs ==
  ASSUME NEW ns, IsNodeMap(ns)
  PROVE  /\ ListState(ns) \in StateMessage /\ ListState(ns) \in Message
         /\ ListState(ns).type = "list_state" /\ ListState(ns).nodes = ns
<1>1. ns \in NodeMaps
  BY NodeMapsAre
<1> QED BY <1>1 DEF ListState, StateMessage, Message

(* A queue with nothing in it.                                                 *)
LEMMA EmptyQueue == StatesIn(<< >>) = {} /\ AuthsIn(<< >>) = {} /\ OneAuth(<< >>)
<1> QED BY DEF StatesIn, AuthsIn, OneAuth

(* Reading the first message of a queue.                                       *)
LEMMA QueueTail ==
  ASSUME NEW M, NEW q \in Seq(M), q # << >>
  PROVE  /\ Tail(q) \in Seq(M) /\ Head(q) \in M
         /\ StatesIn(Tail(q)) \subseteq StatesIn(q)
         /\ AuthsIn(Tail(q)) \subseteq AuthsIn(q)
         /\ Head(q).type = "list_state" => Head(q).nodes \in StatesIn(q)
         /\ Head(q).type = "auth" => Head(q).id \in AuthsIn(q)
         /\ OneAuth(q) => OneAuth(Tail(q))
         /\ OneAuth(q) /\ Head(q).type = "auth" => AuthsIn(Tail(q)) = {}
<1>1. /\ Tail(q) \in Seq(M) /\ Head(q) = q[1] /\ Head(q) \in M /\ 1 \in DOMAIN q
      /\ Len(Tail(q)) = Len(q) - 1 /\ Len(q) \in Nat
      /\ DOMAIN q = 1..Len(q) /\ DOMAIN Tail(q) = 1..Len(Tail(q))
      /\ \A i \in 1..Len(Tail(q)) : Tail(q)[i] = q[i + 1]
  OBVIOUS
<1>2. \A i \in DOMAIN Tail(q) : i + 1 \in DOMAIN q /\ i + 1 # 1 /\ Tail(q)[i] = q[i + 1]
  BY <1>1
<1>3. \A i, j \in DOMAIN Tail(q) : i + 1 = j + 1 => i = j
  BY <1>1
<1>4. StatesIn(Tail(q)) \subseteq StatesIn(q)
  BY <1>2 DEF StatesIn
<1>5. AuthsIn(Tail(q)) \subseteq AuthsIn(q)
  BY <1>2 DEF AuthsIn
<1>6. Head(q).type = "list_state" => Head(q).nodes \in StatesIn(q)
  BY <1>1 DEF StatesIn
<1>7. Head(q).type = "auth" => Head(q).id \in AuthsIn(q)
  BY <1>1 DEF AuthsIn
<1>8. OneAuth(q) => OneAuth(Tail(q))
  BY <1>2, <1>3 DEF OneAuth
<1>9. OneAuth(q) /\ Head(q).type = "auth" => AuthsIn(Tail(q)) = {}
  BY <1>1, <1>2 DEF OneAuth, AuthsIn
<1> QED BY <1>1, <1>4, <1>5, <1>6, <1>7, <1>8, <1>9

(* Sending one more state.                                                     *)
LEMMA QueueAppend ==
  ASSUME NEW M, NEW q \in Seq(M), NEW m \in M, m.type = "list_state"
  PROVE  /\ Append(q, m) \in Seq(M)
         /\ StatesIn(Append(q, m)) = StatesIn(q) \cup {m.nodes}
         /\ AuthsIn(Append(q, m)) = AuthsIn(q)
         /\ OneAuth(q) => OneAuth(Append(q, m))
<1> DEFINE r == Append(q, m)
<1>1. /\ r \in Seq(M) /\ Len(r) = Len(q) + 1 /\ Len(q) \in Nat
      /\ DOMAIN q = 1..Len(q) /\ DOMAIN r = 1..Len(r)
      /\ \A i \in 1..Len(q) : r[i] = q[i]
      /\ r[Len(q) + 1] = m
  OBVIOUS
<1> HIDE DEF r
<1>2. /\ DOMAIN r = DOMAIN q \cup {Len(q) + 1} /\ Len(q) + 1 \notin DOMAIN q
      /\ \A i \in DOMAIN q : r[i] = q[i]
      /\ r[Len(q) + 1] = m
  BY <1>1
<1>3. StatesIn(r) = StatesIn(q) \cup {m.nodes}
  BY <1>2 DEF StatesIn
<1>4. AuthsIn(r) = AuthsIn(q)
  BY <1>2 DEF AuthsIn
<1>5. OneAuth(q) => OneAuth(r)
  BY <1>2 DEF OneAuth
<1> QED BY <1>1, <1>3, <1>4, <1>5 DEF r

(* The greeting on a new connection.                                           *)
LEMMA QueueGreeting ==
  ASSUME NEW c \in Client, NEW ns, IsNodeMap(ns)
  PROVE  /\ <<Opened, Auth(c), ListState(ns)>> \in Seq(Message)
         /\ StatesIn(<<Opened, Auth(c), ListState(ns)>>) = {ns}
         /\ AuthsIn(<<Opened, Auth(c), ListState(ns)>>) = {c}
         /\ OneAuth(<<Opened, Auth(c), ListState(ns)>>)
<1>1. /\ Opened \in Message /\ Opened.type = "open"
      /\ Auth(c) \in Message /\ Auth(c).type = "auth" /\ Auth(c).id = c
  BY DEF Opened, Auth, Message
<1>2. /\ ListState(ns) \in Message
      /\ ListState(ns).type = "list_state" /\ ListState(ns).nodes = ns
  BY ListStateIs
<1> DEFINE q == <<Opened, Auth(c), ListState(ns)>>
<1>3. /\ q \in Seq(Message) /\ DOMAIN q = {1, 2, 3}
      /\ q[1] = Opened /\ q[2] = Auth(c) /\ q[3] = ListState(ns)
  BY <1>1, <1>2
<1> HIDE DEF q
<1>4. StatesIn(q) = {ns}
  BY <1>1, <1>2, <1>3 DEF StatesIn
<1>5. AuthsIn(q) = {c}
  BY <1>1, <1>2, <1>3 DEF AuthsIn
<1>6. OneAuth(q)
  BY <1>1, <1>2, <1>3 DEF OneAuth
<1> QED BY <1>3, <1>4, <1>5, <1>6 DEF q
(* The states in a typed queue are node maps, and the ids handed out ids.      *)
LEMMA QueueTyped ==
  ASSUME NEW q
  PROVE  /\ q \in Seq(StateMessage) => StatesIn(q) \subseteq NodeMaps
         /\ q \in Seq(Message) => StatesIn(q) \subseteq NodeMaps /\ AuthsIn(q) \subseteq Client
<1>1. ASSUME q \in Seq(Message), NEW i \in DOMAIN q PROVE q[i] \in Message
  BY <1>1
<1>2. ASSUME q \in Seq(StateMessage), NEW i \in DOMAIN q PROVE q[i] \in StateMessage
  BY <1>2
<1>3. q \in Seq(StateMessage) => StatesIn(q) \subseteq NodeMaps
  BY <1>2 DEF StatesIn, StateMessage
<1>4. q \in Seq(Message) => StatesIn(q) \subseteq NodeMaps
  BY <1>1 DEF StatesIn, StateMessage, Message
<1>5. q \in Seq(Message) => AuthsIn(q) \subseteq Client
  BY <1>1 DEF AuthsIn, StateMessage, Message
<1> QED BY <1>3, <1>4, <1>5

-----------------------------------------------------------------------------
(* Merging, and the sequence number that follows it.                           *)

(* A merge brings in no id that neither side had.                              *)
LEMMA MergedState ==
  ASSUME NEW old \in NodeMaps, NEW new \in NodeMaps
  PROVE  /\ NodesMerged(old, new) \in NodeMaps
         /\ DOMAIN NodesMerged(old, new) \subseteq DOMAIN old \cup DOMAIN new
<1>1. IsNodeMap(old) /\ IsNodeMap(new)
  BY NodeMapsAre
<1>2. IsNodeMap(NodesMerged(old, new))
  BY <1>1, NodesMergedAre DEF HasMerged
<1>3. DOMAIN NodesMerged(old, new) \subseteq DOMAIN old \cup DOMAIN new
  BY DEF NodesMerged, Landing
<1> QED BY <1>2, <1>3, NodeMapsAre

(* Of finitely many ids one has the largest number: the ids with larger ones   *)
(* than a given id form a set, and of these sets one contains no other.        *)
LEMMA LargestNumber ==
  ASSUME NEW D, D \subseteq Id, IsFiniteSet(D), D # {}
  PROVE  \E x \in D : \A y \in D : y[2] <= x[2]
<1> DEFINE Larger(x) == {y \in D : y[2] > x[2]}
           T == {Larger(x) : x \in D}
           R == StrictSubsetOrdering(D)
<1>1. \A x \in D : x[2] \in Nat
  BY DEF Id
<1>2. T # {} /\ T \subseteq FiniteSubsetsOf(D)
  <2>1. FiniteSubsetsOf(D) = SUBSET D
    BY FS_FiniteSubsetsOfFinite
  <2>2. T # {} /\ T \subseteq SUBSET D
    OBVIOUS
  <2> HIDE DEF T
  <2> QED BY <2>1, <2>2
<1>3. PICK t \in T : \A u \in T : ~(<<u, t>> \in R)
  <2>1. IsWellFoundedOn(R, FiniteSubsetsOf(D))
    BY FS_StrictSubsetOrderingWellFounded
  <2> HIDE DEF T, R
  <2> QED BY <1>2, <2>1, WFMin
<1>4. PICK x \in D : t = Larger(x)
  OBVIOUS
<1>5. ASSUME NEW y \in D, y[2] > x[2] PROVE FALSE
  <2>1. Larger(y) \subseteq Larger(x)
    BY <1>1, <1>5
  <2>2. y \in Larger(x) /\ y \notin Larger(y)
    BY <1>1, <1>5
  <2>3. Larger(x) \in SUBSET D /\ Larger(y) \in SUBSET D
    OBVIOUS
  <2>4. <<Larger(y), Larger(x)>> \in (SUBSET D) \X (SUBSET D)
    BY <2>3
  <2>5. Larger(y) # Larger(x)
    BY <2>2
  <2> HIDE DEF Larger
  <2>6. <<Larger(y), Larger(x)>> \in R
    BY <2>1, <2>4, <2>5 DEF StrictSubsetOrdering
  <2> QED BY <1>3, <1>4, <2>6
<1> QED BY <1>1, <1>5

(* advanceSequenceFromNodes() never steps back.                                *)
LEMMA AdvancedIs ==
  ASSUME NEW seq \in Nat, NEW c, NEW ns \in NodeMaps
  PROVE  Advanced(seq, c, ns) \in Nat /\ Advanced(seq, c, ns) >= seq
<1> DEFINE mine == {m \in DOMAIN ns : m[1] = c}
           own  == {n[2] : n \in mine} \cup {seq}
<1>1. mine \subseteq Id /\ IsFiniteSet(mine)
  BY NodeMapsAre, FS_Subset DEF IsNodeMap
<1>2. \A n \in mine : n[2] \in Nat
  BY <1>1 DEF Id
<1>3. own \subseteq Nat
  BY <1>2
<1>4. \E s \in own : \A t \in own : t <= s
  <2>1. CASE mine = {}
    BY <2>1
  <2>2. CASE mine # {}
    <3>1. PICK x \in mine : \A y \in mine : y[2] <= x[2]
      BY <1>1, <2>2, LargestNumber
    <3>2. CASE x[2] <= seq
      <4>1. \A t \in own : t <= seq
        BY <1>2, <3>1, <3>2
      <4> QED BY <4>1
    <3>3. CASE x[2] > seq
      BY <1>2, <3>1, <3>3
    <3> QED BY <1>2, <3>2, <3>3
  <2> QED BY <2>1, <2>2
<1>5. Advanced(seq, c, ns) = CHOOSE s \in own : \A t \in own : t <= s
  BY DEF Advanced
<1>6. seq \in own
  OBVIOUS
<1> HIDE DEF own
<1>7. Advanced(seq, c, ns) \in own /\ \A t \in own : t <= Advanced(seq, c, ns)
  BY <1>4, <1>5
<1> QED BY <1>3, <1>6, <1>7

-----------------------------------------------------------------------------
(* Types.                                                                      *)

\* TypeOK, with the messages under way.
Typed ==
    /\ up \in BOOLEAN /\ minted \in 0..Len(Drawn)
    /\ peer \in [Browser -> {"waiting", "serving", "gone"}]
    /\ link \in [Browser -> {"connecting", "open", "closed"}]
    /\ timer \in [Browser -> BOOLEAN] /\ timeouts \in [Browser -> Nat]
    /\ clientId \in [Browser -> Client \cup {0}]
    /\ sequence \in [Browser -> Nat]
    /\ master \in NodeMaps /\ nodes \in [Browser -> NodeMaps] /\ late \subseteq NodeMaps
    /\ toServer \in [Browser -> Seq(StateMessage)]
    /\ toBrowser \in [Browser -> Seq(Message)]

(* What is typed is as TypeOK says.                                            *)
LEMMA TypedIsTypeOK == Typed => TypeOK
<1> SUFFICES ASSUME Typed PROVE TypeOK
  OBVIOUS
<1>1. \A b \in Browser : /\ StatesIn(toServer[b]) \subseteq NodeMaps
                         /\ StatesIn(toBrowser[b]) \subseteq NodeMaps
  BY QueueTyped DEF Typed
<1>2. \A ns \in late \cup InFlight : ns \in NodeMaps
  BY <1>1 DEF Typed, InFlight
<1>3. IsNodeMap(master) /\ \A b \in Browser : IsNodeMap(nodes[b])
  BY NodeMapsAre DEF Typed
<1>4. \A ns \in late \cup InFlight : IsNodeMap(ns)
  BY <1>2, NodeMapsAre
<1> QED BY <1>3, <1>4 DEF TypeOK, Typed

(* A list without elements.                                                    *)
LEMMA EmptyTyped == EmptyNodes \in NodeMaps /\ DOMAIN EmptyNodes = {}
<1> QED BY NodeMapsAre, FS_EmptySet DEF EmptyNodes, IsNodeMap

(* Every page, the server and the network start empty.                         *)
LEMMA InitTyped == Init => Typed
<1> SUFFICES ASSUME Init PROVE Typed
  OBVIOUS
<1>1. << >> \in Seq(StateMessage) /\ << >> \in Seq(Message)
  OBVIOUS
<1>2. Len(Drawn) \in Nat
  BY DrawnAssumption
<1> QED BY <1>1, <1>2, EmptyTyped DEF Init, Typed

(* An id that is drawn is a client id, and drawn once.                         *)
LEMMA DrawnIds ==
  /\ Len(Drawn) \in Nat /\ DOMAIN Drawn = 1..Len(Drawn)
  /\ \A i \in 1..Len(Drawn) : Drawn[i] \in Client
  /\ \A i, j \in 1..Len(Drawn) : Drawn[i] = Drawn[j] => i = j
<1> QED BY DrawnAssumption

(* The server keeps the types.                                                 *)
LEMMA ServerTyped == Typed /\ Server => Typed'
<1> SUFFICES ASSUME Typed, Server PROVE Typed'
  OBVIOUS
<1>1. ASSUME NEW b \in Browser, OnOpen(b) PROVE Typed'
  <2>1. minted + 1 \in 1..Len(Drawn) /\ minted' = minted + 1
    BY <1>1, DrawnIds DEF OnOpen, Typed
  <2>2. MakeClientId \in Client
    BY <2>1, DrawnIds DEF MakeClientId
  <2>3. <<Opened, Auth(MakeClientId), ListState(master)>> \in Seq(Message)
    BY <2>2, NodeMapsAre, QueueGreeting DEF Typed
  <2> QED BY <1>1, <2>1, <2>3, DrawnIds DEF OnOpen, Typed, reconnect, page
<1>2. ASSUME NEW b \in Browser, OnMessage(b) PROVE Typed'
  <2>1. toServer[b] \in Seq(StateMessage) /\ toServer[b] # << >>
    BY <1>2 DEF OnMessage, Typed
  <2>2. Tail(toServer[b]) \in Seq(StateMessage) /\ Head(toServer[b]).nodes \in NodeMaps
    <3>1. Tail(toServer[b]) \in Seq(StateMessage) /\ Head(toServer[b]) \in StateMessage
      BY <2>1, QueueTail
    <3> QED BY <3>1 DEF StateMessage
  <2>3. NodesMerged(master, Head(toServer[b]).nodes) \in NodeMaps
    BY <2>2, MergedState DEF Typed
  <2>4. Append(toBrowser[b], ListState(NodesMerged(master, Head(toServer[b]).nodes)))
          \in Seq(Message)
    BY <2>3, NodeMapsAre, ListStateIs, QueueAppend DEF Typed
  <2> QED BY <1>2, <2>2, <2>3, <2>4 DEF OnMessage, Typed, reconnect, page
<1>3. ASSUME OnLateMessage PROVE Typed'
  <2>1. \A ns \in late : NodesMerged(master, ns) \in NodeMaps
    BY MergedState DEF Typed
  <2> QED BY <1>3, <2>1 DEF OnLateMessage, Typed, reconnect, page
<1>4. ASSUME Crash PROVE Typed'
  <2>1. << >> \in Seq(StateMessage)
    OBVIOUS
  <2> QED BY <1>4, <2>1, EmptyTyped DEF Crash, Typed, reconnect, page
<1>5. ASSUME Restart PROVE Typed'
  BY <1>5 DEF Restart, Typed, wire, reconnect, page
<1> QED BY <1>1, <1>2, <1>3, <1>4, <1>5 DEF Server, Serve

(* The network and the pages' transport keep the types.                        *)
LEMMA TransportTyped ==
  ASSUME Typed, NEW b \in Browser, Lose(b) \/ OnClose(b) \/ Reconnect(b) \/ Reload(b)
  PROVE  Typed'
<1>0. << >> \in Seq(StateMessage) /\ << >> \in Seq(Message)
  OBVIOUS
<1>1. StatesIn(toServer[b]) \subseteq NodeMaps
  BY QueueTyped DEF Typed
<1>2. CASE Lose(b)
  BY <1>0, <1>1, <1>2 DEF Lose, Typed, server, reconnect, page
<1>3. CASE OnClose(b)
  <2>1. timeouts' \in [Browser -> Nat]
    BY <1>3 DEF OnClose, Typed
  <2> QED BY <1>0, <1>3, <2>1 DEF OnClose, Typed, server, page
<1>4. CASE Reconnect(b)
  <2>1. timeouts' \in [Browser -> Nat]
    BY <1>4 DEF Reconnect, Typed
  <2> QED BY <1>4, <2>1 DEF Reconnect, NewSocket, Typed, server, page
<1>5. CASE Reload(b)
  BY <1>0, <1>1, <1>5, EmptyTyped DEF Reload, NewSocket, Typed, server
<1> QED BY <1>2, <1>3, <1>4, <1>5

(* What a page reads keeps the types.                                          *)
LEMMA EventTyped ==
  ASSUME Typed, NEW b \in Browser, OnEvent(b)
  PROVE  Typed'
<1>1. /\ toBrowser[b] \in Seq(Message) /\ toBrowser[b] # << >>
      /\ toBrowser' = [toBrowser EXCEPT ![b] = Tail(@)]
      /\ UNCHANGED <<server, peer, late, toServer, timer, timeouts>>
  BY DEF OnEvent, Typed
<1>2. Tail(toBrowser[b]) \in Seq(Message) /\ Incoming(b) \in Message
  BY <1>1, QueueTail DEF Incoming
<1>3. CASE OnOpened(b)
  BY <1>1, <1>2, <1>3 DEF OnOpened, Typed, server, page
<1>4. CASE OnAuth(b)
  <2>1. Incoming(b).id \in Client
    BY <1>2, <1>4 DEF OnAuth, Message, StateMessage
  <2> QED BY <1>1, <1>2, <1>4, <2>1 DEF OnAuth, Typed, server
<1>5. CASE OnListState(b)
  <2>1. Incoming(b).nodes \in NodeMaps
    BY <1>2, <1>5 DEF OnListState, Message, StateMessage
  <2>2. NodesMerged(nodes[b], Incoming(b).nodes) \in NodeMaps
    BY <2>1, MergedState DEF Typed
  <2>3. Advanced(sequence[b], clientId[b], Incoming(b).nodes) \in Nat
    BY <2>1, AdvancedIs DEF Typed
  <2> QED BY <1>1, <1>2, <1>5, <2>2, <2>3 DEF OnListState, Typed, server
<1> QED BY <1>3, <1>4, <1>5 DEF OnEvent

(* A new node is a node.                                                       *)
LEMMA WithNodeIs ==
  ASSUME NEW ns \in NodeMaps, NEW id \in Id, NEW previous \in Place, NEW v \in Value
  PROVE  WithNode(ns, id, previous, v) \in NodeMaps
         /\ DOMAIN WithNode(ns, id, previous, v) = DOMAIN ns \cup {id}
<1>1. IsNodeMap(ns)
  BY NodeMapsAre
<1>2. [previous_id |-> previous, value |-> v, deleted |-> FALSE] \in Node
  BY DEF Node
<1>3. IsNodeMap(WithNode(ns, id, previous, v))
  BY <1>1, <1>2, FS_AddElement DEF IsNodeMap, WithNode
<1> QED BY <1>3, NodeMapsAre DEF WithNode

(* The id of a new element is an id, one number past the page's.               *)
LEMMA NextIdIs ==
  ASSUME Typed, NEW b \in Browser, clientId[b] # 0
  PROVE  /\ NextId(clientId[b], sequence[b]) \in Id
         /\ NextId(clientId[b], sequence[b])[1] = clientId[b]
         /\ NextId(clientId[b], sequence[b])[2] = sequence[b] + 1
<1> QED BY DEF Typed, NextId, Id

(* A deleted element stays a node.                                             *)
LEMMA DeletedIs ==
  ASSUME NEW ns \in NodeMaps, NEW n \in DOMAIN ns
  PROVE  /\ [ns EXCEPT ![n].deleted = TRUE] \in NodeMaps
         /\ DOMAIN [ns EXCEPT ![n].deleted = TRUE] = DOMAIN ns
<1>1. IsNodeMap(ns)
  BY NodeMapsAre
<1>2. [ns[n] EXCEPT !.deleted = TRUE] \in Node
  BY <1>1 DEF IsNodeMap, Node
<1>3. IsNodeMap([ns EXCEPT ![n].deleted = TRUE])
  BY <1>1, <1>2 DEF IsNodeMap
<1> QED BY <1>3, NodeMapsAre

(* What a user does keeps the types.                                           *)
LEMMA UserTyped ==
  ASSUME Typed, NEW b \in Browser
  PROVE  /\ Sync(b) => Typed'
         /\ \A v \in Value : ListAddAtEnd(b, v) => Typed'
         /\ \A n \in DOMAIN nodes[b] : ListDelete(b, n) => Typed'
<1>1. ASSUME Sync(b) PROVE Typed'
  <2>1. Append(toServer[b], ListState(nodes[b])) \in Seq(StateMessage)
    BY NodeMapsAre, ListStateIs, QueueAppend DEF Typed
  <2> QED BY <1>1, <2>1 DEF Sync, Typed, server, reconnect, page
<1>2. ASSUME NEW v \in Value, ListAddAtEnd(b, v) PROVE Typed'
  <2>1. PICK last \in Visible(nodes[b]) \cup {Head0} :
           nodes' = [nodes EXCEPT ![b] = WithNode(@, NextId(clientId[b], sequence[b]), last, v)]
    BY <1>2 DEF ListAddAtEnd
  <2>2. last \in Place
    BY NodeMapsAre DEF Visible, Typed, IsNodeMap, Place
  <2>3. NextId(clientId[b], sequence[b]) \in Id
    BY <1>2, NextIdIs DEF ListAddAtEnd
  <2>4. WithNode(nodes[b], NextId(clientId[b], sequence[b]), last, v) \in NodeMaps
    BY <2>2, <2>3, WithNodeIs DEF Typed
  <2>5. sequence' \in [Browser -> Nat]
    BY <1>2 DEF ListAddAtEnd, Typed
  <2> QED BY <1>2, <2>1, <2>4, <2>5 DEF ListAddAtEnd, Typed, server, wire, reconnect
<1>3. ASSUME NEW n \in DOMAIN nodes[b], ListDelete(b, n) PROVE Typed'
  <2>1. [nodes[b] EXCEPT ![n].deleted = TRUE] \in NodeMaps
    BY DeletedIs DEF Typed
  <2>2. nodes' = [nodes EXCEPT ![b] = [nodes[b] EXCEPT ![n].deleted = TRUE]]
    BY <1>3 DEF ListDelete
  <2> QED BY <1>3, <2>1, <2>2 DEF ListDelete, Typed, server, wire, reconnect
<1> QED BY <1>1, <1>2, <1>3

(* Every step keeps the types.                                                 *)
LEMMA NextTyped == Typed /\ [Next]_vars => Typed'
<1> SUFFICES ASSUME Typed, [Next]_vars PROVE Typed'
  OBVIOUS
<1>1. CASE UNCHANGED vars
  BY <1>1 DEF Typed, vars, server, wire, reconnect, page
<1>2. CASE Server
  BY <1>2, ServerTyped
<1>3. ASSUME NEW b \in Browser, Lose(b) \/ Page(b) \/ User(b) PROVE Typed'
  BY <1>3, TransportTyped, EventTyped, UserTyped DEF Page, User
<1> QED BY <1>1, <1>2, <1>3 DEF Next

(* However connections break and pages come and go, every list kept or sent is *)
(* well formed.                                                                *)
THEOREM SessionTypeCorrect == SystemSpec => []TypeOK
<1> QED BY InitTyped, NextTyped, TypedIsTypeOK, PTL DEF SystemSpec

-----------------------------------------------------------------------------
(* Reconnecting.                                                               *)

\* The handle of the timer is kept exactly while its callback is to come.
TimerInv ==
    /\ \A b \in Browser : timer[b] <=> link[b] = "closed"
    /\ ReconnectPlanned

(* A page plans a new attempt when its connection closes, and only then, and   *)
(* makes it once.                                                              *)
LEMMA NextTimer == Typed /\ TimerInv /\ [Next]_vars => TimerInv'
<1> SUFFICES ASSUME Typed, TimerInv, [Next]_vars PROVE TimerInv'
  OBVIOUS
<1> USE DEF TimerInv, ReconnectPlanned
<1>0. /\ timer \in [Browser -> BOOLEAN] /\ timeouts \in [Browser -> Nat]
      /\ link \in [Browser -> {"connecting", "open", "closed"}]
  BY DEF Typed
<1>1. CASE UNCHANGED <<link, timer, timeouts>>
  BY <1>1
<1>2. ASSUME NEW b \in Browser, OnClose(b) PROVE TimerInv'
  BY <1>0, <1>2 DEF OnClose
<1>3. ASSUME NEW b \in Browser, Reconnect(b) PROVE TimerInv'
  BY <1>0, <1>3 DEF Reconnect, NewSocket
<1>4. ASSUME NEW b \in Browser, OnEvent(b) PROVE TimerInv'
  BY <1>0, <1>4 DEF OnEvent, OnOpened, OnAuth, OnListState
<1>5. ASSUME NEW b \in Browser, Reload(b) PROVE TimerInv'
  BY <1>0, <1>5 DEF Reload, NewSocket
<1>6. CASE Server
  BY <1>1, <1>6 DEF Server, Serve, OnOpen, OnMessage, OnLateMessage, Crash, Restart, reconnect
<1>7. ASSUME NEW b \in Browser, Lose(b) PROVE TimerInv'
  BY <1>1, <1>7 DEF Lose, reconnect
<1>8. ASSUME NEW b \in Browser, User(b), ~Reload(b) PROVE TimerInv'
  BY <1>1, <1>8 DEF User, Sync, ListAddAtEnd, ListDelete, reconnect
<1>9. CASE UNCHANGED vars
  BY <1>1, <1>9 DEF vars, reconnect
<1> QED BY <1>2, <1>3, <1>4, <1>5, <1>6, <1>7, <1>8, <1>9 DEF Next, Page

(* However connections, timers and reloads take turns, a page whose connection *)
(* is closed has one attempt ahead of it, and a page that is connected none:   *)
(* no second socket is opened beside a first, and no page is left waiting.     *)
THEOREM AlwaysReconnects == SystemSpec => []ReconnectPlanned
<1>1. Init => TimerInv
  BY DEF Init, TimerInv, ReconnectPlanned
<1>2. TimerInv => ReconnectPlanned
  BY DEF TimerInv
<1> QED BY InitTyped, NextTyped, NextTimer, <1>1, <1>2, PTL DEF SystemSpec

-----------------------------------------------------------------------------
(* Who may make which ids.                                                     *)

\* The client ids handed out so far.
Issued == {Drawn[i] : i \in 1..minted}

\* A client id is held by one page at most, or on its way to one, and no element
\* bears an id that was not handed out.
OwnersInv ==
    /\ \A b \in Browser : clientId[b] # 0 => clientId[b] \in Issued
    /\ \A b \in Browser : AuthsIn(toBrowser[b]) \subseteq Issued
    /\ \A b, d \in Browser : b # d /\ clientId[b] # 0 => clientId[b] # clientId[d]
    /\ \A b, d \in Browser : clientId[b] \notin AuthsIn(toBrowser[d])
    /\ \A b, d \in Browser :
          b # d => AuthsIn(toBrowser[b]) \cap AuthsIn(toBrowser[d]) = {}
    /\ \A b \in Browser : OneAuth(toBrowser[b])
    /\ \A n \in IdsAnywhere : n[1] \in Issued

Owned == OwnersInv /\ SequenceLeads

(* Where the ids of elements are.                                              *)
LEMMA IdsHeld ==
  /\ DOMAIN master \subseteq IdsAnywhere
  /\ \A b \in Browser : DOMAIN nodes[b] \subseteq IdsAnywhere
  /\ \A ns \in late : DOMAIN ns \subseteq IdsAnywhere
  /\ \A b \in Browser : \A ns \in StatesIn(toServer[b]) : DOMAIN ns \subseteq IdsAnywhere
  /\ \A b \in Browser : \A ns \in StatesIn(toBrowser[b]) : DOMAIN ns \subseteq IdsAnywhere
<1> QED BY DEF IdsAnywhere, InFlight

(* And that they are nowhere else after a step.                                *)
LEMMA IdsThen ==
  ASSUME NEW S, DOMAIN master' \subseteq S,
         \A b \in Browser : DOMAIN nodes'[b] \subseteq S,
         \A ns \in late' : DOMAIN ns \subseteq S,
         \A b \in Browser : \A ns \in StatesIn(toServer'[b]) : DOMAIN ns \subseteq S,
         \A b \in Browser : \A ns \in StatesIn(toBrowser'[b]) : DOMAIN ns \subseteq S
  PROVE  IdsAnywhere' \subseteq S
<1> QED BY DEF IdsAnywhere, InFlight

(* They are ids.                                                               *)
LEMMA IdsTyped ==
  ASSUME Typed, NEW n \in IdsAnywhere
  PROVE  n \in Id /\ n[1] \in Client /\ n[1] # 0 /\ n[2] \in Nat
<1>1. \A b \in Browser : /\ StatesIn(toServer[b]) \subseteq NodeMaps
                         /\ StatesIn(toBrowser[b]) \subseteq NodeMaps
  BY QueueTyped DEF Typed
<1>2. \A ns \in NodeMaps : DOMAIN ns \subseteq Id
  BY NodeMapsAre DEF IsNodeMap
<1>3. n \in Id
  BY <1>1, <1>2 DEF Typed, IdsAnywhere, InFlight
<1> QED BY <1>3, ClientAssumption DEF Id

(* A step that makes no id, hands none out and sets no page back.              *)
LEMMA QuietOwned ==
  ASSUME Typed, Owned, IdsAnywhere' \subseteq IdsAnywhere, minted' = minted,
         \A b \in Browser : \/ clientId'[b] = 0
                            \/ clientId'[b] = clientId[b] /\ sequence'[b] >= sequence[b],
         \A b \in Browser : AuthsIn(toBrowser'[b]) \subseteq AuthsIn(toBrowser[b])
                            /\ OneAuth(toBrowser'[b]),
         Typed'
  PROVE  Owned'
<1>1. Issued' = Issued
  BY DEF Issued
<1>2. \A b \in Browser : AuthsIn(toBrowser[b]) \subseteq Client /\ 0 \notin Client
  BY QueueTyped, ClientAssumption DEF Typed
<1>3. OwnersInv'
  BY <1>1, <1>2 DEF Owned, OwnersInv
<1>4. ASSUME NEW n \in IdsAnywhere', NEW b \in Browser
      PROVE  /\ n[1] = clientId'[b] => n[2] <= sequence'[b]
             /\ n[1] \notin AuthsIn(toBrowser'[b])
  <2>1. n \in IdsAnywhere /\ n[1] # 0 /\ n[2] \in Nat
    BY <1>4, IdsTyped
  <2>2. n[1] = clientId[b] => n[2] <= sequence[b]
    BY <2>1 DEF Owned, SequenceLeads
  <2>3. n[1] \notin AuthsIn(toBrowser[b])
    BY <2>1 DEF Owned, SequenceLeads
  <2>4. sequence[b] \in Nat /\ sequence'[b] \in Nat
    BY DEF Typed
  <2> QED BY <2>1, <2>2, <2>3, <2>4
<1> QED BY <1>3, <1>4 DEF Owned, SequenceLeads

(* A new connection hands out an id that no element bears and no page holds.   *)
LEMMA OpenOwned ==
  ASSUME Typed, Typed', Owned, NEW b \in Browser, OnOpen(b)
  PROVE  Owned'
<1> DEFINE c == MakeClientId
           q == <<Opened, Auth(c), ListState(master)>>
<1>1. /\ minted \in 0..Len(Drawn) /\ minted < Len(Drawn) /\ minted' = minted + 1
      /\ toBrowser' = [toBrowser EXCEPT ![b] = q]
      /\ UNCHANGED <<master, late, toServer, clientId, sequence, nodes>>
  BY DEF OnOpen, Typed, page
<1>2. minted + 1 \in 1..Len(Drawn) /\ minted + 1 \notin 1..minted /\ 1..minted \subseteq 1..Len(Drawn)
  BY <1>1, DrawnIds
<1>3. c \in Client /\ c \notin Issued /\ Issued' = Issued \cup {c} /\ c # 0
  <2>1. c = Drawn[minted + 1]
    BY DEF MakeClientId
  <2>2. 1..minted' = (1..minted) \cup {minted + 1}
    BY <1>1
  <2>3. c \in Client /\ c \notin Issued
    BY <1>2, <2>1, DrawnIds DEF Issued
  <2>4. Issued' = Issued \cup {c}
    BY <2>1, <2>2 DEF Issued
  <2> QED BY <2>3, <2>4, ClientAssumption
<1> HIDE DEF c
<1>4. StatesIn(q) = {master} /\ AuthsIn(q) = {c} /\ OneAuth(q)
  <2>1. IsNodeMap(master)
    BY NodeMapsAre DEF Typed
  <2> QED BY <1>3, <2>1, QueueGreeting
<1> HIDE DEF q
<1>5. toBrowser'[b] = q /\ \A d \in Browser \ {b} : toBrowser'[d] = toBrowser[d]
  BY <1>1 DEF Typed
<1>6. IdsAnywhere' \subseteq IdsAnywhere
  BY <1>1, <1>4, <1>5, IdsHeld, IdsThen
<1>7. OwnersInv'
  <2>1. \A d \in Browser :
           /\ clientId[d] # 0 => clientId[d] \in Issued
           /\ AuthsIn(toBrowser[d]) \subseteq Issued /\ OneAuth(toBrowser[d])
    BY DEF Owned, OwnersInv
  <2>2. \A d \in Browser : /\ clientId'[d] # 0 => clientId'[d] \in Issued'
                           /\ AuthsIn(toBrowser'[d]) \subseteq Issued' /\ OneAuth(toBrowser'[d])
    BY <1>1, <1>3, <1>4, <1>5, <2>1
  <2>3. \A d, e \in Browser : d # e /\ clientId'[d] # 0 => clientId'[d] # clientId'[e]
    BY <1>1 DEF Owned, OwnersInv
  <2>4. \A d, e \in Browser : clientId'[d] \notin AuthsIn(toBrowser'[e])
    <3>1. \A d \in Browser : clientId[d] # c
      BY <1>3, <2>1
    <3> QED BY <1>1, <1>4, <1>5, <3>1 DEF Owned, OwnersInv
  <2>5. \A d, e \in Browser :
           d # e => AuthsIn(toBrowser'[d]) \cap AuthsIn(toBrowser'[e]) = {}
    <3>1. \A d \in Browser : c \notin AuthsIn(toBrowser[d])
      BY <1>3, <2>1
    <3>2. ASSUME NEW d \in Browser, NEW e \in Browser, d # e
          PROVE  AuthsIn(toBrowser'[d]) \cap AuthsIn(toBrowser'[e]) = {}
      <4>1. CASE d # b /\ e # b
        BY <1>5, <3>2, <4>1 DEF Owned, OwnersInv
      <4>2. CASE d = b
        BY <1>4, <1>5, <3>1, <3>2, <4>2
      <4>3. CASE e = b
        BY <1>4, <1>5, <3>1, <3>2, <4>3
      <4> QED BY <4>1, <4>2, <4>3
    <3> QED BY <3>2
  <2>6. \A n \in IdsAnywhere' : n[1] \in Issued'
    BY <1>3, <1>6 DEF Owned, OwnersInv
  <2> QED BY <2>2, <2>3, <2>4, <2>5, <2>6 DEF OwnersInv
<1>8. ASSUME NEW n \in IdsAnywhere', NEW d \in Browser
      PROVE  /\ n[1] = clientId'[d] => n[2] <= sequence'[d]
             /\ n[1] \notin AuthsIn(toBrowser'[d])
  <2>1. n \in IdsAnywhere /\ n[1] \in Issued
    BY <1>6 DEF Owned, OwnersInv
  <2> QED BY <1>1, <1>3, <1>4, <1>5, <2>1 DEF Owned, SequenceLeads
<1> QED BY <1>7, <1>8 DEF Owned, SequenceLeads

(* The rest of the server only passes on what there is.                        *)
LEMMA ServerOwned ==
  ASSUME Typed, Typed', Owned, Server, \A b \in Browser : ~OnOpen(b)
  PROVE  Owned'
<1>1. ASSUME NEW b \in Browser, OnMessage(b) PROVE Owned'
  <2> DEFINE ns     == Head(toServer[b]).nodes
             merged == NodesMerged(master, ns)
  <2>1. /\ toServer[b] \in Seq(StateMessage) /\ toServer[b] # << >>
        /\ toBrowser[b] \in Seq(Message)
        /\ master' = merged
        /\ toBrowser' = [toBrowser EXCEPT ![b] = Append(@, ListState(merged))]
        /\ toServer' = [toServer EXCEPT ![b] = Tail(@)]
        /\ UNCHANGED <<minted, late, clientId, sequence, nodes>>
    BY <1>1 DEF OnMessage, Typed, page
  <2>2. /\ Head(toServer[b]) \in StateMessage
        /\ StatesIn(Tail(toServer[b])) \subseteq StatesIn(toServer[b])
        /\ Head(toServer[b]).type = "list_state" => ns \in StatesIn(toServer[b])
    BY <2>1, QueueTail
  <2>3. ns \in NodeMaps /\ ns \in StatesIn(toServer[b])
    BY <2>2 DEF StateMessage
  <2> HIDE DEF ns
  <2>4. merged \in NodeMaps /\ DOMAIN merged \subseteq DOMAIN master \cup DOMAIN ns
    BY <2>3, MergedState DEF Typed
  <2> HIDE DEF merged
  <2>5. /\ ListState(merged) \in Message
        /\ ListState(merged).type = "list_state" /\ ListState(merged).nodes = merged
    BY <2>4, NodeMapsAre, ListStateIs
  <2>6. /\ StatesIn(Append(toBrowser[b], ListState(merged))) = StatesIn(toBrowser[b]) \cup {merged}
        /\ AuthsIn(Append(toBrowser[b], ListState(merged))) = AuthsIn(toBrowser[b])
        /\ OneAuth(toBrowser[b]) => OneAuth(Append(toBrowser[b], ListState(merged)))
    BY <2>1, <2>5, QueueAppend
  <2>7. /\ toBrowser'[b] = Append(toBrowser[b], ListState(merged))
        /\ toServer'[b] = Tail(toServer[b])
        /\ \A d \in Browser \ {b} : toBrowser'[d] = toBrowser[d] /\ toServer'[d] = toServer[d]
    BY <2>1 DEF Typed
  <2>8. DOMAIN merged \subseteq IdsAnywhere
    BY <2>3, <2>4, IdsHeld
  <2>9. IdsAnywhere' \subseteq IdsAnywhere
    BY <2>1, <2>2, <2>6, <2>7, <2>8, IdsHeld, IdsThen
  <2>10. \A d \in Browser : AuthsIn(toBrowser'[d]) \subseteq AuthsIn(toBrowser[d])
                            /\ OneAuth(toBrowser'[d])
    BY <2>6, <2>7 DEF Owned, OwnersInv
  <2>11. \A d \in Browser : clientId'[d] = clientId[d] /\ sequence'[d] >= sequence[d]
    BY <2>1 DEF Typed
  <2> QED BY <2>1, <2>9, <2>10, <2>11, QuietOwned
<1>2. CASE OnLateMessage
  <2>1. PICK ns \in late : master' = NodesMerged(master, ns) /\ late' = late \ {ns}
    BY <1>2 DEF OnLateMessage
  <2>2. UNCHANGED <<minted, toServer, toBrowser, clientId, sequence, nodes>>
    BY <1>2 DEF OnLateMessage, page
  <2>3. DOMAIN master' \subseteq DOMAIN master \cup DOMAIN ns
    BY <2>1, MergedState DEF Typed
  <2>4. IdsAnywhere' \subseteq IdsAnywhere
    BY <2>1, <2>2, <2>3, IdsHeld, IdsThen
  <2>5. \A d \in Browser : clientId'[d] = clientId[d] /\ sequence'[d] >= sequence[d]
    BY <2>2 DEF Typed
  <2>6. \A d \in Browser : AuthsIn(toBrowser'[d]) \subseteq AuthsIn(toBrowser[d])
                           /\ OneAuth(toBrowser'[d])
    BY <2>2 DEF Owned, OwnersInv
  <2> QED BY <2>2, <2>4, <2>5, <2>6, QuietOwned
<1>3. CASE Crash \/ Restart
  <2>1. /\ UNCHANGED <<minted, toBrowser, clientId, sequence, nodes>>
        /\ DOMAIN master' \subseteq DOMAIN master /\ late' \subseteq late
        /\ \A d \in Browser : StatesIn(toServer'[d]) \subseteq StatesIn(toServer[d])
    BY <1>3, EmptyTyped, EmptyQueue DEF Crash, Restart, page, wire
  <2>4. IdsAnywhere' \subseteq IdsAnywhere
    BY <2>1, IdsHeld, IdsThen
  <2>5. \A d \in Browser : clientId'[d] = clientId[d] /\ sequence'[d] >= sequence[d]
    BY <2>1 DEF Typed
  <2>6. \A d \in Browser : AuthsIn(toBrowser'[d]) \subseteq AuthsIn(toBrowser[d])
                           /\ OneAuth(toBrowser'[d])
    BY <2>1 DEF Owned, OwnersInv
  <2> QED BY <2>1, <2>4, <2>5, <2>6, QuietOwned
<1> QED BY <1>1, <1>2, <1>3 DEF Server, Serve

(* Losing connections and pages makes no id.                                   *)
LEMMA TransportOwned ==
  ASSUME Typed, Typed', Owned, NEW b \in Browser,
         Lose(b) \/ OnClose(b) \/ Reconnect(b) \/ Reload(b)
  PROVE  Owned'
<1>1. /\ UNCHANGED <<master, minted>>
      /\ late' \subseteq late \cup StatesIn(toServer[b])
      /\ \A d \in Browser : toServer'[d] = toServer[d] \/ toServer'[d] = << >>
      /\ \A d \in Browser : toBrowser'[d] = toBrowser[d] \/ toBrowser'[d] = << >>
      /\ \A d \in Browser : nodes'[d] = nodes[d] \/ nodes'[d] = EmptyNodes
      /\ \A d \in Browser :
            clientId'[d] = 0 \/ (clientId'[d] = clientId[d] /\ sequence'[d] = sequence[d])
  <2>1. CASE Lose(b)
    BY <2>1 DEF Lose, server, page, Typed
  <2>2. CASE OnClose(b)
    BY <2>2 DEF OnClose, server, page, Typed
  <2>3. CASE Reconnect(b)
    BY <2>3 DEF Reconnect, server, page, Typed
  <2>4. CASE Reload(b)
    BY <2>4 DEF Reload, server, Typed
  <2> QED BY <2>1, <2>2, <2>3, <2>4
<1>2. IdsAnywhere' \subseteq IdsAnywhere
  <2>1. \A d \in Browser : /\ StatesIn(toServer'[d]) \subseteq StatesIn(toServer[d])
                           /\ StatesIn(toBrowser'[d]) \subseteq StatesIn(toBrowser[d])
                           /\ DOMAIN nodes'[d] \subseteq DOMAIN nodes[d]
    BY <1>1, EmptyQueue, EmptyTyped
  <2> QED BY <1>1, <2>1, IdsHeld, IdsThen
<1>3. \A d \in Browser : AuthsIn(toBrowser'[d]) \subseteq AuthsIn(toBrowser[d])
                         /\ OneAuth(toBrowser'[d])
  BY <1>1, EmptyQueue DEF Owned, OwnersInv
<1>4. \A d \in Browser :
         clientId'[d] = 0 \/ (clientId'[d] = clientId[d] /\ sequence'[d] >= sequence[d])
  BY <1>1 DEF Typed
<1> QED BY <1>1, <1>2, <1>3, <1>4, QuietOwned

(* What a page reads: the id it was handed becomes its own.                    *)
LEMMA EventOwned ==
  ASSUME Typed, Typed', Owned, NEW b \in Browser, OnEvent(b)
  PROVE  Owned'
<1>1. /\ toBrowser[b] \in Seq(Message) /\ toBrowser[b] # << >>
      /\ toBrowser' = [toBrowser EXCEPT ![b] = Tail(@)]
      /\ UNCHANGED <<master, minted, late, toServer>>
  BY DEF OnEvent, Typed, server
<1>2. /\ Tail(toBrowser[b]) \in Seq(Message) /\ Incoming(b) \in Message
      /\ StatesIn(Tail(toBrowser[b])) \subseteq StatesIn(toBrowser[b])
      /\ AuthsIn(Tail(toBrowser[b])) \subseteq AuthsIn(toBrowser[b])
      /\ Incoming(b).type = "list_state" => Incoming(b).nodes \in StatesIn(toBrowser[b])
      /\ Incoming(b).type = "auth" => Incoming(b).id \in AuthsIn(toBrowser[b])
      /\ OneAuth(Tail(toBrowser[b]))
      /\ Incoming(b).type = "auth" => AuthsIn(Tail(toBrowser[b])) = {}
  <2>1. OneAuth(toBrowser[b])
    BY DEF Owned, OwnersInv
  <2> QED BY <1>1, <2>1, QueueTail DEF Incoming
<1>3. /\ toBrowser'[b] = Tail(toBrowser[b])
      /\ \A d \in Browser \ {b} : toBrowser'[d] = toBrowser[d]
  BY <1>1 DEF Typed
<1>4. \A d \in Browser : /\ StatesIn(toBrowser'[d]) \subseteq StatesIn(toBrowser[d])
                         /\ AuthsIn(toBrowser'[d]) \subseteq AuthsIn(toBrowser[d])
                         /\ OneAuth(toBrowser'[d])
  BY <1>2, <1>3 DEF Owned, OwnersInv
<1>5. ASSUME \A d \in Browser : DOMAIN nodes'[d] \subseteq IdsAnywhere
      PROVE  IdsAnywhere' \subseteq IdsAnywhere
  BY <1>1, <1>4, <1>5, IdsHeld, IdsThen
<1>6. CASE OnOpened(b)
  <2>1. UNCHANGED <<clientId, sequence, nodes>>
    BY <1>6 DEF OnOpened, page
  <2>2. \A d \in Browser : clientId'[d] = clientId[d] /\ sequence'[d] >= sequence[d]
    BY <2>1 DEF Typed
  <2>3. IdsAnywhere' \subseteq IdsAnywhere
    BY <1>5, <2>1, IdsHeld
  <2> QED BY <1>1, <1>4, <2>2, <2>3, QuietOwned
<1>7. CASE OnListState(b)
  <2>1. /\ Incoming(b).type = "list_state"
        /\ nodes' = [nodes EXCEPT ![b] = NodesMerged(@, Incoming(b).nodes)]
        /\ sequence' = [sequence EXCEPT ![b] = Advanced(@, clientId[b], Incoming(b).nodes)]
        /\ UNCHANGED clientId
    BY <1>7 DEF OnListState
  <2>2. Incoming(b).nodes \in NodeMaps
    BY <1>2, <2>1, QueueTyped
  <2>3. DOMAIN NodesMerged(nodes[b], Incoming(b).nodes)
          \subseteq DOMAIN nodes[b] \cup DOMAIN Incoming(b).nodes
    BY <2>2, MergedState DEF Typed
  <2>4. \A d \in Browser : DOMAIN nodes'[d] \subseteq IdsAnywhere
    <3>1. DOMAIN nodes'[b] \subseteq IdsAnywhere
      BY <1>2, <2>1, <2>3, IdsHeld DEF Typed
    <3> QED BY <2>1, <3>1, IdsHeld DEF Typed
  <2>5. sequence[b] \in Nat
        /\ Advanced(sequence[b], clientId[b], Incoming(b).nodes) >= sequence[b]
    BY <2>2, AdvancedIs DEF Typed
  <2>6. \A d \in Browser : clientId'[d] = clientId[d] /\ sequence'[d] >= sequence[d]
    BY <2>1, <2>5 DEF Typed
  <2> QED BY <1>1, <1>4, <1>5, <2>4, <2>6, QuietOwned
<1>8. CASE OnAuth(b)
  <2> DEFINE c == Incoming(b).id
  <2>1. /\ Incoming(b).type = "auth"
        /\ clientId' = [clientId EXCEPT ![b] = c]
        /\ UNCHANGED <<sequence, nodes>>
    BY <1>8 DEF OnAuth
  <2>2. c \in AuthsIn(toBrowser[b]) /\ AuthsIn(toBrowser'[b]) = {} /\ c \in Issued
    BY <1>2, <1>3, <2>1 DEF Owned, OwnersInv
  <2> HIDE DEF c
  <2>3. clientId'[b] = c /\ \A d \in Browser \ {b} : clientId'[d] = clientId[d]
    BY <2>1 DEF Typed
  <2>4. IdsAnywhere' \subseteq IdsAnywhere
    BY <1>5, <2>1, IdsHeld
  <2>5. Issued' = Issued
    BY <1>1 DEF Issued
  <2>6. \A d \in Browser : d # b => c \notin AuthsIn(toBrowser[d]) /\ clientId[d] # c
    BY <2>2 DEF Owned, OwnersInv
  <2>7. OwnersInv'
    <3>1. \A d \in Browser : /\ clientId'[d] # 0 => clientId'[d] \in Issued'
                             /\ AuthsIn(toBrowser'[d]) \subseteq Issued'
      BY <1>4, <2>2, <2>3, <2>5 DEF Owned, OwnersInv
    <3>2. \A d, e \in Browser : d # e /\ clientId'[d] # 0 => clientId'[d] # clientId'[e]
      BY <2>3, <2>6 DEF Owned, OwnersInv
    <3>3. \A d, e \in Browser : clientId'[d] \notin AuthsIn(toBrowser'[e])
      BY <1>4, <2>2, <2>3, <2>6 DEF Owned, OwnersInv
    <3>4. \A d, e \in Browser :
             d # e => AuthsIn(toBrowser'[d]) \cap AuthsIn(toBrowser'[e]) = {}
      BY <1>4 DEF Owned, OwnersInv
    <3>5. \A n \in IdsAnywhere' : n[1] \in Issued'
      BY <2>4, <2>5 DEF Owned, OwnersInv
    <3> QED BY <1>4, <3>1, <3>2, <3>3, <3>4, <3>5 DEF OwnersInv
  <2>8. SequenceLeads'
    <3>1. ASSUME NEW n \in IdsAnywhere', NEW d \in Browser
          PROVE  /\ n[1] = clientId'[d] => n[2] <= sequence'[d]
                 /\ n[1] \notin AuthsIn(toBrowser'[d])
      BY <1>4, <2>1, <2>2, <2>3, <2>4 DEF Owned, SequenceLeads
    <3> QED BY <3>1 DEF SequenceLeads
  <2> QED BY <2>7, <2>8 DEF Owned
<1> QED BY <1>6, <1>7, <1>8 DEF OnEvent

(* A user deletes elements that are there, sends what the page holds, and      *)
(* gives a new element an id past every id the page may have made.             *)
LEMMA UserOwned ==
  ASSUME Typed, Typed', Owned, NEW b \in Browser
  PROVE  /\ Sync(b) => Owned'
         /\ \A v \in Value : ListAddAtEnd(b, v) => Owned'
         /\ \A n \in DOMAIN nodes[b] : ListDelete(b, n) => Owned'
<1>1. ASSUME Sync(b) PROVE Owned'
  <2> DEFINE q == Append(toServer[b], ListState(nodes[b]))
  <2>1. /\ UNCHANGED <<master, minted, late, toBrowser, clientId, sequence, nodes>>
        /\ toServer' = [toServer EXCEPT ![b] = q]
    BY <1>1 DEF Sync, server, page
  <2>2. StatesIn(q) = StatesIn(toServer[b]) \cup {nodes[b]}
    <3>1. /\ toServer[b] \in Seq(StateMessage) /\ ListState(nodes[b]) \in StateMessage
          /\ ListState(nodes[b]).type = "list_state" /\ ListState(nodes[b]).nodes = nodes[b]
      BY NodeMapsAre, ListStateIs DEF Typed
    <3> QED BY <3>1, QueueAppend
  <2> HIDE DEF q
  <2>3. \A d \in Browser : \A ns \in StatesIn(toServer'[d]) : DOMAIN ns \subseteq IdsAnywhere
    BY <2>1, <2>2, IdsHeld DEF Typed
  <2>4. IdsAnywhere' \subseteq IdsAnywhere
    BY <2>1, <2>3, IdsHeld, IdsThen
  <2>5. \A d \in Browser : clientId'[d] = clientId[d] /\ sequence'[d] >= sequence[d]
    BY <2>1 DEF Typed
  <2>6. \A d \in Browser : AuthsIn(toBrowser'[d]) \subseteq AuthsIn(toBrowser[d])
                           /\ OneAuth(toBrowser'[d])
    BY <2>1 DEF Owned, OwnersInv
  <2> QED BY <2>1, <2>4, <2>5, <2>6, QuietOwned
<1>2. ASSUME NEW v \in Value, ListAddAtEnd(b, v) PROVE Owned'
  <2> DEFINE id == NextId(clientId[b], sequence[b])
  <2>1. PICK last \in Visible(nodes[b]) \cup {Head0} :
           nodes' = [nodes EXCEPT ![b] = WithNode(@, id, last, v)]
    BY <1>2 DEF ListAddAtEnd
  <2>2. /\ UNCHANGED <<master, minted, late, toServer, toBrowser, clientId>>
        /\ sequence' = [sequence EXCEPT ![b] = @ + 1]
        /\ clientId[b] # 0
    BY <1>2 DEF ListAddAtEnd, server, wire
  <2>3. last \in Place
    BY NodeMapsAre DEF Visible, Typed, IsNodeMap, Place
  <2>4. id \in Id /\ id[1] = clientId[b] /\ id[2] = sequence[b] + 1
    BY <2>2, NextIdIs
  <2> HIDE DEF id
  <2>5. DOMAIN WithNode(nodes[b], id, last, v) = DOMAIN nodes[b] \cup {id}
    <3>1. nodes[b] \in NodeMaps
      BY DEF Typed
    <3>2. id \in Id /\ last \in Place
      BY <2>3, <2>4
    <3> HIDE <2>1
    <3> QED BY <3>1, <3>2, WithNodeIs
  <2>6. \A d \in Browser : DOMAIN nodes'[d] \subseteq IdsAnywhere \cup {id}
    BY <2>1, <2>5, IdsHeld DEF Typed
  <2>7. IdsAnywhere' \subseteq IdsAnywhere \cup {id}
    BY <2>2, <2>6, IdsHeld, IdsThen
  <2>8. Issued' = Issued /\ clientId[b] \in Issued
    BY <2>2 DEF Issued, Owned, OwnersInv
  <2>9. OwnersInv'
    <3>1. \A n \in IdsAnywhere' : n[1] \in Issued'
      BY <2>4, <2>7, <2>8 DEF Owned, OwnersInv
    <3> QED BY <2>2, <2>8, <3>1 DEF Owned, OwnersInv
  <2>10. /\ \A d \in Browser : sequence[d] \in Nat /\ sequence'[d] \in Nat
         /\ \A d \in Browser : sequence'[d] >= sequence[d]
         /\ sequence'[b] = sequence[b] + 1
    BY <2>2 DEF Typed
  <2>11. ASSUME NEW n \in IdsAnywhere', NEW d \in Browser
         PROVE  /\ n[1] = clientId'[d] => n[2] <= sequence'[d]
                /\ n[1] \notin AuthsIn(toBrowser'[d])
    <3>1. CASE n \in IdsAnywhere
      <4>1. n[2] \in Nat
        BY <3>1, IdsTyped
      <4>2. /\ n[1] = clientId[d] => n[2] <= sequence[d]
            /\ n[1] \notin AuthsIn(toBrowser[d])
        BY <3>1 DEF Owned, SequenceLeads
      <4> QED BY <2>2, <2>10, <4>1, <4>2
    <3>2. CASE n = id
      <4>1. clientId[b] \notin AuthsIn(toBrowser[d]) /\ (d # b => clientId[d] # clientId[b])
        BY <2>2 DEF Owned, OwnersInv
      <4> QED BY <2>2, <2>4, <2>10, <3>2, <4>1
    <3> QED BY <2>7, <2>11, <3>1, <3>2
  <2> QED BY <2>9, <2>11 DEF Owned, SequenceLeads
<1>3. ASSUME NEW n \in DOMAIN nodes[b], ListDelete(b, n) PROVE Owned'
  <2>1. /\ UNCHANGED <<master, minted, late, toServer, toBrowser, clientId, sequence>>
        /\ nodes' = [nodes EXCEPT ![b] = [nodes[b] EXCEPT ![n].deleted = TRUE]]
    BY <1>3 DEF ListDelete, server, wire
  <2>2. \A d \in Browser : DOMAIN nodes'[d] = DOMAIN nodes[d]
    BY <2>1, DeletedIs DEF Typed
  <2>3. IdsAnywhere' \subseteq IdsAnywhere
    BY <2>1, <2>2, IdsHeld, IdsThen
  <2>4. \A d \in Browser : clientId'[d] = clientId[d] /\ sequence'[d] >= sequence[d]
    BY <2>1 DEF Typed
  <2>5. \A d \in Browser : AuthsIn(toBrowser'[d]) \subseteq AuthsIn(toBrowser[d])
                           /\ OneAuth(toBrowser'[d])
    BY <2>1 DEF Owned, OwnersInv
  <2> QED BY <2>1, <2>3, <2>4, <2>5, QuietOwned
<1> QED BY <1>1, <1>2, <1>3

(* At first there are no elements and no client ids.                           *)
LEMMA InitOwned == Init => Owned
<1> SUFFICES ASSUME Init PROVE Owned
  OBVIOUS
<1>1. IdsAnywhere = {}
  BY EmptyQueue, EmptyTyped DEF Init, IdsAnywhere, InFlight
<1>2. /\ \A b \in Browser : AuthsIn(toBrowser[b]) = {} /\ OneAuth(toBrowser[b])
      /\ \A b \in Browser : clientId[b] = 0
  BY EmptyQueue DEF Init
<1> QED BY <1>1, <1>2 DEF Owned, OwnersInv, SequenceLeads

(* Every step keeps who may make which ids.                                    *)
LEMMA NextOwned == Typed /\ Owned /\ [Next]_vars => Owned'
<1> SUFFICES ASSUME Typed, Owned, [Next]_vars PROVE Owned'
  OBVIOUS
<1>1. Typed'
  BY NextTyped
<1>2. CASE UNCHANGED vars
  <2>1. UNCHANGED <<master, minted, late, toServer, toBrowser, clientId, sequence, nodes>>
    BY <1>2 DEF vars, server, wire, page
  <2>2. IdsAnywhere' \subseteq IdsAnywhere
    BY <2>1, IdsHeld, IdsThen
  <2>3. \A d \in Browser : clientId'[d] = clientId[d] /\ sequence'[d] >= sequence[d]
    BY <2>1 DEF Typed
  <2>4. \A d \in Browser : AuthsIn(toBrowser'[d]) \subseteq AuthsIn(toBrowser[d])
                           /\ OneAuth(toBrowser'[d])
    BY <2>1 DEF Owned, OwnersInv
  <2> QED BY <1>1, <2>1, <2>2, <2>3, <2>4, QuietOwned
<1>3. CASE Server
  BY <1>1, <1>3, OpenOwned, ServerOwned
<1>4. ASSUME NEW b \in Browser, Lose(b) \/ Page(b) \/ User(b) PROVE Owned'
  BY <1>1, <1>4, TransportOwned, EventOwned, UserOwned DEF Page, User
<1> QED BY <1>2, <1>3, <1>4 DEF Next

(* Whatever states arrive late or twice, and however often connections are     *)
(* lost, the server crashes and pages reload, a page's sequence is at or past  *)
(* every element that bears its client id, anywhere, and an id that was just   *)
(* handed out is borne by none.                                                *)
THEOREM SequenceAlwaysLeads == SystemSpec => []SequenceLeads
<1>1. Owned => SequenceLeads
  BY DEF Owned
<1> QED BY InitTyped, NextTyped, InitOwned, NextOwned, <1>1, PTL DEF SystemSpec

(* An element that is added therefore bears an id that is nowhere else, not    *)
(* even on a tombstone from before a restart.                                  *)
THEOREM ElementsAreFresh == SystemSpec => FreshElement
<1>1. ASSUME Typed, Owned, NEW b \in Browser, NEW v \in Value, ListAddAtEnd(b, v)
      PROVE  NextId(clientId[b], sequence[b]) \notin IdsAnywhere
  <2>1. /\ NextId(clientId[b], sequence[b])[1] = clientId[b]
        /\ NextId(clientId[b], sequence[b])[2] = sequence[b] + 1
        /\ sequence[b] \in Nat
    BY <1>1, NextIdIs DEF ListAddAtEnd, Typed
  <2>2. \A n \in IdsAnywhere : n[1] = clientId[b] => n[2] <= sequence[b]
    BY <1>1 DEF Owned, SequenceLeads
  <2> QED BY <2>1, <2>2
<1>2. Typed /\ Owned /\ [Next]_vars =>
        [\A b \in Browser, v \in Value :
           ListAddAtEnd(b, v) => NextId(clientId[b], sequence[b]) \notin IdsAnywhere]_vars
  BY <1>1
<1> QED BY InitTyped, NextTyped, InitOwned, NextOwned, <1>2, PTL DEF SystemSpec, FreshElement
================================================================================

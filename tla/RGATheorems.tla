------------------------------ MODULE RGATheorems ------------------------------
(* Lemmas about the operators of RGA.tla, used by the proofs about replicas    *)
(* and about the loops of merge() and apply().                                 *)
EXTENDS RGA, FiniteSetTheorems, FunctionTheorems, TLAPS

-----------------------------------------------------------------------------
(* The order of ids.                                                           *)

(* What a pair is made of, and that its parts make it.                        *)
LEMMA PairsAre ==
  ASSUME NEW C, NEW D
  PROVE  /\ \A a \in C \X D : a[1] \in C /\ a[2] \in D
         /\ \A a, b \in C \X D : a[1] = b[1] /\ a[2] = b[2] => a = b
  OBVIOUS

(* operator< on ids is a strict total order.                                   *)
LEMMA BeforeIsOrder ==
  /\ \A a \in Id : ~Before(a, a)
  /\ \A a, b \in Id : Before(a, b) \/ Before(b, a) \/ a = b
  /\ \A a, b \in Id : ~(Before(a, b) /\ Before(b, a))
  /\ \A a, b, c \in Id : Before(a, b) /\ Before(b, c) => Before(a, c)
<1>1. /\ \A a \in Id : a[1] \in Nat /\ a[2] \in Nat
      /\ \A a, b \in Id : a[1] = b[1] /\ a[2] = b[2] => a = b
  BY PairsAre, ClientAssumption DEF Id
<1>2. \A a \in Id : ~Before(a, a)
  BY <1>1 DEF Before
<1>3. \A a, b \in Id : Before(a, b) \/ Before(b, a) \/ a = b
  BY <1>1 DEF Before
<1>4. \A a, b \in Id : ~(Before(a, b) /\ Before(b, a))
  BY <1>1 DEF Before
<1>5. \A a, b, c \in Id : Before(a, b) /\ Before(b, c) => Before(a, c)
  BY <1>1 DEF Before
<1> QED BY <1>2, <1>3, <1>4, <1>5

(* The head is no element.                                                     *)
LEMMA HeadIsNoId == Head0 \notin Id
  BY ClientAssumption DEF Head0, Id

(* std::ranges::sort of a finite set of ids exists and holds just those ids:   *)
(* SortIds chooses an existing value.  The proof ranks each id by how many     *)
(* come before it and inverts that.                                            *)
LEMMA SortIdsSorts ==
  ASSUME NEW S, S \subseteq Id, IsFiniteSet(S)
  PROVE  /\ SortIds(S) \in [1..Cardinality(S) -> S]
         /\ IsSortedListOf(SortIds(S), S)
<1> DEFINE n == Cardinality(S)
           Lower(x) == {y \in S : Before(y, x)}
           rank == [x \in S |-> Cardinality(Lower(x)) + 1]
<1>1. n \in Nat
  BY FS_CardinalityType
<1>2. \A x \in S : IsFiniteSet(Lower(x)) /\ Cardinality(Lower(x)) \in Nat
  BY FS_Subset, FS_CardinalityType
<1>a. \A x \in S : rank[x] = Cardinality(Lower(x)) + 1
  OBVIOUS
<1>b. \A x, y \in S : y \in Lower(x) <=> Before(y, x)
  OBVIOUS
<1>c. \A x \in S : Lower(x) \subseteq S
  OBVIOUS
<1>d. DOMAIN rank = S /\ rank = [x \in S |-> rank[x]]
  OBVIOUS
<1>e. Cardinality(S) = n
  OBVIOUS
<1> HIDE DEF n, Lower, rank
<1>3. ASSUME NEW x \in S, NEW y \in S, Before(x, y)
      PROVE  rank[x] < rank[y]
  <2>1. Lower(x) \subseteq Lower(y)
    BY <1>3, <1>b, <1>c, BeforeIsOrder
  <2>2. x \in Lower(y) /\ x \notin Lower(x)
    BY <1>3, <1>b, BeforeIsOrder
  <2>3. /\ Cardinality(Lower(x)) <= Cardinality(Lower(y))
        /\ Cardinality(Lower(x)) # Cardinality(Lower(y))
    BY <1>2, <2>1, <2>2, FS_Subset
  <2> QED BY <1>2, <1>a, <2>3
<1>4. ASSUME NEW x \in S PROVE rank[x] \in 1..n
  <2>1. Lower(x) \subseteq S \ {x}
    BY <1>b, <1>c, BeforeIsOrder
  <2>2. IsFiniteSet(S \ {x}) /\ Cardinality(S \ {x}) = n - 1
    BY <1>e, FS_RemoveElement
  <2>3. Cardinality(Lower(x)) <= n - 1
    BY <2>1, <2>2, FS_Subset
  <2> QED BY <1>1, <1>2, <1>a, <2>3
<1>5. rank \in Injection(S, 1..n)
  <2>1. rank \in [S -> 1..n]
    BY <1>4, <1>d
  <2>2. \A x, y \in S : rank[x] = rank[y] => x = y
    <3>1. \A x, y \in S : x # y => rank[x] < rank[y] \/ rank[y] < rank[x]
      BY <1>3, BeforeIsOrder
    <3>2. \A x \in S : rank[x] \in Int
      BY <1>4
    <3> QED BY <3>1, <3>2
  <2> QED BY <2>1, <2>2, Fun_IsInj
<1>6. rank \in Surjection(S, 1..n)
  <2>1. IsFiniteSet(1..n) /\ Cardinality(1..n) = n
    BY <1>1, FS_Interval
  <2> QED BY <1>5, <1>e, <2>1, FS_Injection
<1> DEFINE s == [i \in 1..n |-> CHOOSE x \in S : rank[x] = i]
<1>7. \A i \in 1..n : s[i] \in S /\ rank[s[i]] = i
  <2>1. \A i \in 1..n : \E x \in S : rank[x] = i
    BY <1>6, Fun_SurjectionProperties
  <2> QED BY <2>1
<1>8. s \in [1..n -> S]
  BY <1>7
<1> HIDE DEF s
<1>9. IsSortedListOf(s, S)
  <2>1. ASSUME NEW x \in S PROVE \E i \in DOMAIN s : s[i] = x
    <3>1. rank[x] \in 1..n
      BY <1>4
    <3>2. s[rank[x]] \in S /\ rank[s[rank[x]]] = rank[x]
      BY <3>1, <1>7
    <3>3. \A y, z \in S : rank[y] = rank[z] => y = z
      BY <1>5, Fun_InjectionProperties
    <3>4. s[rank[x]] = x
      BY <3>2, <3>3
    <3> QED BY <1>8, <3>1, <3>4
  <2>2. Range(s) = S
    BY <1>7, <1>8, <2>1 DEF Range
  <2>3. ASSUME NEW i \in DOMAIN s, NEW j \in DOMAIN s, i < j
        PROVE  Before(s[i], s[j])
    <3>1. s[i] \in S /\ s[j] \in S /\ rank[s[i]] < rank[s[j]]
      BY <1>7, <1>8, <2>3
    <3>2. rank[s[i]] \in Int /\ rank[s[j]] \in Int
      BY <1>4, <3>1
    <3>3. ~Before(s[j], s[i]) /\ s[i] # s[j]
      BY <1>3, <3>1, <3>2
    <3> QED BY <3>1, <3>3, BeforeIsOrder
  <2> QED BY <2>2, <2>3 DEF IsSortedListOf
<1> QED BY <1>8, <1>9, <1>e DEF SortIds

-----------------------------------------------------------------------------
(* Which elements land.                                                        *)

(* The elements that land are closed under landing: no sweep would add one.    *)
LEMMA LandingSaturated ==
  ASSUME NEW known, NEW incoming
  PROVE  Saturated(Landing(known, incoming), known, incoming)
<1> SUFFICES ASSUME NEW n \in DOMAIN incoming,
                    incoming[n].previous_id \in known \cup Landing(known, incoming) \cup {Head0},
                    NEW L \in SUBSET DOMAIN incoming, Saturated(L, known, incoming)
             PROVE  n \in L
  BY DEF Saturated, Landing
<1>1. Landing(known, incoming) \subseteq L
  BY DEF Landing
<1> QED BY <1>1 DEF Saturated

(* They are the fewest: any set that sweeps would not add to contains them.    *)
LEMMA LandingLeast ==
  ASSUME NEW known, NEW incoming, NEW L \in SUBSET DOMAIN incoming,
         Saturated(L, known, incoming)
  PROVE  Landing(known, incoming) \subseteq L
  BY DEF Landing

(* Nothing lands before its predecessor: with n left out the set would still   *)
(* be closed, so n would not have been in it.                                  *)
LEMMA LandingHasPredecessor ==
  ASSUME NEW known, NEW incoming, NEW n \in Landing(known, incoming)
  PROVE  /\ n \in DOMAIN incoming
         /\ incoming[n].previous_id \in known \cup Landing(known, incoming) \cup {Head0}
<1>1. n \in DOMAIN incoming
  BY DEF Landing
<1>2. SUFFICES ASSUME incoming[n].previous_id
                        \notin known \cup Landing(known, incoming) \cup {Head0}
               PROVE  FALSE
  BY <1>1
<1> DEFINE L == Landing(known, incoming) \ {n}
<1>3. L \in SUBSET DOMAIN incoming
  BY DEF Landing
<1>4. ASSUME NEW m \in DOMAIN incoming,
             incoming[m].previous_id \in known \cup L \cup {Head0}
      PROVE  m \in L
  <2>1. m \in Landing(known, incoming)
    BY <1>4, LandingSaturated DEF Saturated
  <2> QED BY <1>2, <1>4, <2>1
<1>5. Saturated(L, known, incoming)
  BY <1>4 DEF Saturated
<1> QED BY <1>3, <1>5, LandingLeast

-----------------------------------------------------------------------------
(* Sibling lists.                                                              *)

(* The value ChildrenWith gives each parent.                                   *)
LEMMA ChildrenWithValue ==
  ASSUME NEW children, NEW fresh
  PROVE  /\ DOMAIN ChildrenWith(children, fresh) =
               DOMAIN children \cup DOMAIN fresh \cup ParentsOf(fresh)
         /\ \A p \in DOMAIN ChildrenWith(children, fresh) :
               ChildrenWith(children, fresh)[p] =
                  IF p \in ParentsOf(fresh) THEN SortIds(Kids(children, p) \cup Below(fresh, p))
                  ELSE IF p \in DOMAIN children THEN children[p]
                  ELSE << >>
         /\ \A p : p \in ParentsOf(fresh) <=> Below(fresh, p) # {}
  BY DEF ChildrenWith, ParentsOf, Below

(* Siblings of any parent are finitely many ids.                               *)
LEMMA KidsAreIds ==
  ASSUME NEW children, IsSiblingMap(children), NEW p
  PROVE  Kids(children, p) \subseteq Id /\ IsFiniteSet(Kids(children, p))
  BY FS_EmptySet DEF IsSiblingMap, Kids

(* The children of each parent after nodes were added, list by list.           *)
LEMMA ChildrenWithKids ==
  ASSUME NEW children, IsSiblingMap(children), NEW fresh, IsNodeMap(fresh)
  PROVE  /\ IsSiblingMap(ChildrenWith(children, fresh))
         /\ \A p : Kids(ChildrenWith(children, fresh), p)
                     = Kids(children, p) \cup Below(fresh, p)
<1> DEFINE after == ChildrenWith(children, fresh)
           All(p) == Kids(children, p) \cup Below(fresh, p)
<1>0. after = [p \in DOMAIN after |-> after[p]]
  BY DEF ChildrenWith
<1>1. /\ DOMAIN after = DOMAIN children \cup DOMAIN fresh \cup ParentsOf(fresh)
      /\ \A p \in DOMAIN after :
            after[p] = IF p \in ParentsOf(fresh) THEN SortIds(All(p))
                       ELSE IF p \in DOMAIN children THEN children[p]
                       ELSE << >>
      /\ \A p : p \in ParentsOf(fresh) <=> Below(fresh, p) # {}
  BY ChildrenWithValue
<1>2. ASSUME NEW p PROVE All(p) \subseteq Id /\ IsFiniteSet(All(p))
  <2>1. Below(fresh, p) \subseteq Id /\ IsFiniteSet(Below(fresh, p))
    BY FS_Subset DEF IsNodeMap, Below
  <2> QED BY <2>1, KidsAreIds, FS_Union
<1>3. Range(<< >>) = {}
  BY DEF Range
<1> HIDE DEF after, All
<1>4. ASSUME NEW p \in DOMAIN after PROVE Range(after[p]) = All(p)
  <2>1. CASE p \in ParentsOf(fresh)
    BY <1>1, <1>2, <2>1, SortIdsSorts DEF IsSortedListOf
  <2>2. CASE p \notin ParentsOf(fresh)
    BY <1>1, <1>3, <2>2 DEF Kids, All
  <2> QED BY <2>1, <2>2
<1>5. \A p : Kids(after, p) = All(p)
  BY <1>1, <1>4 DEF Kids, All
<1>6. DOMAIN after \subseteq Place
  BY <1>1 DEF IsSiblingMap, IsNodeMap, ParentsOf, Node, Place
<1> QED BY <1>0, <1>1, <1>2, <1>4, <1>5, <1>6 DEF IsSiblingMap, after, All

(* Adding no nodes changes nothing.                                            *)
LEMMA ChildrenWithNone ==
  ASSUME NEW children, IsSiblingMap(children), NEW fresh, DOMAIN fresh = {}
  PROVE  ChildrenWith(children, fresh) = children
<1>1. ParentsOf(fresh) = {}
  BY DEF ParentsOf
<1>2. ChildrenWith(children, fresh) = [p \in DOMAIN children |-> children[p]]
  BY <1>1 DEF ChildrenWith
<1> QED BY <1>2 DEF IsSiblingMap

(* Adding nodes one at a time, sorting after each, gives the lists that adding *)
(* them together gives.                                                        *)
LEMMA ChildrenOneByOne ==
  ASSUME NEW children, IsSiblingMap(children), NEW first, IsNodeMap(first),
         NEW one, IsNodeMap(one), NEW both, IsNodeMap(both),
         DOMAIN both = DOMAIN first \cup DOMAIN one,
         \A n \in DOMAIN first : both[n].previous_id = first[n].previous_id,
         \A n \in DOMAIN one : both[n].previous_id = one[n].previous_id
  PROVE  ChildrenWith(ChildrenWith(children, first), one) = ChildrenWith(children, both)
<1> DEFINE middle == ChildrenWith(children, first)
           last   == ChildrenWith(middle, one)
           atOnce == ChildrenWith(children, both)
<1>0. \A p \in DOMAIN middle :
        middle[p] = IF p \in ParentsOf(first) THEN SortIds(Kids(children, p) \cup Below(first, p))
                    ELSE IF p \in DOMAIN children THEN children[p]
                    ELSE << >>
  BY ChildrenWithValue
<1>1. IsSiblingMap(middle) /\ \A p : Kids(middle, p) = Kids(children, p) \cup Below(first, p)
  BY ChildrenWithKids
<1>2. \A p : Below(both, p) = Below(first, p) \cup Below(one, p)
  BY DEF Below
<1>3. ParentsOf(both) = ParentsOf(first) \cup ParentsOf(one)
  BY DEF ParentsOf
<1>4. DOMAIN last = DOMAIN atOnce
  <2>1. DOMAIN last = DOMAIN middle \cup DOMAIN one \cup ParentsOf(one)
    BY ChildrenWithValue
  <2>2. DOMAIN middle = DOMAIN children \cup DOMAIN first \cup ParentsOf(first)
    BY ChildrenWithValue
  <2>3. DOMAIN atOnce = DOMAIN children \cup DOMAIN both \cup ParentsOf(both)
    BY ChildrenWithValue
  <2> QED BY <1>3, <2>1, <2>2, <2>3
<1>5. ASSUME NEW p \in DOMAIN atOnce PROVE last[p] = atOnce[p]
  <2>0. atOnce[p] = IF p \in ParentsOf(both) THEN SortIds(Kids(children, p) \cup Below(both, p))
                    ELSE IF p \in DOMAIN children THEN children[p]
                    ELSE << >>
    BY ChildrenWithValue
  <2>1. last[p] = IF p \in ParentsOf(one) THEN SortIds(Kids(middle, p) \cup Below(one, p))
                  ELSE IF p \in DOMAIN middle THEN middle[p]
                  ELSE << >>
    <3> HIDE DEF middle
    <3>1. p \in DOMAIN ChildrenWith(middle, one)
      BY <1>4
    <3> QED BY <3>1, ChildrenWithValue
  <2>2. p \in DOMAIN middle =>
          middle[p] = IF p \in ParentsOf(first) THEN SortIds(Kids(children, p) \cup Below(first, p))
                      ELSE IF p \in DOMAIN children THEN children[p]
                      ELSE << >>
    BY <1>0
  <2>3. DOMAIN middle = DOMAIN children \cup DOMAIN first \cup ParentsOf(first)
    BY ChildrenWithValue
  <2> HIDE DEF middle, last, atOnce
  <2>4. CASE p \in ParentsOf(one)
    <3>1. Kids(middle, p) \cup Below(one, p) = Kids(children, p) \cup Below(both, p)
      BY <1>1, <1>2
    <3> QED BY <1>3, <2>0, <2>1, <2>4, <3>1
  <2>5. CASE p \notin ParentsOf(one) /\ p \in ParentsOf(first)
    <3>1. Below(one, p) = {}
      BY <2>5 DEF Below, ParentsOf
    <3>2. Below(both, p) = Below(first, p)
      BY <1>2, <3>1
    <3> QED BY <1>3, <2>0, <2>1, <2>2, <2>3, <2>5, <3>2
  <2>6. CASE p \notin ParentsOf(one) /\ p \notin ParentsOf(first)
    BY <1>3, <2>0, <2>1, <2>2, <2>3, <2>6
  <2> QED BY <2>4, <2>5, <2>6
<1>6. last = [p \in DOMAIN last |-> last[p]] /\ atOnce = [p \in DOMAIN atOnce |-> atOnce[p]]
  BY DEF ChildrenWith
<1> QED BY <1>4, <1>5, <1>6

(* Adding nodes to sorted sibling lists, and sorting again, leaves exactly the *)
(* sorted sibling lists of all the nodes, with a list for every one of them.   *)
LEMMA ChildrenStayMirror ==
  ASSUME NEW children, NEW before, NEW after, IsNodeMap(before), IsNodeMap(after),
         Mirrors(children, before), Closed(before), Closed(after),
         DOMAIN before \subseteq DOMAIN after,
         \A n \in DOMAIN before : after[n].previous_id = before[n].previous_id
  PROVE  Mirrors(ChildrenWith(children, NewNodes(before, after)), after)
<1> DEFINE fresh  == NewNodes(before, after)
           result == ChildrenWith(children, fresh)
<1>1. /\ DOMAIN fresh = DOMAIN after \ DOMAIN before
      /\ \A n \in DOMAIN fresh : fresh[n] = after[n]
  BY DEF NewNodes, Restrict
<1>2. /\ DOMAIN result = DOMAIN children \cup DOMAIN fresh \cup ParentsOf(fresh)
      /\ \A p \in DOMAIN result :
            result[p] = IF p \in ParentsOf(fresh) THEN SortIds(Kids(children, p) \cup Below(fresh, p))
                        ELSE IF p \in DOMAIN children THEN children[p]
                        ELSE << >>
      /\ \A p : p \in ParentsOf(fresh) <=> Below(fresh, p) # {}
  BY ChildrenWithValue
<1>3. DOMAIN result = DOMAIN after \cup {Head0}
  <2>1. ParentsOf(fresh) \subseteq DOMAIN after \cup {Head0}
    BY <1>1 DEF Closed, ParentsOf
  <2> QED BY <1>1, <1>2, <2>1 DEF Mirrors
<1>4. \A p : Kids(children, p) = Below(before, p)
  <2>1. \A p \in DOMAIN children :
          Range(children[p]) = Below(before, p)
    BY DEF Mirrors, IsSortedListOf
  <2>2. ASSUME NEW p, p \notin DOMAIN children
        PROVE  Below(before, p) = {}
    BY <2>2 DEF Mirrors, Closed, Below
  <2> QED BY <2>1, <2>2 DEF Kids
<1>5. \A p : Kids(children, p) \cup Below(fresh, p) = Below(after, p)
  BY <1>1, <1>4 DEF Below
<1>6. \A p : Below(after, p) \subseteq Id /\ IsFiniteSet(Below(after, p))
  BY FS_Subset DEF IsNodeMap, Below
<1> HIDE DEF fresh, result
<1>7. ASSUME NEW p \in DOMAIN result PROVE IsSortedListOf(result[p], Below(after, p))
  <2>1. CASE p \in ParentsOf(fresh)
    BY <1>2, <1>5, <1>6, <2>1, SortIdsSorts
  <2>2. CASE p \notin ParentsOf(fresh) /\ p \in DOMAIN children
    <3>1. result[p] = children[p] /\ Below(fresh, p) = {}
      BY <1>2, <2>2
    <3>2. Below(after, p) = Below(before, p)
      BY <1>4, <1>5, <3>1
    <3> QED BY <2>2, <3>1, <3>2 DEF Mirrors
  <2>3. CASE p \notin ParentsOf(fresh) /\ p \notin DOMAIN children
    <3>1. result[p] = << >> /\ Below(fresh, p) = {} /\ Kids(children, p) = {}
      BY <1>2, <2>3 DEF Kids
    <3>2. Below(after, p) = {}
      BY <1>5, <3>1
    <3>3. DOMAIN << >> = {} /\ Range(<< >>) = {}
      BY DEF Range
    <3> QED BY <3>1, <3>2, <3>3 DEF IsSortedListOf
  <2> QED BY <2>1, <2>2, <2>3
<1> QED BY <1>3, <1>7 DEF Mirrors, result, fresh

-----------------------------------------------------------------------------
(* What NewNodes holds.                                                        *)
LEMMA NewNodesAre ==
  ASSUME NEW old, NEW new
  PROVE  /\ DOMAIN NewNodes(old, new) = DOMAIN new \ DOMAIN old
         /\ \A n \in DOMAIN NewNodes(old, new) : NewNodes(old, new)[n] = new[n]
  BY DEF NewNodes, Restrict

(* A part of a node map is a node map.                                         *)
LEMMA NewNodesTyped ==
  ASSUME NEW old, NEW new, IsNodeMap(new)
  PROVE  IsNodeMap(NewNodes(old, new))
  BY FS_Subset DEF NewNodes, Restrict, IsNodeMap

(* NewNodes only looks at what it is to hold.                                  *)
LEMMA NewNodesSame ==
  ASSUME NEW old, NEW a, NEW b, DOMAIN a = DOMAIN b,
         \A n \in DOMAIN a \ DOMAIN old : a[n] = b[n]
  PROVE  NewNodes(old, a) = NewNodes(old, b)
  BY DEF NewNodes, Restrict

-----------------------------------------------------------------------------
(* What landing does to the nodes of a replica.                                *)

(* ORing tombstones into a node.                                               *)
LEMMA TombstoneOr ==
  ASSUME NEW x \in Node, NEW b \in BOOLEAN
  PROVE  /\ [x EXCEPT !.deleted = @ \/ b] \in Node
         /\ [x EXCEPT !.deleted = @ \/ b].previous_id = x.previous_id
         /\ [x EXCEPT !.deleted = @ \/ b].value = x.value
         /\ [x EXCEPT !.deleted = @ \/ b].deleted = (x.deleted \/ b)
  BY DEF Node

(* The value of a node does not change when FALSE is ORed in.                  *)
LEMMA TombstoneOrFalse ==
  ASSUME NEW x \in Node
  PROVE  [x EXCEPT !.deleted = @ \/ FALSE] = x
  BY DEF Node

(* What a replica may gain: nothing leaves its place, or comes back to life,   *)
(* and every chain stays whole.                                                *)
Grown(old, new) ==
    /\ IsNodeMap(new) /\ Closed(new)
    /\ DOMAIN old \subseteq DOMAIN new
    /\ \A n \in DOMAIN old :
          /\ new[n].previous_id = old[n].previous_id
          /\ new[n].value = old[n].value
          /\ old[n].deleted => new[n].deleted

(* The nodes a finite set of changes asks for.                                 *)
LEMMA RequestedAre ==
  ASSUME NEW cs, cs \subseteq Change, IsFiniteSet(cs)
  PROVE  /\ DOMAIN Requested(cs) = {c.element_id : c \in Inserts(cs)}
         /\ \A n \in DOMAIN Requested(cs) :
               /\ TheInsert(cs, n) \in InsertsOf(cs, n)
               /\ Requested(cs)[n] =
                    LET c == TheInsert(cs, n)
                    IN  [previous_id |-> c.previous_id, value |-> c.value, deleted |-> FALSE]
         /\ IsNodeMap(Requested(cs))
<1>1. DOMAIN Requested(cs) = {c.element_id : c \in Inserts(cs)}
  BY DEF Requested
<1>2. ASSUME NEW n \in DOMAIN Requested(cs)
      PROVE  /\ TheInsert(cs, n) \in InsertsOf(cs, n)
             /\ Requested(cs)[n] =
                    LET c == TheInsert(cs, n)
                    IN  [previous_id |-> c.previous_id, value |-> c.value, deleted |-> FALSE]
  <2>1. \E d \in InsertsOf(cs, n) : TRUE
    BY <1>1 DEF InsertsOf
  <2>2. TheInsert(cs, n) \in InsertsOf(cs, n)
    BY <2>1 DEF TheInsert
  <2> QED BY <1>1, <2>2 DEF Requested
<1>3. Inserts(cs) \subseteq Change /\ IsFiniteSet(Inserts(cs))
  BY FS_Subset DEF Inserts
<1>4. IsFiniteSet({c.element_id : c \in Inserts(cs)})
  <2> DEFINE ids == {c.element_id : c \in Inserts(cs)}
             idOf == [c \in Inserts(cs) |-> c.element_id]
  <2>1. idOf \in Surjection(Inserts(cs), ids)
    <3>1. idOf \in [Inserts(cs) -> ids]
      OBVIOUS
    <3>2. \A n \in ids : \E c \in Inserts(cs) : idOf[c] = n
      OBVIOUS
    <3> QED BY <3>1, <3>2, Fun_IsSurj
  <2> QED BY <1>3, <2>1, FS_Surjection
<1>5. \A c \in Inserts(cs) : c.element_id \in Id /\ c.previous_id \in Place /\ c.value \in Value
  BY <1>3 DEF Inserts, Change
<1>6. ASSUME NEW n \in DOMAIN Requested(cs) PROVE Requested(cs)[n] \in Node
  <2> DEFINE c == TheInsert(cs, n)
  <2>1. c \in Inserts(cs)
    BY <1>2 DEF InsertsOf
  <2>2. Requested(cs)[n] = [previous_id |-> c.previous_id, value |-> c.value, deleted |-> FALSE]
    BY <1>2
  <2> HIDE DEF c
  <2> QED BY <1>5, <2>1, <2>2 DEF Node
<1>7. Requested(cs) = [n \in DOMAIN Requested(cs) |-> Requested(cs)[n]]
  BY DEF Requested
<1> QED BY <1>1, <1>2, <1>4, <1>5, <1>6, <1>7 DEF IsNodeMap

(* What lands of a batch, and the nodes it asks for.                           *)
LEMMA LandedAre ==
  ASSUME NEW known, NEW batch, batch \subseteq Change, IsFiniteSet(batch)
  PROVE  /\ Landed(known, batch) \subseteq batch
         /\ DOMAIN Requested(Landed(known, batch)) = Landing(known, Requested(batch))
         /\ \A n \in Landing(known, Requested(batch)) :
               Requested(Landed(known, batch))[n] = Requested(batch)[n]
<1> DEFINE landed  == Landed(known, batch)
           arrived == Landing(known, Requested(batch))
<1>1. landed \subseteq batch /\ IsFiniteSet(landed) /\ landed \subseteq Change
  <2>1. landed \subseteq batch
    BY DEF Landed, Inserts, Deletes
  <2> QED BY <2>1, FS_Subset
<1>2. Inserts(landed) = {c \in Inserts(batch) : c.element_id \in arrived}
  BY DEF Landed, Inserts, Deletes
<1>3. arrived \subseteq {c.element_id : c \in Inserts(batch)}
  BY RequestedAre DEF Landing
<1>4. DOMAIN Requested(landed) = arrived
  <2>1. DOMAIN Requested(landed) = {c.element_id : c \in Inserts(landed)}
    BY <1>1, RequestedAre
  <2> HIDE DEF landed, arrived
  <2> QED BY <1>2, <1>3, <2>1
<1>5. ASSUME NEW n \in arrived PROVE Requested(landed)[n] = Requested(batch)[n]
  <2>1. InsertsOf(landed, n) = InsertsOf(batch, n)
    BY <1>2 DEF InsertsOf
  <2>2. TheInsert(landed, n) = TheInsert(batch, n)
    BY <2>1 DEF TheInsert
  <2>3. n \in DOMAIN Requested(batch)
    BY DEF Landing
  <2> DEFINE c == TheInsert(batch, n)
             d == TheInsert(landed, n)
  <2>4. Requested(batch)[n] = [previous_id |-> c.previous_id, value |-> c.value, deleted |-> FALSE]
    BY <2>3, RequestedAre
  <2>5. Requested(landed)[n] = [previous_id |-> d.previous_id, value |-> d.value, deleted |-> FALSE]
    BY <1>1, <1>4, RequestedAre
  <2> QED BY <2>2, <2>4, <2>5
<1> QED BY <1>1, <1>4, <1>5

(* The elements that the deletes of cs name.                                   *)
ErasedBy(cs) == {c.element_id : c \in Deletes(cs)}

(* new is old with the requested nodes it did not have, and with the erased   *)
(* elements tombstoned.                                                        *)
HasLanded(old, requested, erased, new) ==
    /\ IsNodeMap(new) /\ DOMAIN new = DOMAIN old \cup DOMAIN requested
    /\ \A n \in DOMAIN old : /\ new[n].previous_id = old[n].previous_id
                             /\ new[n].value = old[n].value
                             /\ new[n].deleted = (old[n].deleted \/ n \in erased)
    /\ \A n \in DOMAIN requested \ DOMAIN old :
          /\ new[n].previous_id = requested[n].previous_id
          /\ new[n].value = requested[n].value
          /\ new[n].deleted = (n \in erased)

(* What apply() does to _nodes.                                                *)
LEMMA NodesAfterAre ==
  ASSUME NEW nodes, IsNodeMap(nodes), NEW landed, landed \subseteq Change, IsFiniteSet(landed)
  PROVE  HasLanded(nodes, Requested(landed), ErasedBy(landed), NodesAfter(nodes, landed))
<1> DEFINE known     == DOMAIN nodes
           requested == Requested(landed)
           after     == NodesAfter(nodes, landed)
           arrived   == DOMAIN requested
           erased    == ErasedBy(landed)
           stored    == [n \in known \cup arrived |->
                            IF n \in known THEN nodes[n] ELSE requested[n]]
<1>1. IsNodeMap(requested)
  BY RequestedAre
<1>2. \A n \in known \cup arrived : stored[n] \in Node
  BY <1>1 DEF IsNodeMap
<1>3. after = [n \in known \cup arrived |-> [stored[n] EXCEPT !.deleted = @ \/ n \in erased]]
  BY DEF NodesAfter, ErasedBy
<1>4. /\ \A n \in known : stored[n] = nodes[n]
      /\ \A n \in arrived \ known : stored[n] = requested[n]
  OBVIOUS
<1>5. known \cup arrived \subseteq Id /\ IsFiniteSet(known \cup arrived)
  BY <1>1, FS_Union DEF IsNodeMap
<1>6. \A n \in arrived : requested[n].deleted = FALSE
  <2> TAKE n \in arrived
  <2> DEFINE c == TheInsert(landed, n)
  <2>1. requested[n] = [previous_id |-> c.previous_id, value |-> c.value, deleted |-> FALSE]
    BY RequestedAre
  <2> QED BY <2>1
<1> HIDE DEF known, requested, after, arrived, erased, stored
<1>7. DOMAIN after = known \cup arrived
  BY <1>3
<1>8. ASSUME NEW n \in DOMAIN after
      PROVE  /\ after[n] \in Node
             /\ after[n].previous_id = stored[n].previous_id
             /\ after[n].value = stored[n].value
             /\ after[n].deleted = (stored[n].deleted \/ n \in erased)
  <2> DEFINE x == stored[n]
             b == n \in erased
  <2>1. after[n] = [x EXCEPT !.deleted = @ \/ b]
    BY <1>3, <1>7
  <2>2. x \in Node /\ b \in BOOLEAN
    BY <1>2, <1>7
  <2> HIDE DEF x, b
  <2>3. /\ after[n] \in Node /\ after[n].previous_id = x.previous_id
        /\ after[n].value = x.value /\ after[n].deleted = (x.deleted \/ b)
    BY <2>1, <2>2, TombstoneOr
  <2> QED BY <2>3 DEF x, b
<1>9. after \in [DOMAIN after -> Node]
  <2>1. after = [n \in DOMAIN after |-> after[n]]
    BY <1>3
  <2> QED BY <1>8, <2>1
<1>10. IsNodeMap(after)
  BY <1>5, <1>7, <1>9 DEF IsNodeMap
<1>11. \A n \in known : /\ after[n].previous_id = nodes[n].previous_id
                        /\ after[n].value = nodes[n].value
                        /\ after[n].deleted = (nodes[n].deleted \/ n \in erased)
  BY <1>4, <1>7, <1>8
<1>12. \A n \in arrived \ known : /\ after[n].previous_id = requested[n].previous_id
                                  /\ after[n].value = requested[n].value
  BY <1>4, <1>7, <1>8
<1>13. \A n \in arrived \ known : after[n].deleted = (n \in erased)
  <2> TAKE n \in arrived \ known
  <2>1. stored[n].deleted = FALSE
    BY <1>4, <1>6
  <2>2. after[n].deleted = (stored[n].deleted \/ n \in erased)
    BY <1>7, <1>8
  <2> QED BY <2>1, <2>2
<1> QED BY <1>7, <1>10, <1>11, <1>12, <1>13 
           DEF HasLanded, known, arrived, requested, after, erased

(* Whatever of a batch lands, the replica keeps its nodes in their places,     *)
(* keeps its tombstones, and has every chain whole.                            *)
LEMMA NodesAfterGrows ==
  ASSUME NEW nodes, IsNodeMap(nodes), Closed(nodes),
         NEW batch, batch \subseteq Change, IsFiniteSet(batch)
  PROVE  /\ Grown(nodes, NodesAfter(nodes, Landed(DOMAIN nodes, batch)))
         /\ DOMAIN NodesAfter(nodes, Landed(DOMAIN nodes, batch))
              = DOMAIN nodes \cup Landing(DOMAIN nodes, Requested(batch))
<1> DEFINE known   == DOMAIN nodes
           landed  == Landed(known, batch)
           arrived == Landing(known, Requested(batch))
           after   == NodesAfter(nodes, landed)
<1>0. landed \subseteq Change /\ IsFiniteSet(landed)
  BY LandedAre, FS_Subset
<1>1. /\ DOMAIN Requested(landed) = arrived
      /\ \A n \in arrived : Requested(landed)[n] = Requested(batch)[n]
  BY LandedAre
<1>2. \A n \in arrived : Requested(batch)[n].previous_id \in known \cup arrived \cup {Head0}
  BY LandingHasPredecessor
<1> HIDE DEF landed, arrived
<1>3. HasLanded(nodes, Requested(landed), ErasedBy(landed), after)
  BY <1>0, NodesAfterAre
<1> HIDE DEF after
<1>4. Closed(after)
  BY <1>1, <1>2, <1>3 DEF HasLanded, Closed
<1> QED BY <1>1, <1>3, <1>4 DEF HasLanded, Grown, after, landed, arrived

(* new is old with the nodes of incoming that arrived, and with the tombstones *)
(* of incoming.                                                                *)
HasMerged(old, arrived, incoming, new) ==
    /\ IsNodeMap(new) /\ DOMAIN new = DOMAIN old \cup arrived
    /\ \A n \in DOMAIN old :
          /\ new[n].previous_id = old[n].previous_id
          /\ new[n].value = old[n].value
          /\ new[n].deleted = (old[n].deleted \/ (n \in DOMAIN incoming /\ incoming[n].deleted))
    /\ \A n \in arrived \ DOMAIN old : new[n] = incoming[n]

(* What merge() does to _nodes.                                                *)
LEMMA NodesMergedAre ==
  ASSUME NEW nodes, IsNodeMap(nodes), NEW incoming, IsNodeMap(incoming)
  PROVE  HasMerged(nodes, Landing(DOMAIN nodes, incoming), incoming, NodesMerged(nodes, incoming))
<1> DEFINE known   == DOMAIN nodes
           arrived == Landing(known, incoming)
           after   == NodesMerged(nodes, incoming)
           Erased(n) == n \in DOMAIN incoming /\ incoming[n].deleted
<1>1. after = [n \in known \cup arrived |->
                  IF n \in known THEN [nodes[n] EXCEPT !.deleted = @ \/ Erased(n)]
                  ELSE incoming[n]]
  BY DEF NodesMerged
<1>2. arrived \subseteq DOMAIN incoming
  BY DEF Landing
<1>3. known \cup arrived \subseteq Id /\ IsFiniteSet(known \cup arrived)
  <2>1. IsFiniteSet(arrived) /\ arrived \subseteq Id
    BY <1>2, FS_Subset DEF IsNodeMap
  <2> QED BY <2>1, FS_Union DEF IsNodeMap
<1>4. \A n \in known : nodes[n] \in Node
  BY DEF IsNodeMap
<1>5. \A n \in known : Erased(n) \in BOOLEAN
  BY DEF IsNodeMap, Node
<1>6. \A n \in arrived : incoming[n] \in Node
  BY <1>2 DEF IsNodeMap
<1> HIDE DEF known, arrived, after, Erased
<1>7. DOMAIN after = known \cup arrived
  BY <1>1
<1>8. ASSUME NEW n \in known
      PROVE  /\ after[n] \in Node
             /\ after[n].previous_id = nodes[n].previous_id
             /\ after[n].value = nodes[n].value
             /\ after[n].deleted = (nodes[n].deleted \/ Erased(n))
  <2> DEFINE x == nodes[n]
             b == Erased(n)
  <2>1. after[n] = [x EXCEPT !.deleted = @ \/ b]
    BY <1>1
  <2>2. x \in Node /\ b \in BOOLEAN
    BY <1>4, <1>5
  <2> HIDE DEF x, b
  <2>3. /\ after[n] \in Node /\ after[n].previous_id = x.previous_id
        /\ after[n].value = x.value /\ after[n].deleted = (x.deleted \/ b)
    BY <2>1, <2>2, TombstoneOr
  <2> QED BY <2>3 DEF x, b
<1>9. \A n \in arrived \ known : after[n] = incoming[n]
  BY <1>1
<1>10. after \in [DOMAIN after -> Node]
  <2>1. after = [n \in DOMAIN after |-> after[n]]
    BY <1>1
  <2> QED BY <1>6, <1>7, <1>8, <1>9, <2>1
<1>11. IsNodeMap(after)
  BY <1>3, <1>7, <1>10 DEF IsNodeMap
<1> QED BY <1>7, <1>8, <1>9, <1>11 DEF HasMerged, known, arrived, after, Erased

(* The same of what lands of a state.                                          *)
LEMMA NodesMergedGrows ==
  ASSUME NEW nodes, IsNodeMap(nodes), Closed(nodes),
         NEW incoming, IsNodeMap(incoming)
  PROVE  Grown(nodes, NodesMerged(nodes, incoming))
<1> DEFINE known   == DOMAIN nodes
           arrived == Landing(known, incoming)
           after   == NodesMerged(nodes, incoming)
<1>1. \A n \in arrived : incoming[n].previous_id \in known \cup arrived \cup {Head0}
  BY LandingHasPredecessor
<1>2. HasMerged(nodes, arrived, incoming, after)
  BY NodesMergedAre
<1> HIDE DEF arrived, after
<1>3. Closed(after)
  BY <1>1, <1>2 DEF HasMerged, Closed
<1> QED BY <1>2, <1>3 DEF HasMerged, Grown, after

-----------------------------------------------------------------------------
(* Facts.                                                                      *)

(* A fact says one thing: what kind it is, of which element, and for an insert *)
(* where it goes and with which value.                                         *)
LEMMA FactsDiffer ==
  /\ \A a, b, x, y : InsertFact(a, x) = InsertFact(b, y)
        <=> a = b /\ x.previous_id = y.previous_id /\ x.value = y.value
  /\ \A a, b : DeleteFact(a) = DeleteFact(b) <=> a = b
  /\ \A a, b, x : InsertFact(a, x) # DeleteFact(b)
<1>1. \A a, b, x, y : InsertFact(a, x) = InsertFact(b, y)
         => a = b /\ x.previous_id = y.previous_id /\ x.value = y.value
  <2> TAKE a, b, x, y
  <2>1. /\ InsertFact(a, x).id = a /\ InsertFact(b, y).id = b
        /\ InsertFact(a, x).previous_id = x.previous_id
        /\ InsertFact(b, y).previous_id = y.previous_id
        /\ InsertFact(a, x).value = x.value /\ InsertFact(b, y).value = y.value
    BY DEF InsertFact
  <2> QED BY <2>1
<1>2. \A a, b, x, y : a = b /\ x.previous_id = y.previous_id /\ x.value = y.value
         => InsertFact(a, x) = InsertFact(b, y)
  BY DEF InsertFact
<1>3. \A a, b : DeleteFact(a) = DeleteFact(b) <=> a = b
  <2> TAKE a, b
  <2>1. DeleteFact(a).id = a /\ DeleteFact(b).id = b
    BY DEF DeleteFact
  <2> QED BY <2>1
<1>4. \A a, b, x : InsertFact(a, x) # DeleteFact(b)
  <2> TAKE a, b, x
  <2>1. InsertFact(a, x).kind = "insert" /\ DeleteFact(b).kind = "delete"
    BY DEF InsertFact, DeleteFact
  <2> QED BY <2>1
<1> QED BY <1>1, <1>2, <1>3, <1>4

(* What the facts of a state say of it.                                        *)
LEMMA NodeFacts ==
  ASSUME NEW ns
  PROVE  /\ \A n, x : InsertFact(n, x) \in FactsOfNodes(ns) <=>
               /\ n \in DOMAIN ns
               /\ ns[n].previous_id = x.previous_id /\ ns[n].value = x.value
         /\ \A n : DeleteFact(n) \in FactsOfNodes(ns) <=> n \in DOMAIN ns /\ ns[n].deleted
         /\ \A f \in FactsOfNodes(ns) :
               (\E n, x : f = InsertFact(n, x)) \/ (\E n : f = DeleteFact(n))
<1> DEFINE placed == {InsertFact(n, ns[n]) : n \in DOMAIN ns}
           gone   == {DeleteFact(n) : n \in {m \in DOMAIN ns : ns[m].deleted}}
<1>1. FactsOfNodes(ns) = placed \cup gone
  BY DEF FactsOfNodes
<1>2. \A f : f \in placed <=> \E n \in DOMAIN ns : f = InsertFact(n, ns[n])
  OBVIOUS
<1>3. \A f : f \in gone <=> \E n \in DOMAIN ns : ns[n].deleted /\ f = DeleteFact(n)
  OBVIOUS
<1> HIDE DEF placed, gone
<1>4. \A n, x : InsertFact(n, x) \in FactsOfNodes(ns) <=>
         /\ n \in DOMAIN ns
         /\ ns[n].previous_id = x.previous_id /\ ns[n].value = x.value
  <2> TAKE n, x
  <2>1. InsertFact(n, x) \notin gone
    BY <1>3, FactsDiffer
  <2>2. InsertFact(n, x) \in placed <=> \E m \in DOMAIN ns : InsertFact(n, x) = InsertFact(m, ns[m])
    BY <1>2
  <2> QED BY <1>1, <2>1, <2>2, FactsDiffer
<1>5. \A n : DeleteFact(n) \in FactsOfNodes(ns) <=> n \in DOMAIN ns /\ ns[n].deleted
  <2> TAKE n
  <2>1. DeleteFact(n) \notin placed
    BY <1>2, FactsDiffer
  <2>2. DeleteFact(n) \in gone <=> \E m \in DOMAIN ns : ns[m].deleted /\ DeleteFact(n) = DeleteFact(m)
    BY <1>3
  <2> QED BY <1>1, <2>1, <2>2, FactsDiffer
<1>6. \A f \in FactsOfNodes(ns) :
         (\E n, x : f = InsertFact(n, x)) \/ (\E n : f = DeleteFact(n))
  BY <1>1, <1>2, <1>3
<1> QED BY <1>4, <1>5, <1>6

(* What the facts of a set of changes say of them.                             *)
LEMMA ChangeFacts ==
  ASSUME NEW cs
  PROVE  /\ \A n, x : InsertFact(n, x) \in FactsOfChanges(cs) <=>
               \E c \in Inserts(cs) : /\ c.element_id = n
                                      /\ c.previous_id = x.previous_id /\ c.value = x.value
         /\ \A n : DeleteFact(n) \in FactsOfChanges(cs) <=>
               \E c \in Deletes(cs) : c.element_id = n
         /\ \A f \in FactsOfChanges(cs) :
               (\E n, x : f = InsertFact(n, x)) \/ (\E n : f = DeleteFact(n))
<1> DEFINE placed == {InsertFact(c.element_id, c) : c \in Inserts(cs)}
           gone   == {DeleteFact(c.element_id) : c \in Deletes(cs)}
<1>1. FactsOfChanges(cs) = placed \cup gone
  BY DEF FactsOfChanges
<1>2. \A f : f \in placed <=> \E c \in Inserts(cs) : f = InsertFact(c.element_id, c)
  OBVIOUS
<1>3. \A f : f \in gone <=> \E c \in Deletes(cs) : f = DeleteFact(c.element_id)
  OBVIOUS
<1> HIDE DEF placed, gone
<1>4. \A n, x : InsertFact(n, x) \in FactsOfChanges(cs) <=>
         \E c \in Inserts(cs) : /\ c.element_id = n
                                /\ c.previous_id = x.previous_id /\ c.value = x.value
  <2> TAKE n, x
  <2>1. InsertFact(n, x) \notin gone
    BY <1>3, FactsDiffer
  <2>2. InsertFact(n, x) \in placed
          <=> \E c \in Inserts(cs) : InsertFact(n, x) = InsertFact(c.element_id, c)
    BY <1>2
  <2> QED BY <1>1, <2>1, <2>2, FactsDiffer
<1>5. \A n : DeleteFact(n) \in FactsOfChanges(cs) <=> \E c \in Deletes(cs) : c.element_id = n
  <2> TAKE n
  <2>1. DeleteFact(n) \notin placed
    BY <1>2, FactsDiffer
  <2>2. DeleteFact(n) \in gone <=> \E c \in Deletes(cs) : DeleteFact(n) = DeleteFact(c.element_id)
    BY <1>3
  <2> QED BY <1>1, <2>1, <2>2, FactsDiffer
<1>6. \A f \in FactsOfChanges(cs) :
         (\E n, x : f = InsertFact(n, x)) \/ (\E n : f = DeleteFact(n))
  BY <1>1, <1>2, <1>3
<1> QED BY <1>4, <1>5, <1>6

(* The facts of changes are those of each.                                     *)
LEMMA ChangeFactsUnion ==
  ASSUME NEW cs, NEW ds
  PROVE  FactsOfChanges(cs \cup ds) = FactsOfChanges(cs) \cup FactsOfChanges(ds)
<1>1. /\ Inserts(cs \cup ds) = Inserts(cs) \cup Inserts(ds)
      /\ Deletes(cs \cup ds) = Deletes(cs) \cup Deletes(ds)
  BY DEF Inserts, Deletes
<1> QED BY <1>1 DEF FactsOfChanges

(* More changes say no less.                                                   *)
LEMMA ChangeFactsGrow ==
  ASSUME NEW cs, NEW ds, cs \subseteq ds
  PROVE  FactsOfChanges(cs) \subseteq FactsOfChanges(ds)
  BY DEF FactsOfChanges, Inserts, Deletes

(* The facts of changes are in a set if those of each are.                     *)
LEMMA ChangeFactsEach ==
  ASSUME NEW cs, NEW X, \A c \in cs : FactsOfChanges({c}) \subseteq X
  PROVE  FactsOfChanges(cs) \subseteq X
<1>1. ASSUME NEW c \in Inserts(cs) PROVE InsertFact(c.element_id, c) \in X
  <2>1. c \in cs /\ c \in Inserts({c})
    BY DEF Inserts
  <2> QED BY <2>1 DEF FactsOfChanges
<1>2. ASSUME NEW c \in Deletes(cs) PROVE DeleteFact(c.element_id) \in X
  <2>1. c \in cs /\ c \in Deletes({c})
    BY DEF Deletes
  <2> QED BY <2>1 DEF FactsOfChanges
<1> QED BY <1>1, <1>2 DEF FactsOfChanges

-----------------------------------------------------------------------------
(* Changes with one operation each.                                            *)

(* An operation id names one change of cs.                                     *)
OneEach(cs) == \A c, d \in cs : c.operation_id = d.operation_id => c = d

(* What a set with one insert per id asks for is what that insert says.        *)
LEMMA RequestedIs ==
  ASSUME NEW cs, cs \subseteq Change, OneEach(cs)
  PROVE  /\ \A c \in Inserts(cs) : c.element_id \in DOMAIN Requested(cs)
         /\ \A c \in Inserts(cs) : Requested(cs)[c.element_id].previous_id = c.previous_id
         /\ \A c \in Inserts(cs) : Requested(cs)[c.element_id].value = c.value
         /\ \A c \in Inserts(cs) : Requested(cs)[c.element_id].deleted = FALSE
         /\ \A n \in DOMAIN Requested(cs) : \E c \in Inserts(cs) : c.element_id = n
<1>1. DOMAIN Requested(cs) = {c.element_id : c \in Inserts(cs)}
  BY DEF Requested
<1>2. ASSUME NEW c \in Inserts(cs)
      PROVE  /\ Requested(cs)[c.element_id].previous_id = c.previous_id
             /\ Requested(cs)[c.element_id].value = c.value
             /\ Requested(cs)[c.element_id].deleted = FALSE
  <2> DEFINE n == c.element_id
             d == TheInsert(cs, n)
  <2>1. c \in InsertsOf(cs, n)
    BY DEF InsertsOf
  <2>2. d \in InsertsOf(cs, n)
    BY <2>1 DEF TheInsert
  <2>3. \A e \in InsertsOf(cs, n) : e \in cs /\ e.operation_id = n
    BY DEF InsertsOf, Inserts, Change
  <2>4. d = c
    BY <2>1, <2>2, <2>3 DEF OneEach
  <2>5. Requested(cs)[n] = [previous_id |-> d.previous_id, value |-> d.value, deleted |-> FALSE]
    BY <1>1 DEF Requested
  <2>6. Requested(cs)[n] = [previous_id |-> c.previous_id, value |-> c.value, deleted |-> FALSE]
    BY <2>4, <2>5
  <2> QED BY <2>6
<1> QED BY <1>1, <1>2

(* A larger set asks for the same of the elements of the smaller one.          *)
LEMMA RequestedSame ==
  ASSUME NEW ds, ds \subseteq Change, OneEach(ds), NEW cs, cs \subseteq ds,
         NEW n \in DOMAIN Requested(cs)
  PROVE  /\ n \in DOMAIN Requested(ds)
         /\ Requested(ds)[n].previous_id = Requested(cs)[n].previous_id
         /\ Requested(ds)[n].value = Requested(cs)[n].value
<1>1. OneEach(cs) /\ cs \subseteq Change
  BY DEF OneEach
<1>2. PICK c \in Inserts(cs) : c.element_id = n
  BY <1>1, RequestedIs
<1>3. c \in Inserts(ds)
  BY DEF Inserts
<1>4. /\ c.element_id \in DOMAIN Requested(ds)
      /\ Requested(ds)[c.element_id].previous_id = c.previous_id
      /\ Requested(ds)[c.element_id].value = c.value
  BY <1>3, RequestedIs
<1>5. /\ Requested(cs)[c.element_id].previous_id = c.previous_id
      /\ Requested(cs)[c.element_id].value = c.value
  BY <1>1, RequestedIs
<1> QED BY <1>2, <1>4, <1>5

-----------------------------------------------------------------------------
(* What lands of more changes, and when nothing does.                          *)

(* Changes that come along keep no change from landing.                        *)
LEMMA LandedMore ==
  ASSUME NEW known, NEW ds, ds \subseteq Change, OneEach(ds), NEW cs, cs \subseteq ds
  PROVE  Landed(known, cs) \subseteq Landed(known, ds)
<1> DEFINE few  == Landing(known, Requested(cs))
           many == Landing(known, Requested(ds))
           L    == many \cap DOMAIN Requested(cs)
<1>1. Saturated(L, known, Requested(cs))
  <2> SUFFICES ASSUME NEW n \in DOMAIN Requested(cs),
                      Requested(cs)[n].previous_id \in known \cup L \cup {Head0}
               PROVE  n \in L
    BY DEF Saturated
  <2>1. n \in DOMAIN Requested(ds) /\ Requested(ds)[n].previous_id = Requested(cs)[n].previous_id
    BY RequestedSame
  <2>2. n \in many
    BY <2>1, LandingSaturated DEF Saturated
  <2> QED BY <2>2
<1>2. few \subseteq L
  BY <1>1, LandingLeast
<1>3. Inserts(cs) \subseteq Inserts(ds) /\ Deletes(cs) \subseteq Deletes(ds)
  BY DEF Inserts, Deletes
<1> QED BY <1>2, <1>3 DEF Landed

(* Every change waits for an element that is not known.                        *)
Blocked(known, cs) ==
    /\ \A c \in Inserts(cs) : c.previous_id \notin known \cup {Head0}
    /\ \A c \in Deletes(cs) : c.element_id \notin known

(* Nothing lands just when every change waits.                                 *)
LEMMA LandedNone ==
  ASSUME NEW known, NEW cs, cs \subseteq Change, OneEach(cs)
  PROVE  Landed(known, cs) = {} <=> Blocked(known, cs)
<1> DEFINE arrived == Landing(known, Requested(cs))
<1>1. ASSUME Landed(known, cs) = {} PROVE Blocked(known, cs)
  <2>1. ASSUME NEW c \in Inserts(cs), c.previous_id \in known \cup {Head0} PROVE FALSE
    <3>1. /\ c.element_id \in DOMAIN Requested(cs)
          /\ Requested(cs)[c.element_id].previous_id = c.previous_id
      BY RequestedIs
    <3>2. c.element_id \in arrived
      BY <2>1, <3>1, LandingSaturated DEF Saturated
    <3> QED BY <1>1, <3>2 DEF Landed
  <2>2. ASSUME NEW c \in Deletes(cs), c.element_id \in known PROVE FALSE
    BY <1>1, <2>2 DEF Landed
  <2> QED BY <2>1, <2>2 DEF Blocked
<1>2. ASSUME Blocked(known, cs) PROVE Landed(known, cs) = {}
  <2>1. ASSUME NEW n \in DOMAIN Requested(cs),
               Requested(cs)[n].previous_id \in known \cup {} \cup {Head0}
        PROVE  FALSE
    <3>1. PICK c \in Inserts(cs) : c.element_id = n
      BY RequestedIs
    <3>2. Requested(cs)[n].previous_id = c.previous_id
      BY <3>1, RequestedIs
    <3> QED BY <1>2, <2>1, <3>2 DEF Blocked
  <2>2. Saturated({}, known, Requested(cs))
    BY <2>1 DEF Saturated
  <2>3. arrived = {}
    BY <2>2, LandingLeast
  <2> QED BY <1>2, <2>3 DEF Landed, Blocked
<1> QED BY <1>1, <1>2

-----------------------------------------------------------------------------
(* Changes that land one at a time.                                            *)

(* Two node maps that agree on every field are the same.                       *)
LEMMA SameNodes ==
  ASSUME NEW a, IsNodeMap(a), NEW b, IsNodeMap(b), DOMAIN a = DOMAIN b,
         \A n \in DOMAIN a : /\ a[n].previous_id = b[n].previous_id
                             /\ a[n].value = b[n].value
                             /\ a[n].deleted = b[n].deleted
  PROVE  a = b
<1>1. \A n \in DOMAIN a : a[n] \in Node /\ b[n] \in Node
  BY DEF IsNodeMap
<1>2. \A n \in DOMAIN a : a[n] = b[n]
  BY <1>1 DEF Node
<1> QED BY <1>2 DEF IsNodeMap

(* Landing a change on what others made of a replica gives what they make of   *)
(* it together, as long as nothing was erased that is not there, and an insert *)
(* brings an element that was not.                                             *)
LEMMA NodesAfterOneMore ==
  ASSUME NEW old, IsNodeMap(old),
         NEW cs, NEW c, cs \cup {c} \subseteq Change, IsFiniteSet(cs), OneEach(cs \cup {c}),
         ErasedBy(cs) \subseteq DOMAIN NodesAfter(old, cs),
         c \in Inserts({c}) => c.element_id \notin DOMAIN NodesAfter(old, cs)
  PROVE  NodesAfter(NodesAfter(old, cs), {c}) = NodesAfter(old, cs \cup {c})
<1> DEFINE middle == NodesAfter(old, cs)
           last   == NodesAfter(middle, {c})
           atOnce == NodesAfter(old, cs \cup {c})
<1>1. /\ cs \subseteq Change /\ {c} \subseteq Change
      /\ IsFiniteSet({c}) /\ IsFiniteSet(cs \cup {c})
      /\ OneEach(cs) /\ OneEach({c})
  BY FS_Singleton, FS_AddElement DEF OneEach
<1>2. HasLanded(old, Requested(cs), ErasedBy(cs), middle)
  BY <1>1, NodesAfterAre
<1>3. HasLanded(middle, Requested({c}), ErasedBy({c}), last)
  <2>1. IsNodeMap(middle)
    BY <1>2 DEF HasLanded
  <2> HIDE DEF middle
  <2> QED BY <1>1, <2>1, NodesAfterAre
<1>4. HasLanded(old, Requested(cs \cup {c}), ErasedBy(cs \cup {c}), atOnce)
  BY <1>1, NodesAfterAre
<1>5. /\ DOMAIN Requested(cs \cup {c}) = DOMAIN Requested(cs) \cup DOMAIN Requested({c})
      /\ ErasedBy(cs \cup {c}) = ErasedBy(cs) \cup ErasedBy({c})
  BY DEF Requested, ErasedBy, Inserts, Deletes
<1>6. \A n \in DOMAIN Requested(cs) :
         /\ Requested(cs \cup {c})[n].previous_id = Requested(cs)[n].previous_id
         /\ Requested(cs \cup {c})[n].value = Requested(cs)[n].value
  BY RequestedSame
<1>7. \A n \in DOMAIN Requested({c}) :
         /\ Requested(cs \cup {c})[n].previous_id = Requested({c})[n].previous_id
         /\ Requested(cs \cup {c})[n].value = Requested({c})[n].value
  BY RequestedSame
<1>8. /\ DOMAIN Requested({c}) \cap DOMAIN middle = {}
      /\ ErasedBy(cs) \subseteq DOMAIN middle
  <2>1. DOMAIN Requested({c}) \subseteq {c.element_id}
        /\ (DOMAIN Requested({c}) # {} => c \in Inserts({c}))
    BY DEF Requested, Inserts
  <2> HIDE DEF middle
  <2> QED BY <2>1 DEF middle
<1> HIDE DEF middle, last, atOnce
<1>9. /\ IsNodeMap(last) /\ IsNodeMap(atOnce) /\ DOMAIN last = DOMAIN atOnce
  BY <1>2, <1>3, <1>4, <1>5 DEF HasLanded
<1>10. ASSUME NEW n \in DOMAIN last
       PROVE  /\ last[n].previous_id = atOnce[n].previous_id
              /\ last[n].value = atOnce[n].value
              /\ last[n].deleted = atOnce[n].deleted
  <2>1. CASE n \in DOMAIN old
    <3>1. /\ middle[n].previous_id = old[n].previous_id /\ middle[n].value = old[n].value
          /\ middle[n].deleted = (old[n].deleted \/ n \in ErasedBy(cs))
          /\ n \in DOMAIN middle
      BY <1>2, <2>1 DEF HasLanded
    <3>2. /\ last[n].previous_id = middle[n].previous_id /\ last[n].value = middle[n].value
          /\ last[n].deleted = (middle[n].deleted \/ n \in ErasedBy({c}))
      BY <1>3, <3>1 DEF HasLanded
    <3>3. /\ atOnce[n].previous_id = old[n].previous_id /\ atOnce[n].value = old[n].value
          /\ atOnce[n].deleted = (old[n].deleted \/ n \in ErasedBy(cs \cup {c}))
      BY <1>4, <2>1 DEF HasLanded
    <3> QED BY <1>5, <3>1, <3>2, <3>3
  <2>2. CASE n \notin DOMAIN old /\ n \in DOMAIN Requested(cs)
    <3>1. /\ middle[n].previous_id = Requested(cs)[n].previous_id
          /\ middle[n].value = Requested(cs)[n].value
          /\ middle[n].deleted = (n \in ErasedBy(cs))
          /\ n \in DOMAIN middle
      BY <1>2, <2>2 DEF HasLanded
    <3>2. /\ last[n].previous_id = middle[n].previous_id /\ last[n].value = middle[n].value
          /\ last[n].deleted = (middle[n].deleted \/ n \in ErasedBy({c}))
      BY <1>3, <3>1 DEF HasLanded
    <3>3. /\ atOnce[n].previous_id = Requested(cs \cup {c})[n].previous_id
          /\ atOnce[n].value = Requested(cs \cup {c})[n].value
          /\ atOnce[n].deleted = (n \in ErasedBy(cs \cup {c}))
      BY <1>4, <1>5, <2>2 DEF HasLanded
    <3>4. (n \in ErasedBy(cs \cup {c})) = (n \in ErasedBy(cs) \/ n \in ErasedBy({c}))
      BY <1>5
    <3>5. last[n].deleted = (n \in ErasedBy(cs) \/ n \in ErasedBy({c}))
      BY <3>1, <3>2
    <3>6. last[n].deleted = atOnce[n].deleted
      BY <3>3, <3>4, <3>5
    <3> QED BY <1>6, <2>2, <3>1, <3>2, <3>3, <3>6
  <2>3. CASE n \notin DOMAIN old /\ n \notin DOMAIN Requested(cs)
    <3>1. n \notin DOMAIN middle /\ n \in DOMAIN Requested({c}) /\ n \notin ErasedBy(cs)
      BY <1>2, <1>3, <1>8, <2>3 DEF HasLanded
    <3>2. /\ last[n].previous_id = Requested({c})[n].previous_id
          /\ last[n].value = Requested({c})[n].value
          /\ last[n].deleted = (n \in ErasedBy({c}))
      BY <1>3, <3>1 DEF HasLanded
    <3>3. /\ atOnce[n].previous_id = Requested(cs \cup {c})[n].previous_id
          /\ atOnce[n].value = Requested(cs \cup {c})[n].value
          /\ atOnce[n].deleted = (n \in ErasedBy(cs \cup {c}))
      BY <1>4, <1>5, <2>3, <3>1 DEF HasLanded
    <3>4. (n \in ErasedBy(cs \cup {c})) = (n \in ErasedBy({c}))
      BY <1>5, <3>1
    <3>5. last[n].deleted = atOnce[n].deleted
      BY <3>2, <3>3, <3>4
    <3> QED BY <1>7, <3>1, <3>2, <3>3, <3>5
  <2> QED BY <2>1, <2>2, <2>3
<1>11. last = atOnce
  BY <1>9, <1>10, SameNodes
<1> QED BY <1>11 DEF last, atOnce, middle

(* Siblings added for two steps of growth, one after the other, are those added*)
(* for both at once.                                                           *)
LEMMA ChildrenTogether ==
  ASSUME NEW children, IsSiblingMap(children),
         NEW old, NEW middle, IsNodeMap(middle), DOMAIN old \subseteq DOMAIN middle,
         NEW last, Grown(middle, last)
  PROVE  ChildrenWith(ChildrenWith(children, NewNodes(old, middle)), NewNodes(middle, last))
           = ChildrenWith(children, NewNodes(old, last))
<1> DEFINE first == NewNodes(old, middle)
           one   == NewNodes(middle, last)
           both  == NewNodes(old, last)
<1>1. IsNodeMap(first) /\ IsNodeMap(one) /\ IsNodeMap(both)
  BY NewNodesTyped DEF Grown
<1> HIDE DEF first, one, both
<1>2. /\ DOMAIN first = DOMAIN middle \ DOMAIN old
      /\ \A n \in DOMAIN first : first[n] = middle[n]
  BY NewNodesAre DEF first
<1>3. /\ DOMAIN one = DOMAIN last \ DOMAIN middle
      /\ \A n \in DOMAIN one : one[n] = last[n]
  BY NewNodesAre DEF one
<1>4. /\ DOMAIN both = DOMAIN last \ DOMAIN old
      /\ \A n \in DOMAIN both : both[n] = last[n]
  BY DEF both, NewNodes, Restrict
<1>5. DOMAIN both = DOMAIN first \cup DOMAIN one
  BY <1>2, <1>3, <1>4 DEF Grown
<1>6. \A n \in DOMAIN first : both[n].previous_id = first[n].previous_id
  BY <1>2, <1>4 DEF Grown
<1>7. \A n \in DOMAIN one : both[n].previous_id = one[n].previous_id
  BY <1>3, <1>4, <1>5
<1>8. ChildrenWith(ChildrenWith(children, first), one) = ChildrenWith(children, both)
  BY <1>1, <1>5, <1>6, <1>7, ChildrenOneByOne
<1> QED BY <1>8 DEF first, one, both

(* What c waits for is among the elements known.                               *)
Ready(known, c) == ~Blocked(known, {c})

(* A change of the batch that is ready once others of it have landed lands too.*)
LEMMA LandsNext ==
  ASSUME NEW known, NEW batch, batch \subseteq Change, OneEach(batch),
         NEW done, done \subseteq Landed(known, batch),
         NEW c \in batch, Ready(known \cup {d.element_id : d \in Inserts(done)}, c)
  PROVE  c \in Landed(known, batch)
<1> DEFINE arrived == Landing(known, Requested(batch))
<1>1. {d.element_id : d \in Inserts(done)} \subseteq arrived
  BY DEF Landed, Inserts, Deletes
<1>2. CASE c \in Inserts(batch)
  <2>1. c.previous_id \in known \cup arrived \cup {Head0}
    BY <1>1, <1>2 DEF Ready, Blocked, Inserts, Deletes
  <2>2. /\ c.element_id \in DOMAIN Requested(batch)
        /\ Requested(batch)[c.element_id].previous_id = c.previous_id
    BY <1>2, RequestedIs
  <2>3. c.element_id \in arrived
    BY <2>1, <2>2, LandingSaturated DEF Saturated
  <2> QED BY <1>2, <2>3 DEF Landed
<1>3. CASE c \in Deletes(batch)
  <2>1. c.element_id \in known \cup arrived
    BY <1>1, <1>3 DEF Ready, Blocked, Inserts, Deletes
  <2> QED BY <1>3, <2>1 DEF Landed
<1> QED BY <1>2, <1>3 DEF Inserts, Deletes, Change

(* Once what is left of the batch waits, what landed is all that can.          *)
LEMMA LandedAll ==
  ASSUME NEW known, NEW batch, batch \subseteq Change, OneEach(batch),
         NEW done, done \subseteq Landed(known, batch),
         Blocked(known \cup {d.element_id : d \in Inserts(done)}, batch \ done)
  PROVE  done = Landed(known, batch)
<1> DEFINE arrived == Landing(known, Requested(batch))
           L       == {d.element_id : d \in Inserts(done)}
<1>1. done \subseteq batch /\ L \subseteq arrived
  BY DEF Landed, Inserts, Deletes
<1>2. Saturated(L, known, Requested(batch))
  <2> SUFFICES ASSUME NEW n \in DOMAIN Requested(batch),
                      Requested(batch)[n].previous_id \in known \cup L \cup {Head0}
               PROVE  n \in L
    BY DEF Saturated
  <2>1. PICK c \in Inserts(batch) : c.element_id = n
    BY RequestedIs
  <2>2. c.previous_id \in known \cup L \cup {Head0}
    BY <2>1, RequestedIs
  <2>3. c \in done
    BY <2>2 DEF Blocked, Inserts
  <2> QED BY <2>1, <2>3 DEF Inserts
<1>3. arrived \subseteq L
  <2>1. L \in SUBSET DOMAIN Requested(batch)
    BY <1>1 DEF Landing
  <2> HIDE DEF L
  <2> QED BY <1>2, <2>1, LandingLeast
<1>4. ASSUME NEW c \in Landed(known, batch), c \notin done PROVE FALSE
  <2>1. CASE c \in Inserts(batch) /\ c.element_id \in arrived
    <3>1. Requested(batch)[c.element_id].previous_id \in known \cup arrived \cup {Head0}
      BY <2>1, LandingHasPredecessor
    <3>2. c.previous_id \in known \cup L \cup {Head0}
      BY <1>3, <2>1, <3>1, RequestedIs
    <3> QED BY <1>4, <2>1, <3>2 DEF Blocked, Inserts
  <2>2. CASE c \in Deletes(batch) /\ c.element_id \in known \cup arrived
    BY <1>3, <1>4, <2>2 DEF Blocked, Deletes
  <2> QED BY <1>4, <2>1, <2>2 DEF Landed
<1> QED BY <1>4

-----------------------------------------------------------------------------
(* States whose elements all hang from the head.                               *)

(* Every chain of predecessors leads to the head: an empty replica that merges *)
(* these nodes lands them all.                                                 *)
Whole(ns) == Landing({}, ns) = DOMAIN ns

(* A whole state lands whole, whatever is known before.                        *)
LEMMA WholeLands ==
  ASSUME NEW known, NEW ns, Whole(ns)
  PROVE  Landing(known, ns) = DOMAIN ns
<1>1. Landing(known, ns) \subseteq DOMAIN ns
  BY DEF Landing
<1>2. Saturated(Landing(known, ns), {}, ns)
  BY LandingSaturated DEF Saturated
<1>3. Landing({}, ns) \subseteq Landing(known, ns)
  BY <1>1, <1>2, LandingLeast
<1> QED BY <1>1, <1>3 DEF Whole

(* A whole state that takes on what lands on it stays whole.                   *)
LEMMA WholeGrows ==
  ASSUME NEW old, Whole(old), NEW incoming, NEW new,
         DOMAIN new = DOMAIN old \cup Landing(DOMAIN old, incoming),
         \A n \in DOMAIN old : new[n].previous_id = old[n].previous_id,
         \A n \in Landing(DOMAIN old, incoming) \ DOMAIN old :
            new[n].previous_id = incoming[n].previous_id
  PROVE  Whole(new)
<1> DEFINE known   == DOMAIN old
           arrived == Landing(known, incoming)
<1>1. SUFFICES ASSUME NEW L \in SUBSET DOMAIN new, Saturated(L, {}, new)
               PROVE  DOMAIN new \subseteq L
  BY DEF Whole, Landing
<1>2. known \subseteq L
  <2>1. Saturated(L \cap known, {}, old)
    BY <1>1 DEF Saturated
  <2>2. Landing({}, old) \subseteq L \cap known
    BY <2>1, LandingLeast
  <2> QED BY <2>2 DEF Whole
<1>3. arrived \subseteq L
  <2>1. ASSUME NEW n \in DOMAIN incoming,
               incoming[n].previous_id \in known \cup (L \cap arrived) \cup {Head0}
        PROVE  n \in L \cap arrived
    <3>1. n \in arrived
      BY <2>1, LandingSaturated DEF Saturated
    <3>2. CASE n \in known
      BY <1>2, <3>1, <3>2
    <3>3. CASE n \notin known
      <4>1. new[n].previous_id \in L \cup {Head0} /\ n \in DOMAIN new
        BY <1>2, <2>1, <3>1, <3>3
      <4> QED BY <1>1, <3>1, <4>1 DEF Saturated
    <3> QED BY <3>2, <3>3
  <2>2. arrived \subseteq DOMAIN incoming
    BY DEF Landing
  <2>3. Saturated(L \cap arrived, known, incoming)
    BY <2>1 DEF Saturated
  <2>4. arrived \subseteq L \cap arrived
    BY <2>2, <2>3, LandingLeast
  <2> QED BY <2>4
<1> QED BY <1>2, <1>3

(* A whole state stays whole when changes land on it.                          *)
LEMMA WholeAfter ==
  ASSUME NEW old, IsNodeMap(old), Whole(old),
         NEW batch, batch \subseteq Change, IsFiniteSet(batch)
  PROVE  Whole(NodesAfter(old, Landed(DOMAIN old, batch)))
<1> DEFINE landed   == Landed(DOMAIN old, batch)
           arrived  == Landing(DOMAIN old, Requested(batch))
           after    == NodesAfter(old, landed)
<1>0. landed \subseteq Change /\ IsFiniteSet(landed)
  BY LandedAre, FS_Subset
<1>1. /\ DOMAIN Requested(landed) = arrived
      /\ \A n \in arrived : Requested(landed)[n] = Requested(batch)[n]
  BY LandedAre
<1> HIDE DEF landed
<1>2. HasLanded(old, Requested(landed), ErasedBy(landed), after)
  BY <1>0, NodesAfterAre
<1> HIDE DEF after
<1>3. /\ DOMAIN after = DOMAIN old \cup arrived
      /\ \A n \in DOMAIN old : after[n].previous_id = old[n].previous_id
      /\ \A n \in arrived \ DOMAIN old : after[n].previous_id = Requested(batch)[n].previous_id
  <2> HIDE DEF arrived
  <2> QED BY <1>1, <1>2 DEF HasLanded
<1>4. Whole(after)
  BY <1>3, WholeGrows
<1> QED BY <1>4 DEF after, landed

(* A whole state stays whole when a state is merged into it.                   *)
LEMMA WholeMerged ==
  ASSUME NEW old, IsNodeMap(old), Whole(old), NEW incoming, IsNodeMap(incoming)
  PROVE  Whole(NodesMerged(old, incoming))
<1> DEFINE arrived  == Landing(DOMAIN old, incoming)
           after    == NodesMerged(old, incoming)
<1>1. HasMerged(old, arrived, incoming, after)
  BY NodesMergedAre
<1> HIDE DEF after
<1>2. /\ DOMAIN after = DOMAIN old \cup arrived
      /\ \A n \in DOMAIN old : after[n].previous_id = old[n].previous_id
      /\ \A n \in arrived \ DOMAIN old : after[n].previous_id = incoming[n].previous_id
  <2> HIDE DEF arrived
  <2> QED BY <1>1 DEF HasMerged
<1>3. Whole(after)
  BY <1>2, WholeGrows
<1> QED BY <1>3 DEF after

-----------------------------------------------------------------------------
(* What a replica holds, by the facts of the changes made.                     *)

(* Two states that only hold what changes said agree wherever both have an     *)
(* element.                                                                    *)
LEMMA NodesAgree ==
  ASSUME NEW all, all \subseteq Change, OneEach(all),
         NEW a, FactsOfNodes(a) \subseteq FactsOfChanges(all),
         NEW b, FactsOfNodes(b) \subseteq FactsOfChanges(all),
         NEW n \in DOMAIN a, n \in DOMAIN b
  PROVE  a[n].previous_id = b[n].previous_id /\ a[n].value = b[n].value
<1>1. InsertFact(n, a[n]) \in FactsOfChanges(all) /\ InsertFact(n, b[n]) \in FactsOfChanges(all)
  BY NodeFacts
<1>2. PICK c \in Inserts(all) : /\ c.element_id = n
                                /\ c.previous_id = a[n].previous_id /\ c.value = a[n].value
  BY <1>1, ChangeFacts
<1>3. PICK d \in Inserts(all) : /\ d.element_id = n
                                /\ d.previous_id = b[n].previous_id /\ d.value = b[n].value
  BY <1>1, ChangeFacts
<1>4. c \in all /\ d \in all /\ c.operation_id = d.operation_id
  BY <1>2, <1>3 DEF Inserts, Change
<1> QED BY <1>2, <1>3, <1>4 DEF OneEach

(* A state agrees with the insert of each of its elements.                     *)
LEMMA InsertAgrees ==
  ASSUME NEW all, all \subseteq Change, OneEach(all),
         NEW ns, FactsOfNodes(ns) \subseteq FactsOfChanges(all),
         NEW c \in Inserts(all), c.element_id \in DOMAIN ns
  PROVE  ns[c.element_id].previous_id = c.previous_id /\ ns[c.element_id].value = c.value
<1> DEFINE n == c.element_id
<1>1. InsertFact(n, ns[n]) \in FactsOfChanges(all)
  BY NodeFacts
<1>2. PICK d \in Inserts(all) : /\ d.element_id = n
                                /\ d.previous_id = ns[n].previous_id /\ d.value = ns[n].value
  BY <1>1, ChangeFacts
<1>3. c \in all /\ d \in all /\ c.operation_id = d.operation_id
  BY <1>2 DEF Inserts, Change
<1> QED BY <1>2, <1>3 DEF OneEach

(* Landing adds the facts of what lands and no other.                          *)
LEMMA FactsAfter ==
  ASSUME NEW all, all \subseteq Change, OneEach(all),
         NEW old, IsNodeMap(old), FactsOfNodes(old) \subseteq FactsOfChanges(all),
         NEW batch, batch \subseteq all, IsFiniteSet(batch)
  PROVE  FactsOfNodes(NodesAfter(old, Landed(DOMAIN old, batch)))
            = FactsOfNodes(old) \cup FactsOfChanges(Landed(DOMAIN old, batch))
<1> DEFINE known   == DOMAIN old
           landed  == Landed(known, batch)
           wanted  == Requested(landed)
           arrived == Landing(known, Requested(batch))
           after   == NodesAfter(old, landed)
<1>1. /\ landed \subseteq all /\ landed \subseteq Change /\ IsFiniteSet(landed)
      /\ OneEach(landed)
  <2>1. landed \subseteq batch /\ IsFiniteSet(landed)
    BY LandedAre, FS_Subset
  <2> HIDE DEF landed
  <2> QED BY <2>1 DEF OneEach
<1>2. DOMAIN wanted = arrived
  BY LandedAre
<1>3. ErasedBy(landed) \subseteq known \cup arrived
  BY DEF Landed, ErasedBy, Deletes, Inserts
<1> HIDE DEF landed, arrived
<1>4. HasLanded(old, wanted, ErasedBy(landed), after)
  BY <1>1, NodesAfterAre
<1>5. /\ \A c \in Inserts(landed) : c.element_id \in DOMAIN wanted
      /\ \A c \in Inserts(landed) : wanted[c.element_id].previous_id = c.previous_id
      /\ \A c \in Inserts(landed) : wanted[c.element_id].value = c.value
      /\ \A n \in DOMAIN wanted : \E c \in Inserts(landed) : c.element_id = n
  BY <1>1, RequestedIs
<1>6. ASSUME NEW c \in Inserts(landed), c.element_id \in known
      PROVE  old[c.element_id].previous_id = c.previous_id /\ old[c.element_id].value = c.value
  <2>1. c \in Inserts(all)
    BY <1>1 DEF Inserts
  <2> QED BY <1>6, <2>1, InsertAgrees
<1> HIDE DEF after, wanted, known
<1>7. ASSUME NEW c \in Inserts(landed)
      PROVE  /\ c.element_id \in DOMAIN after
             /\ after[c.element_id].previous_id = c.previous_id
             /\ after[c.element_id].value = c.value
  <2>1. CASE c.element_id \in known
    BY <1>4, <1>6, <2>1 DEF HasLanded, known
  <2>2. CASE c.element_id \notin known
    BY <1>4, <1>5, <2>2 DEF HasLanded, known
  <2> QED BY <2>1, <2>2
<1>8. ASSUME NEW n \in DOMAIN after, n \notin known
      PROVE  \E c \in Inserts(landed) : c.element_id = n
  BY <1>4, <1>5, <1>8 DEF HasLanded, known
<1>9. \A n \in known : /\ n \in DOMAIN after
                       /\ after[n].previous_id = old[n].previous_id
                       /\ after[n].value = old[n].value
  BY <1>4 DEF HasLanded, known
<1>10. \A n, x : InsertFact(n, x) \in FactsOfNodes(after)
          <=> InsertFact(n, x) \in FactsOfNodes(old) \cup FactsOfChanges(landed)
  <2> TAKE n, x
  <2>1. InsertFact(n, x) \in FactsOfNodes(after) <=>
          n \in DOMAIN after /\ after[n].previous_id = x.previous_id /\ after[n].value = x.value
    BY NodeFacts
  <2>2. InsertFact(n, x) \in FactsOfNodes(old) <=>
          n \in known /\ old[n].previous_id = x.previous_id /\ old[n].value = x.value
    BY NodeFacts DEF known
  <2>3. InsertFact(n, x) \in FactsOfChanges(landed) <=>
          \E c \in Inserts(landed) : /\ c.element_id = n
                                     /\ c.previous_id = x.previous_id /\ c.value = x.value
    BY ChangeFacts
  <2>4. CASE n \in known
    BY <1>6, <1>9, <2>1, <2>2, <2>3, <2>4
  <2>5. CASE n \notin known
    BY <1>7, <1>8, <2>1, <2>2, <2>3, <2>5
  <2> QED BY <2>4, <2>5
<1>11. \A n : DeleteFact(n) \in FactsOfNodes(after)
          <=> DeleteFact(n) \in FactsOfNodes(old) \cup FactsOfChanges(landed)
  <2> TAKE n
  <2>1. DeleteFact(n) \in FactsOfNodes(after) <=> n \in DOMAIN after /\ after[n].deleted
    BY NodeFacts
  <2>2. DeleteFact(n) \in FactsOfNodes(old) <=> n \in known /\ old[n].deleted
    BY NodeFacts DEF known
  <2>3. DeleteFact(n) \in FactsOfChanges(landed) <=> n \in ErasedBy(landed)
    BY ChangeFacts DEF ErasedBy
  <2>4. DOMAIN after = known \cup arrived
    BY <1>2, <1>4 DEF HasLanded, known
  <2>5. CASE n \in known
    BY <1>4, <2>1, <2>2, <2>3, <2>4, <2>5 DEF HasLanded, known
  <2>6. CASE n \in arrived \ known
    <3>1. after[n].deleted = (n \in ErasedBy(landed))
      BY <1>2, <1>4, <2>6 DEF HasLanded, known
    <3> QED BY <2>1, <2>2, <2>3, <2>4, <2>6, <3>1
  <2>7. CASE n \notin known \cup arrived
    BY <1>3, <2>1, <2>2, <2>3, <2>4, <2>7
  <2> QED BY <2>5, <2>6, <2>7
<1>12. \A f \in FactsOfNodes(after) \cup FactsOfNodes(old) \cup FactsOfChanges(landed) :
          (\E n, x : f = InsertFact(n, x)) \/ (\E n : f = DeleteFact(n))
  BY NodeFacts, ChangeFacts
<1>13. FactsOfNodes(after) = FactsOfNodes(old) \cup FactsOfChanges(landed)
  BY <1>10, <1>11, <1>12
<1> QED BY <1>13 DEF after, landed, known

(* Merging a whole state brings in all of its elements.                        *)
LEMMA MergedWhole ==
  ASSUME NEW old, IsNodeMap(old), NEW incoming, IsNodeMap(incoming), Whole(incoming)
  PROVE  /\ HasMerged(old, DOMAIN incoming, incoming, NodesMerged(old, incoming))
         /\ DOMAIN NodesMerged(old, incoming) = DOMAIN old \cup DOMAIN incoming
<1>1. Landing(DOMAIN old, incoming) = DOMAIN incoming
  BY WholeLands
<1>2. HasMerged(old, DOMAIN incoming, incoming, NodesMerged(old, incoming))
  BY <1>1, NodesMergedAre
<1> QED BY <1>2 DEF HasMerged

(* Merging a whole state adds its facts, all of them, and no other.            *)
LEMMA FactsMerged ==
  ASSUME NEW all, all \subseteq Change, OneEach(all),
         NEW old, IsNodeMap(old), FactsOfNodes(old) \subseteq FactsOfChanges(all),
         NEW incoming, IsNodeMap(incoming), Whole(incoming),
         FactsOfNodes(incoming) \subseteq FactsOfChanges(all)
  PROVE  FactsOfNodes(NodesMerged(old, incoming))
            = FactsOfNodes(old) \cup FactsOfNodes(incoming)
<1> DEFINE known == DOMAIN old
           after == NodesMerged(old, incoming)
<1>2. HasMerged(old, DOMAIN incoming, incoming, after)
  BY MergedWhole
<1>3. DOMAIN after = known \cup DOMAIN incoming
  BY MergedWhole
<1> HIDE DEF after
<1>4. \A n \in known : n \in DOMAIN incoming =>
         old[n].previous_id = incoming[n].previous_id /\ old[n].value = incoming[n].value
  BY NodesAgree
<1>5. \A n, x : InsertFact(n, x) \in FactsOfNodes(after)
          <=> InsertFact(n, x) \in FactsOfNodes(old) \cup FactsOfNodes(incoming)
  <2> TAKE n, x
  <2>1. InsertFact(n, x) \in FactsOfNodes(after) <=>
          n \in DOMAIN after /\ after[n].previous_id = x.previous_id /\ after[n].value = x.value
    BY NodeFacts
  <2>2. InsertFact(n, x) \in FactsOfNodes(old) <=>
          n \in known /\ old[n].previous_id = x.previous_id /\ old[n].value = x.value
    BY NodeFacts
  <2>3. InsertFact(n, x) \in FactsOfNodes(incoming) <=>
          /\ n \in DOMAIN incoming
          /\ incoming[n].previous_id = x.previous_id /\ incoming[n].value = x.value
    BY NodeFacts
  <2>4. CASE n \in known
    BY <1>2, <1>3, <1>4, <2>1, <2>2, <2>3, <2>4 DEF HasMerged
  <2>5. CASE n \notin known
    BY <1>2, <1>3, <2>1, <2>2, <2>3, <2>5 DEF HasMerged
  <2> QED BY <2>4, <2>5
<1>6. \A n : DeleteFact(n) \in FactsOfNodes(after)
          <=> DeleteFact(n) \in FactsOfNodes(old) \cup FactsOfNodes(incoming)
  <2> TAKE n
  <2>1. DeleteFact(n) \in FactsOfNodes(after) <=> n \in DOMAIN after /\ after[n].deleted
    BY NodeFacts
  <2>2. DeleteFact(n) \in FactsOfNodes(old) <=> n \in known /\ old[n].deleted
    BY NodeFacts
  <2>3. DeleteFact(n) \in FactsOfNodes(incoming) <=> n \in DOMAIN incoming /\ incoming[n].deleted
    BY NodeFacts
  <2>4. CASE n \in known
    <3>1. after[n].deleted = (old[n].deleted \/ (n \in DOMAIN incoming /\ incoming[n].deleted))
      BY <1>2, <2>4 DEF HasMerged
    <3>2. n \in DOMAIN after
      BY <1>3, <2>4
    <3> QED BY <2>1, <2>2, <2>3, <2>4, <3>1, <3>2
  <2>5. CASE n \notin known
    BY <1>2, <1>3, <2>1, <2>2, <2>3, <2>5 DEF HasMerged
  <2> QED BY <2>4, <2>5
<1>7. \A f \in FactsOfNodes(after) \cup FactsOfNodes(old) \cup FactsOfNodes(incoming) :
         (\E n, x : f = InsertFact(n, x)) \/ (\E n : f = DeleteFact(n))
  BY NodeFacts
<1>8. FactsOfNodes(after) = FactsOfNodes(old) \cup FactsOfNodes(incoming)
  BY <1>5, <1>6, <1>7
<1> QED BY <1>8 DEF after

(* The nodes that facts of changes made tell of.                               *)
LEMMA ToldAre ==
  ASSUME NEW all, all \subseteq Change, OneEach(all),
         NEW facts, facts \subseteq FactsOfChanges(all)
  PROVE  /\ \A n : n \in DOMAIN Told(facts) <=> \E x : InsertFact(n, x) \in facts
         /\ \A n, x : InsertFact(n, x) \in facts =>
               Told(facts)[n] = [previous_id |-> x.previous_id, value |-> x.value,
                                 deleted |-> DeleteFact(n) \in facts]
<1> DEFINE inserts == {f \in facts : f.kind = "insert"}
           About(n) == CHOOSE g \in inserts : g.id = n
<1>1. /\ DOMAIN Told(facts) = {f.id : f \in inserts}
      /\ \A n \in DOMAIN Told(facts) : Told(facts)[n] =
            [previous_id |-> About(n).previous_id, value |-> About(n).value,
             deleted |-> DeleteFact(n) \in facts]
  BY DEF Told
<1>2. \A n, x : /\ InsertFact(n, x).kind = "insert" /\ InsertFact(n, x).id = n
                /\ InsertFact(n, x).previous_id = x.previous_id
                /\ InsertFact(n, x).value = x.value
  BY DEF InsertFact
<1>3. \A n : DeleteFact(n).kind # "insert"
  BY DEF DeleteFact
<1>4. \A f \in inserts : f \in facts /\ \E n, x : f = InsertFact(n, x)
  BY <1>3, ChangeFacts
<1>5. \A n, x : InsertFact(n, x) \in facts <=> InsertFact(n, x) \in inserts
  BY <1>2
<1> HIDE DEF inserts
<1>6. \A n : n \in DOMAIN Told(facts) <=> \E x : InsertFact(n, x) \in facts
  BY <1>1, <1>2, <1>4, <1>5
<1>7. ASSUME NEW n, NEW x, InsertFact(n, x) \in facts
      PROVE  Told(facts)[n] = [previous_id |-> x.previous_id, value |-> x.value,
                               deleted |-> DeleteFact(n) \in facts]
  <2> DEFINE g == About(n)
  <2>1. g \in inserts /\ g.id = n
    BY <1>2, <1>5, <1>7
  <2>2. PICK m, y : g = InsertFact(m, y)
    BY <1>4, <2>1
  <2>3. m = n /\ g.previous_id = y.previous_id /\ g.value = y.value
    BY <1>2, <2>1, <2>2
  <2>4. InsertFact(n, y) \in FactsOfChanges(all) /\ InsertFact(n, x) \in FactsOfChanges(all)
    BY <1>4, <1>7, <2>1, <2>2, <2>3
  <2>5. PICK c \in Inserts(all) : /\ c.element_id = n
                                  /\ c.previous_id = y.previous_id /\ c.value = y.value
    BY <2>4, ChangeFacts
  <2>6. PICK d \in Inserts(all) : /\ d.element_id = n
                                  /\ d.previous_id = x.previous_id /\ d.value = x.value
    BY <2>4, ChangeFacts
  <2>7. c = d
    BY <2>5, <2>6 DEF Inserts, Change, OneEach
  <2>8. g.previous_id = x.previous_id /\ g.value = x.value
    BY <2>3, <2>5, <2>6, <2>7
  <2>9. n \in DOMAIN Told(facts)
    BY <1>6, <1>7
  <2>10. Told(facts)[n] = [previous_id |-> g.previous_id, value |-> g.value,
                           deleted |-> DeleteFact(n) \in facts]
    BY <1>1, <2>9
  <2> HIDE DEF g
  <2> QED BY <2>8, <2>10
<1> QED BY <1>6, <1>7

(* A whole state is the document of its facts and of any changes that still    *)
(* wait for an element it does not have.                                       *)
LEMMA SettledIs ==
  ASSUME NEW all, all \subseteq Change, OneEach(all),
         NEW ns, IsNodeMap(ns), Whole(ns), FactsOfNodes(ns) \subseteq FactsOfChanges(all),
         NEW waiting, waiting \subseteq all, Blocked(DOMAIN ns, waiting)
  PROVE  Settled(FactsOfNodes(ns) \cup FactsOfChanges(waiting)) = ns
<1> DEFINE facts == FactsOfNodes(ns) \cup FactsOfChanges(waiting)
           told  == Told(facts)
           known == DOMAIN ns
<1>1. facts \subseteq FactsOfChanges(all)
  BY ChangeFactsGrow
<1>2. /\ \A n : n \in DOMAIN told <=> \E x : InsertFact(n, x) \in facts
      /\ \A n, x : InsertFact(n, x) \in facts =>
            told[n] = [previous_id |-> x.previous_id, value |-> x.value,
                       deleted |-> DeleteFact(n) \in facts]
  BY <1>1, ToldAre
<1>3. \A n \in known : DeleteFact(n) \in facts <=> ns[n].deleted
  <2> TAKE n \in known
  <2>1. DeleteFact(n) \notin FactsOfChanges(waiting)
    BY ChangeFacts DEF Blocked
  <2> QED BY <2>1, NodeFacts
<1>4. \A n \in known : InsertFact(n, ns[n]) \in facts
  BY NodeFacts
<1>5. \A n, x : InsertFact(n, x) \in facts => n \in known \/ x.previous_id \notin known \cup {Head0}
  <2> SUFFICES ASSUME NEW n, NEW x, InsertFact(n, x) \in facts, n \notin known
               PROVE  x.previous_id \notin known \cup {Head0}
    OBVIOUS
  <2>1. InsertFact(n, x) \in FactsOfChanges(waiting)
    BY NodeFacts
  <2> QED BY <2>1, ChangeFacts DEF Blocked
<1> HIDE DEF facts, told
<1>6. \A n \in known : n \in DOMAIN told /\ told[n] = ns[n]
  <2> TAKE n \in known
  <2>1. told[n] = [previous_id |-> ns[n].previous_id, value |-> ns[n].value,
                   deleted |-> DeleteFact(n) \in facts]
    BY <1>2, <1>4
  <2>2. ns[n] \in Node
    BY DEF IsNodeMap
  <2>3. ns[n] = [previous_id |-> ns[n].previous_id, value |-> ns[n].value,
                 deleted |-> ns[n].deleted] /\ ns[n].deleted \in BOOLEAN
    BY <2>2 DEF Node
  <2>4. ns[n].deleted = (DeleteFact(n) \in facts)
    BY <1>3, <2>3
  <2> QED BY <1>2, <1>4, <2>1, <2>3, <2>4
<1>7. \A n \in DOMAIN told : told[n].previous_id \in known \cup {Head0} => n \in known
  <2> TAKE n \in DOMAIN told
  <2>1. PICK x : InsertFact(n, x) \in facts
    BY <1>2
  <2>2. told[n] = [previous_id |-> x.previous_id, value |-> x.value,
                   deleted |-> DeleteFact(n) \in facts]
    BY <1>2, <2>1
  <2>3. told[n].previous_id = x.previous_id
    BY <2>2
  <2> QED BY <1>5, <2>1, <2>3
<1>8. Landing({}, told) = known
  <2>1. Saturated(known, {}, told)
    BY <1>7 DEF Saturated
  <2>2. Landing({}, told) \subseteq known
    BY <1>6, <2>1, LandingLeast
  <2> DEFINE L == Landing({}, told) \cap known
  <2>3. Saturated(L, {}, ns)
    BY <1>6, LandingSaturated DEF Saturated
  <2>4. Landing({}, ns) \subseteq L
    BY <2>3, LandingLeast
  <2> QED BY <2>2, <2>4 DEF Whole
<1>9. Settled(facts) = [n \in known |-> told[n]]
  BY <1>6, <1>8 DEF Settled, Restrict, told
<1>10. ns = [n \in known |-> ns[n]]
  BY DEF IsNodeMap
<1> QED BY <1>6, <1>9, <1>10 DEF facts

(* What a batch leaves behind still waits once the rest of it has landed.      *)
LEMMA LeftBehindWaits ==
  ASSUME NEW known, NEW batch, batch \subseteq Change, OneEach(batch)
  PROVE  Blocked(known \cup Landing(known, Requested(batch)), batch \ Landed(known, batch))
<1> DEFINE arrived == Landing(known, Requested(batch))
           kept    == batch \ Landed(known, batch)
<1>1. ASSUME NEW c \in Inserts(kept), c.previous_id \in known \cup arrived \cup {Head0}
      PROVE  FALSE
  <2>1. c \in Inserts(batch) /\ c \notin Landed(known, batch)
    BY DEF Inserts
  <2>2. /\ c.element_id \in DOMAIN Requested(batch)
        /\ Requested(batch)[c.element_id].previous_id = c.previous_id
    BY <2>1, RequestedIs
  <2>3. c.element_id \in arrived
    BY <1>1, <2>2, LandingSaturated DEF Saturated
  <2> QED BY <2>1, <2>3 DEF Landed
<1>2. ASSUME NEW c \in Deletes(kept), c.element_id \in known \cup arrived PROVE FALSE
  <2>1. c \in Deletes(batch) /\ c \notin Landed(known, batch)
    BY DEF Deletes
  <2> QED BY <1>2, <2>1 DEF Landed
<1> QED BY <1>1, <1>2 DEF Blocked

-----------------------------------------------------------------------------
(* _children as a function of _nodes.                                          *)

(* The sorted sibling list below the head and below every node.                *)
SiblingLists(ns) == [p \in DOMAIN ns \cup {Head0} |-> SortIds(Below(ns, p))]

(* An element nothing was inserted after has the empty list.                   *)
LEMMA NoSiblings == SortIds({}) = << >>
<1>1. IsFiniteSet({}) /\ Cardinality({}) = 0
  BY FS_EmptySet
<1>2. SortIds({}) \in [1..0 -> {}]
  BY <1>1, SortIdsSorts
<1>3. ASSUME NEW s \in [1..0 -> {}] PROVE s = << >>
  OBVIOUS
<1> QED BY <1>2, <1>3

(* Sorted sibling lists stay sorted sibling lists when nodes are added.        *)
LEMMA SiblingListsGrow ==
  ASSUME NEW before, NEW after, IsNodeMap(before), Closed(before), Closed(after),
         DOMAIN before \subseteq DOMAIN after,
         \A n \in DOMAIN before : after[n].previous_id = before[n].previous_id
  PROVE  ChildrenWith(SiblingLists(before), NewNodes(before, after)) = SiblingLists(after)
<1> DEFINE children == SiblingLists(before)
           fresh    == NewNodes(before, after)
           result   == ChildrenWith(children, fresh)
<1>1. /\ DOMAIN fresh = DOMAIN after \ DOMAIN before
      /\ \A n \in DOMAIN fresh : fresh[n] = after[n]
  BY NewNodesAre
<1>2. /\ DOMAIN result = DOMAIN children \cup DOMAIN fresh \cup ParentsOf(fresh)
      /\ \A p \in DOMAIN result :
            result[p] = IF p \in ParentsOf(fresh) THEN SortIds(Kids(children, p) \cup Below(fresh, p))
                        ELSE IF p \in DOMAIN children THEN children[p]
                        ELSE << >>
      /\ \A p : p \in ParentsOf(fresh) <=> Below(fresh, p) # {}
  BY ChildrenWithValue
<1>3. /\ DOMAIN children = DOMAIN before \cup {Head0}
      /\ \A p \in DOMAIN children : children[p] = SortIds(Below(before, p))
  BY DEF SiblingLists
<1>4. result = [p \in DOMAIN result |-> result[p]]
  BY DEF ChildrenWith
<1>5. \A p : Below(fresh, p) \cup Below(before, p) = Below(after, p)
  BY <1>1 DEF Below
<1>6. \A p : p \notin DOMAIN before \cup {Head0} => Below(before, p) = {}
  BY DEF Closed, Below
<1>7. ParentsOf(fresh) \subseteq DOMAIN after \cup {Head0}
  BY <1>1 DEF Closed, ParentsOf
<1> HIDE DEF children, fresh, result
<1>8. DOMAIN result = DOMAIN after \cup {Head0}
  BY <1>1, <1>2, <1>3, <1>7
<1>9. ASSUME NEW p PROVE Kids(children, p) = Below(before, p)
  <2>1. CASE p \in DOMAIN children
    <3>1. Below(before, p) \subseteq Id /\ IsFiniteSet(Below(before, p))
      BY FS_Subset DEF IsNodeMap, Below
    <3>2. Range(SortIds(Below(before, p))) = Below(before, p)
      BY <3>1, SortIdsSorts DEF IsSortedListOf
    <3> QED BY <1>3, <2>1, <3>2 DEF Kids
  <2>2. CASE p \notin DOMAIN children
    BY <1>3, <1>6, <2>2 DEF Kids
  <2> QED BY <2>1, <2>2
<1>10. ASSUME NEW p \in DOMAIN result PROVE result[p] = SortIds(Below(after, p))
  <2>1. Kids(children, p) \cup Below(fresh, p) = Below(after, p)
    BY <1>5, <1>9
  <2>2. CASE p \in ParentsOf(fresh)
    BY <1>2, <2>1, <2>2
  <2>3. CASE p \notin ParentsOf(fresh) /\ p \in DOMAIN children
    <3>1. Below(fresh, p) = {} /\ result[p] = children[p]
      BY <1>2, <2>3
    <3>2. Below(before, p) = Below(after, p)
      BY <1>5, <3>1
    <3> QED BY <1>3, <2>3, <3>1, <3>2
  <2>4. CASE p \notin ParentsOf(fresh) /\ p \notin DOMAIN children
    <3>1. Below(after, p) = {}
      BY <1>2, <1>3, <1>5, <1>6, <2>4
    <3> QED BY <1>2, <2>4, <3>1, NoSiblings
  <2> QED BY <2>2, <2>3, <2>4
<1> QED BY <1>4, <1>8, <1>10 DEF SiblingLists, result, children, fresh

-----------------------------------------------------------------------------
(* What a state adds to a document.                                            *)

\* No element has two places or two values.
Consistent(a, b) ==
    \A n \in DOMAIN a \cap DOMAIN b :
        a[n].previous_id = b[n].previous_id /\ a[n].value = b[n].value

\* What two states tell together.
TellBoth(old, incoming, told) ==
    /\ told = [n \in DOMAIN told |-> told[n]]
    /\ DOMAIN told = DOMAIN old \cup DOMAIN incoming
    /\ \A n \in DOMAIN told : told[n] \in Node
    /\ \A n \in DOMAIN old :
          /\ told[n].previous_id = old[n].previous_id
          /\ told[n].value = old[n].value
          /\ told[n].deleted = (old[n].deleted \/ (n \in DOMAIN incoming /\ incoming[n].deleted))
    /\ \A n \in DOMAIN incoming \ DOMAIN old : told[n] = incoming[n]

LEMMA ToldByBoth ==
  ASSUME NEW old, IsNodeMap(old), NEW incoming, IsNodeMap(incoming), Consistent(old, incoming)
  PROVE  TellBoth(old, incoming, Told(FactsOfNodes(old) \cup FactsOfNodes(incoming)))
<1> DEFINE facts == FactsOfNodes(old) \cup FactsOfNodes(incoming)
           inserts == {f \in facts : f.kind = "insert"}
           About(n) == CHOOSE g \in inserts : g.id = n
           told == Told(facts)
<1>1. /\ told = [n \in DOMAIN told |-> told[n]]
      /\ DOMAIN told = {f.id : f \in inserts}
      /\ \A n \in DOMAIN told : told[n] =
            [previous_id |-> About(n).previous_id, value |-> About(n).value,
             deleted |-> DeleteFact(n) \in facts]
  BY DEF Told
<1>2. \A n, x : /\ InsertFact(n, x).kind = "insert" /\ InsertFact(n, x).id = n
                /\ InsertFact(n, x).previous_id = x.previous_id
                /\ InsertFact(n, x).value = x.value
  BY DEF InsertFact
<1>3. \A n : DeleteFact(n).kind # "insert"
  BY DEF DeleteFact
<1>4. \A f \in inserts : f \in facts /\ \E n, x : f = InsertFact(n, x)
  BY <1>3, NodeFacts
<1>5. \A n, x : InsertFact(n, x) \in inserts <=>
         \/ n \in DOMAIN old /\ old[n].previous_id = x.previous_id /\ old[n].value = x.value
         \/ /\ n \in DOMAIN incoming
            /\ incoming[n].previous_id = x.previous_id /\ incoming[n].value = x.value
  <2>1. \A n, x : InsertFact(n, x) \in inserts <=> InsertFact(n, x) \in facts
    BY <1>2
  <2> HIDE DEF inserts
  <2> QED BY <2>1, NodeFacts
<1>6. \A n : DeleteFact(n) \in facts <=>
         \/ n \in DOMAIN old /\ old[n].deleted
         \/ n \in DOMAIN incoming /\ incoming[n].deleted
  BY NodeFacts
<1> HIDE DEF inserts, facts, told
<1>7. DOMAIN told = DOMAIN old \cup DOMAIN incoming
  <2>1. ASSUME NEW n \in DOMAIN old \cup DOMAIN incoming PROVE n \in DOMAIN told
    <3>1. InsertFact(n, old[n]) \in inserts \/ InsertFact(n, incoming[n]) \in inserts
      BY <1>5, <2>1
    <3> QED BY <1>1, <1>2, <3>1
  <2>2. ASSUME NEW n \in DOMAIN told PROVE n \in DOMAIN old \cup DOMAIN incoming
    <3>1. PICK f \in inserts : f.id = n
      BY <1>1, <2>2
    <3>2. PICK m, x : f = InsertFact(m, x)
      BY <1>4, <3>1
    <3>3. m = n
      BY <1>2, <3>1, <3>2
    <3> QED BY <1>5, <3>1, <3>2, <3>3
  <2> QED BY <2>1, <2>2
<1>8. ASSUME NEW n \in DOMAIN told
      PROVE  /\ \/ /\ n \in DOMAIN old /\ About(n).previous_id = old[n].previous_id
                   /\ About(n).value = old[n].value
                \/ /\ n \in DOMAIN incoming \ DOMAIN old
                   /\ About(n).previous_id = incoming[n].previous_id
                   /\ About(n).value = incoming[n].value
  <2> DEFINE g == About(n)
  <2>1. g \in inserts /\ g.id = n
    BY <1>1, <1>8
  <2>2. PICK m, x : g = InsertFact(m, x)
    BY <1>4, <2>1
  <2>3. m = n /\ g.previous_id = x.previous_id /\ g.value = x.value
    BY <1>2, <2>1, <2>2
  <2>4. InsertFact(n, x) \in inserts
    BY <2>1, <2>2, <2>3
  <2> HIDE DEF g
  <2>5. \/ n \in DOMAIN old /\ old[n].previous_id = x.previous_id /\ old[n].value = x.value
        \/ /\ n \in DOMAIN incoming
           /\ incoming[n].previous_id = x.previous_id /\ incoming[n].value = x.value
    BY <1>5, <2>4
  <2>6. \/ n \in DOMAIN old /\ g.previous_id = old[n].previous_id /\ g.value = old[n].value
        \/ /\ n \in DOMAIN incoming \ DOMAIN old
           /\ g.previous_id = incoming[n].previous_id /\ g.value = incoming[n].value
    BY <2>3, <2>5 DEF Consistent
  <2> QED BY <2>6 DEF g
<1> HIDE DEF About
<1>9. \A n \in DOMAIN told : /\ told[n].previous_id = About(n).previous_id
                             /\ told[n].value = About(n).value
                             /\ told[n].deleted = (DeleteFact(n) \in facts)
  <2> TAKE n \in DOMAIN told
  <2> DEFINE gone == DeleteFact(n) \in facts
  <2>1. told[n] = [previous_id |-> About(n).previous_id, value |-> About(n).value, deleted |-> gone]
    BY <1>1
  <2> HIDE DEF gone
  <2>2. /\ told[n].previous_id = About(n).previous_id /\ told[n].value = About(n).value
        /\ told[n].deleted = gone
    BY <2>1
  <2> QED BY <2>2 DEF gone
<1>10. ASSUME NEW n \in DOMAIN old
       PROVE  /\ told[n].previous_id = old[n].previous_id /\ told[n].value = old[n].value
              /\ told[n].deleted = (old[n].deleted \/ (n \in DOMAIN incoming /\ incoming[n].deleted))
  <2>1. n \in DOMAIN told
    BY <1>7
  <2>2. told[n].deleted = (DeleteFact(n) \in facts)
    BY <1>9, <2>1
  <2>3. (DeleteFact(n) \in facts) = (old[n].deleted \/ (n \in DOMAIN incoming /\ incoming[n].deleted))
    <3>1. old[n].deleted \in BOOLEAN
      BY DEF IsNodeMap, Node
    <3> QED BY <1>6, <3>1
  <2> QED BY <1>8, <1>9, <2>1, <2>2, <2>3
<1>11. ASSUME NEW n \in DOMAIN incoming \ DOMAIN old PROVE told[n] = incoming[n]
  <2>1. n \in DOMAIN told
    BY <1>7
  <2>2. incoming[n] \in Node
    BY DEF IsNodeMap
  <2>3. incoming[n] = [previous_id |-> incoming[n].previous_id, value |-> incoming[n].value,
                       deleted |-> incoming[n].deleted] /\ incoming[n].deleted \in BOOLEAN
    BY <2>2 DEF Node
  <2>4. (DeleteFact(n) \in facts) = incoming[n].deleted
    BY <1>6, <2>3
  <2>5. told[n] = [previous_id |-> About(n).previous_id, value |-> About(n).value,
                   deleted |-> DeleteFact(n) \in facts]
    BY <1>1, <2>1
  <2>6. About(n).previous_id = incoming[n].previous_id /\ About(n).value = incoming[n].value
    BY <1>8, <2>1
  <2> QED BY <2>3, <2>4, <2>5, <2>6
<1>12. \A n \in DOMAIN told : told[n] \in Node
  <2> TAKE n \in DOMAIN told
  <2>1. CASE n \in DOMAIN old
    <3>1. old[n] \in Node
      BY <2>1 DEF IsNodeMap
    <3>2. old[n].previous_id \in Place /\ old[n].value \in Value
      BY <3>1 DEF Node
    <3>3. told[n] = [previous_id |-> old[n].previous_id, value |-> old[n].value,
                     deleted |-> DeleteFact(n) \in facts]
      BY <1>1, <1>9, <1>10, <2>1
    <3>4. (DeleteFact(n) \in facts) \in BOOLEAN
      OBVIOUS
    <3> QED BY <3>2, <3>3, <3>4 DEF Node
  <2>2. CASE n \in DOMAIN incoming \ DOMAIN old
    BY <1>11, <2>2 DEF IsNodeMap
  <2> QED BY <1>7, <2>1, <2>2
<1> QED BY <1>1, <1>7, <1>10, <1>11, <1>12 DEF TellBoth, told, facts

(* merge() shows the document of someone who was told what it held and all     *)
(* that the state says.                                                        *)
LEMMA MergedIsTold ==
  ASSUME NEW old, IsNodeMap(old), Whole(old),
         NEW incoming, IsNodeMap(incoming), Consistent(old, incoming)
  PROVE  NodesMerged(old, incoming) = Settled(FactsOfNodes(old) \cup FactsOfNodes(incoming))
<1> DEFINE told == Told(FactsOfNodes(old) \cup FactsOfNodes(incoming))
           arrived == Landing(DOMAIN old, incoming)
           M == Landing({}, told)
           after == NodesMerged(old, incoming)
<1>1. TellBoth(old, incoming, told)
  BY ToldByBoth
<1>2. Settled(FactsOfNodes(old) \cup FactsOfNodes(incoming)) = Restrict(told, M)
  BY DEF Settled
<1>3. HasMerged(old, arrived, incoming, after)
  BY NodesMergedAre
<1> HIDE DEF told, after
<1>4. arrived \subseteq DOMAIN incoming /\ M \subseteq DOMAIN told
  BY DEF Landing
<1>5. M \subseteq DOMAIN old \cup arrived
  <2> DEFINE L == DOMAIN old \cup arrived
  <2>1. Saturated(arrived, DOMAIN old, incoming)
    BY LandingSaturated
  <2> HIDE DEF arrived, M
  <2>2. ASSUME NEW n \in DOMAIN told, told[n].previous_id \in {} \cup L \cup {Head0}
        PROVE  n \in L
    <3>1. CASE n \in DOMAIN old
      BY <3>1
    <3>2. CASE n \in DOMAIN incoming \ DOMAIN old
      <4>1. told[n] = incoming[n]
        BY <1>1, <3>2 DEF TellBoth
      <4> QED BY <2>1, <2>2, <3>2, <4>1 DEF Saturated
    <3> QED BY <1>1, <3>1, <3>2 DEF TellBoth
  <2>3. Saturated(L, {}, told) /\ L \in SUBSET DOMAIN told
    BY <1>1, <1>4, <2>2 DEF Saturated, TellBoth
  <2> HIDE DEF L
  <2>4. Landing({}, told) \subseteq L
    BY <2>3, LandingLeast
  <2> QED BY <2>4 DEF M, L
<1>6. Saturated(M, {}, told)
  BY LandingSaturated
<1>7. DOMAIN old \subseteq M
  <2> DEFINE L == M \cap DOMAIN old
  <2> HIDE DEF M
  <2>1. Saturated(L, {}, old) /\ L \in SUBSET DOMAIN old
    BY <1>1, <1>6 DEF Saturated, TellBoth
  <2> HIDE DEF L
  <2>2. Landing({}, old) \subseteq L
    BY <2>1, LandingLeast
  <2> QED BY <2>2 DEF Whole, L
<1>8. arrived \subseteq M
  <2> DEFINE L == M \cap DOMAIN incoming
  <2> HIDE DEF M
  <2>1. ASSUME NEW n \in DOMAIN incoming, incoming[n].previous_id \in DOMAIN old \cup L \cup {Head0}
        PROVE  n \in L
    <3>1. n \in DOMAIN told
      BY <1>1 DEF TellBoth
    <3>2. CASE n \in DOMAIN old
      BY <1>7, <3>2
    <3>3. CASE n \notin DOMAIN old
      <4>1. told[n] = incoming[n]
        BY <1>1, <3>3 DEF TellBoth
      <4> QED BY <1>6, <1>7, <2>1, <3>1, <4>1 DEF Saturated
    <3> QED BY <3>2, <3>3
  <2>2. Saturated(L, DOMAIN old, incoming) /\ L \in SUBSET DOMAIN incoming
    BY <2>1 DEF Saturated
  <2> HIDE DEF L
  <2>3. Landing(DOMAIN old, incoming) \subseteq L
    BY <2>2, LandingLeast
  <2> QED BY <2>3 DEF L
<1>9. M = DOMAIN old \cup arrived
  BY <1>5, <1>7, <1>8
<1> HIDE DEF M, arrived
<1>10. DOMAIN after = M /\ IsNodeMap(after)
  BY <1>3, <1>9 DEF HasMerged
<1> DEFINE shown == [n \in M |-> told[n]]
<1>11. Restrict(told, M) = shown
  BY <1>4, Zenon DEF Restrict
<1>12. IsNodeMap(shown)
  <2>1. \A n \in M : told[n] \in Node
    BY <1>1, <1>4 DEF TellBoth
  <2> QED BY <1>10, <2>1 DEF IsNodeMap
<1>13. ASSUME NEW n \in M
       PROVE  /\ after[n].previous_id = told[n].previous_id /\ after[n].value = told[n].value
              /\ after[n].deleted = told[n].deleted
  <2>1. CASE n \in DOMAIN old
    BY <1>1, <1>3, <2>1 DEF TellBoth, HasMerged
  <2>2. CASE n \in arrived \ DOMAIN old
    BY <1>1, <1>3, <1>4, <2>2 DEF TellBoth, HasMerged
  <2> QED BY <1>9, <2>1, <2>2
<1>14. after = shown
  BY <1>10, <1>12, <1>13, SameNodes
<1> QED BY <1>2, <1>11, <1>14 DEF after

=============================================================================

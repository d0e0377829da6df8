--------------------------- MODULE ReplicaLoopsProofs ---------------------------
(* merge() for states of any size and shape, given in any order; then apply()  *)
(* and merge() called in any order, with any changes and any states: both       *)
(* loops compute what RGAReplicas takes in one step, and what they leave is     *)
(* rendered in the order of the document.                                      *)
EXTENDS ReplicaLoops, RenderTheorems

-----------------------------------------------------------------------------
(* merge() alone.                                                              *)

(* The replica starts well formed, with the sibling list of the head.          *)
LEMMA InitTyped == Init => TypeOK
<1> SUFFICES ASSUME Init PROVE TypeOK
  OBVIOUS
<1>1. IsNodeMap([n \in {} |-> n])
  BY FS_EmptySet DEF IsNodeMap
<1>2. IsSiblingMap([p \in {Head0} |-> << >>])
  <2>1. Range(<< >>) = {}
    BY DEF Range
  <2> QED BY <2>1, FS_EmptySet DEF IsSiblingMap, Place
<1> QED BY <1>1, <1>2 DEF Init, TypeOK, Now

(* Every iteration keeps the types and gives every new node a list.            *)
LEMMA NextTyped == TypeOK /\ [Next]_vars => TypeOK'
<1> SUFFICES ASSUME TypeOK, [Next]_vars PROVE TypeOK'
  OBVIOUS
<1> USE DEF TypeOK
<1>1. ASSUME NEW state \in Incoming, Call(state) PROVE TypeOK'
  BY <1>1, IncomingAssumption DEF Call, Now
<1>2. ASSUME NextPass PROVE TypeOK'
  BY <1>2 DEF NextPass
<1>3. ASSUME NEW n \in todo, Visit(n), VisitKnown(n) PROVE TypeOK'
  <2>1. nodes[n] \in Node /\ incoming[n].deleted \in BOOLEAN
    BY <1>3 DEF VisitKnown, IsNodeMap, Node
  <2>2. IsNodeMap(nodes') /\ DOMAIN nodes' = DOMAIN nodes
    BY <1>3, <2>1, TombstoneOr DEF VisitKnown, IsNodeMap
  <2> QED BY <1>3, <2>2 DEF Visit, VisitKnown
<1>4. ASSUME NEW n \in todo, Visit(n), VisitBlocked(n) PROVE TypeOK'
  BY <1>4 DEF Visit, VisitBlocked
<1>5. ASSUME NEW n \in todo, Visit(n), VisitReady(n) PROVE TypeOK'
  <2> DEFINE fresh == [m \in {n} |-> incoming[m]]
  <2>1. n \in Id /\ incoming[n] \in Node
    BY DEF IsNodeMap
  <2>2. IsNodeMap(fresh) /\ DOMAIN fresh = {n}
    BY <2>1, FS_Singleton DEF IsNodeMap
  <2>3. IsNodeMap(nodes') /\ DOMAIN nodes' = DOMAIN nodes \cup {n}
    BY <1>5, <2>1, FS_AddElement DEF VisitReady, IsNodeMap
  <2>4. ParentsOf(fresh) = {incoming[n].previous_id}
    BY DEF ParentsOf
  <2> HIDE DEF fresh
  <2>5. children' = ChildrenWith(children, fresh)
    BY <1>5 DEF VisitReady, fresh
  <2>6. IsSiblingMap(children')
    BY <2>2, <2>5, ChildrenWithKids
  <2>7. DOMAIN children' = DOMAIN nodes' \cup {Head0}
    <3>1. DOMAIN ChildrenWith(children, fresh)
            = DOMAIN children \cup DOMAIN fresh \cup ParentsOf(fresh)
      BY ChildrenWithValue
    <3>2. incoming[n].previous_id \in DOMAIN nodes \cup {Head0}
      BY <1>5 DEF VisitReady
    <3> QED BY <2>2, <2>3, <2>4, <2>5, <3>1, <3>2
  <2> QED BY <1>5, <2>1, <2>3, <2>6, <2>7 DEF Visit, VisitReady
<1>6. ASSUME UNCHANGED vars PROVE TypeOK'
  BY <1>6 DEF vars
<1> QED BY <1>1, <1>2, <1>3, <1>4, <1>5, <1>6 DEF Next, Loop, Visit

(* merge() never leaves the replica ill formed: whatever it is given, after    *)
(* every iteration each node and the head have a list of children.             *)
THEOREM MergeTypeCorrect == Spec => []TypeOK
<1> QED BY InitTyped, NextTyped, PTL DEF Spec

-----------------------------------------------------------------------------
(* A call that has done nothing yet.                                           *)
LEMMA FreshCall ==
  ASSUME IsNodeMap(nodes), IsSiblingMap(children)
  PROVE  /\ \A n \in DOMAIN nodes : nodes[n] = [nodes[n] EXCEPT !.deleted = @ \/ FALSE]
         /\ children = ChildrenWith(children, NewNodes(nodes, nodes))
<1>1. \A n \in DOMAIN nodes : nodes[n] = [nodes[n] EXCEPT !.deleted = @ \/ FALSE]
  BY TombstoneOrFalse DEF IsNodeMap
<1>2. DOMAIN NewNodes(nodes, nodes) = {}
  BY NewNodesAre
<1> QED BY <1>1, <1>2, ChildrenWithNone

-----------------------------------------------------------------------------
(* LoopInv, action by action.                                                  *)

(* Before the first call nothing is pending.                                   *)
LEMMA InitLoopInv == Init => LoopInv
<1> SUFFICES ASSUME Init PROVE LoopInv
  OBVIOUS
<1>0. TypeOK
  BY InitTyped
<1>1. /\ \A n \in DOMAIN nodes : nodes[n] = [nodes[n] EXCEPT !.deleted = @ \/ FALSE]
      /\ children = ChildrenWith(children, NewNodes(nodes, nodes))
  BY <1>0, FreshCall DEF TypeOK
<1>2. before.nodes = nodes /\ before.children = children /\ before.applied = applied
  BY DEF Init, Now
<1>3. DOMAIN nodes = {} /\ DOMAIN incoming = {} /\ kept = {} /\ todo = {}
  BY DEF Init
<1> QED BY <1>1, <1>2, <1>3 DEF LoopInv, Visited, Closed

(* At the call no node of the state has been visited.                          *)
LEMMA CallLoopInv ==
  ASSUME TypeOK, LoopInv, NEW state \in Incoming, Call(state)
  PROVE  LoopInv'
<1>1. /\ \A n \in DOMAIN nodes : nodes[n] = [nodes[n] EXCEPT !.deleted = @ \/ FALSE]
      /\ children = ChildrenWith(children, NewNodes(nodes, nodes))
  BY FreshCall DEF TypeOK
<1>2. /\ before'.nodes = nodes /\ before'.children = children /\ before'.applied = applied
      /\ nodes' = nodes /\ children' = children /\ applied' = applied
      /\ todo' = DOMAIN incoming' /\ kept' = {} /\ Visited' = {}
  BY DEF Call, Now, Visited
<1>3. Closed(nodes)
  BY DEF LoopInv
<1> QED BY <1>1, <1>2, <1>3 DEF LoopInv

(* A new pass only refills todo with what the last one kept.                   *)
LEMMA PassLoopInv ==
  ASSUME TypeOK, LoopInv, NextPass
  PROVE  LoopInv'
<1>1. Visited' = Visited
  BY DEF NextPass, Visited
<1> QED BY <1>1 DEF NextPass, LoopInv

(* A blocked node moves from todo to kept.                                     *)
LEMMA BlockedLoopInv ==
  ASSUME TypeOK, LoopInv, NEW n \in todo, Visit(n), VisitBlocked(n)
  PROVE  LoopInv'
<1>1. Visited' = Visited
  BY DEF Visit, VisitBlocked, Visited, TypeOK
<1> QED BY <1>1 DEF Visit, VisitBlocked, LoopInv

(* A node that is there gets the tombstone it should, and no other change.     *)
LEMMA KnownLoopInv ==
  ASSUME TypeOK, LoopInv, NEW n \in todo, Visit(n), VisitKnown(n)
  PROVE  LoopInv'
<1>1. /\ DOMAIN nodes' = DOMAIN nodes
      /\ \A m \in DOMAIN nodes \ {n} : nodes'[m] = nodes[m]
      /\ nodes'[n] = [nodes[n] EXCEPT !.deleted = @ \/ incoming[n].deleted]
  BY DEF VisitKnown
<1>2. /\ children' = children /\ applied' = applied /\ incoming' = incoming
      /\ before' = before /\ kept' = kept /\ todo' = todo \ {n} /\ progress' = TRUE
      /\ Visited' = Visited \cup {n} /\ n \notin Visited /\ n \in DOMAIN nodes
  BY DEF Visit, VisitKnown, Visited, LoopInv, TypeOK
<1>3. n \in DOMAIN before.nodes
  BY <1>2 DEF LoopInv
<1>4. nodes[n] \in Node /\ before.nodes[n] \in Node /\ incoming[n] \in Node
  BY <1>2, <1>3 DEF TypeOK, IsNodeMap
<1>5. nodes[n] = before.nodes[n]
  <2>1. nodes[n] = [before.nodes[n] EXCEPT !.deleted = @ \/ (n \in Visited /\ incoming[n].deleted)]
    BY <1>2, <1>3 DEF LoopInv
  <2>2. (n \in Visited /\ incoming[n].deleted) = FALSE
    BY <1>2
  <2> QED BY <1>4, <2>1, <2>2, TombstoneOrFalse
<1>6. nodes'[n].previous_id = nodes[n].previous_id
  BY <1>1, <1>4, TombstoneOr DEF Node
<1>7. Closed(nodes')
  BY <1>1, <1>6 DEF Closed, LoopInv
<1>8. ASSUME NEW m \in DOMAIN nodes'
      PROVE  nodes'[m] = IF m \in DOMAIN before.nodes
                         THEN [before.nodes[m] EXCEPT
                                 !.deleted = @ \/ (m \in Visited' /\ incoming[m].deleted)]
                         ELSE incoming[m]
  <2>1. CASE m = n
    <3>1. (n \in Visited' /\ incoming[n].deleted) = incoming[n].deleted
      BY <1>2, <1>4 DEF Node
    <3> QED BY <1>1, <1>3, <1>5, <2>1, <3>1
  <2>2. CASE m # n
    <3>1. (m \in Visited' /\ incoming[m].deleted) = (m \in Visited /\ incoming[m].deleted)
      BY <1>2, <2>2
    <3>2. nodes[m] = IF m \in DOMAIN before.nodes
                     THEN [before.nodes[m] EXCEPT
                             !.deleted = @ \/ (m \in Visited /\ incoming[m].deleted)]
                     ELSE incoming[m]
      BY <1>1 DEF LoopInv
    <3> QED BY <1>1, <2>2, <3>1, <3>2
  <2> QED BY <2>1, <2>2
<1>9. NewNodes(before.nodes, nodes') = NewNodes(before.nodes, nodes)
  BY <1>1, <1>3, NewNodesSame
<1>10. /\ todo' \cap kept' = {}
       /\ kept' \cap DOMAIN nodes' = {}
       /\ Visited' \subseteq DOMAIN nodes'
       /\ DOMAIN before'.nodes \subseteq DOMAIN nodes'
       /\ DOMAIN nodes' \ DOMAIN before'.nodes
             \subseteq Visited' \cap Landing(DOMAIN before'.nodes, incoming')
       /\ children' = ChildrenWith(before'.children, NewNodes(before'.nodes, nodes'))
       /\ applied' = before'.applied \cup (DOMAIN nodes' \ DOMAIN before'.nodes)
  BY <1>1, <1>2, <1>9 DEF LoopInv
<1> QED BY <1>2, <1>7, <1>8, <1>10 DEF LoopInv

(* A node whose predecessor is there lands, and belongs to Landing.            *)
LEMMA ReadyLoopInv ==
  ASSUME TypeOK, LoopInv, NEW n \in todo, Visit(n), VisitReady(n)
  PROVE  LoopInv'
<1> DEFINE K     == DOMAIN before.nodes
           one   == [m \in {n} |-> incoming[m]]
           first == NewNodes(before.nodes, nodes)
           both  == NewNodes(before.nodes, nodes')
<1>1. /\ DOMAIN nodes' = DOMAIN nodes \cup {n}
      /\ \A m \in DOMAIN nodes : nodes'[m] = nodes[m]
      /\ nodes'[n] = incoming[n]
      /\ n \notin DOMAIN nodes
      /\ incoming[n].previous_id \in DOMAIN nodes \cup {Head0}
  BY DEF VisitReady
<1>2. /\ children' = ChildrenWith(children, one) /\ applied' = applied \cup {n}
      /\ incoming' = incoming /\ before' = before /\ kept' = kept
      /\ todo' = todo \ {n} /\ progress' = TRUE
      /\ Visited' = Visited \cup {n} /\ n \notin Visited /\ n \in DOMAIN incoming
      /\ n \notin kept /\ n \notin K /\ K \subseteq DOMAIN nodes
  BY <1>1 DEF Visit, VisitReady, Visited, LoopInv, TypeOK
<1>3. Closed(nodes')
  BY <1>1 DEF Closed, LoopInv
<1>4. n \in Landing(K, incoming)
  <2>1. incoming[n].previous_id \in K \cup Landing(K, incoming) \cup {Head0}
    BY <1>1 DEF LoopInv
  <2> QED BY <1>2, <2>1, LandingSaturated DEF Saturated
<1>5. ASSUME NEW m \in DOMAIN nodes'
      PROVE  nodes'[m] = IF m \in K
                         THEN [before.nodes[m] EXCEPT
                                 !.deleted = @ \/ (m \in Visited' /\ incoming[m].deleted)]
                         ELSE incoming[m]
  <2>1. CASE m = n
    BY <1>1, <1>2, <2>1
  <2>2. CASE m # n
    <3>1. (m \in Visited' /\ incoming[m].deleted) = (m \in Visited /\ incoming[m].deleted)
      BY <1>2, <2>2
    <3>2. nodes[m] = IF m \in K
                     THEN [before.nodes[m] EXCEPT
                             !.deleted = @ \/ (m \in Visited /\ incoming[m].deleted)]
                     ELSE incoming[m]
      BY <1>1, <2>2 DEF LoopInv
    <3> QED BY <1>1, <2>2, <3>1, <3>2
  <2> QED BY <2>1, <2>2
<1>6. children' = ChildrenWith(before.children, both)
  <2>1. IsNodeMap(one)
    <3>1. n \in Id /\ incoming[n] \in Node
      BY <1>2 DEF TypeOK, IsNodeMap
    <3> QED BY <3>1, FS_Singleton DEF IsNodeMap
  <2>2. IsNodeMap(nodes')
    BY NextTyped DEF TypeOK, Next, Loop
  <2>3. IsNodeMap(first) /\ IsNodeMap(both)
    BY <2>2, NewNodesTyped DEF TypeOK
  <2>4. /\ DOMAIN both = DOMAIN first \cup DOMAIN one
        /\ \A m \in DOMAIN first : both[m] = first[m]
        /\ \A m \in DOMAIN one : both[m] = one[m]
    <3>1. /\ DOMAIN first = DOMAIN nodes \ K
          /\ \A m \in DOMAIN first : first[m] = nodes[m]
      BY NewNodesAre
    <3>2. /\ DOMAIN both = DOMAIN nodes' \ K
          /\ \A m \in DOMAIN both : both[m] = nodes'[m]
      BY NewNodesAre
    <3>3. DOMAIN one = {n} /\ one[n] = incoming[n]
      OBVIOUS
    <3> HIDE DEF first, both, one
    <3> QED BY <1>1, <1>2, <3>1, <3>2, <3>3
  <2>5. children = ChildrenWith(before.children, first)
    BY DEF LoopInv
  <2>6. IsSiblingMap(before.children)
    BY DEF TypeOK
  <2> HIDE DEF first, both, one
  <2> QED BY <1>2, <2>1, <2>3, <2>4, <2>5, <2>6, ChildrenOneByOne
<1>7. /\ todo' \cap kept' = {}
      /\ kept' \cap DOMAIN nodes' = {}
      /\ Visited' \subseteq DOMAIN nodes'
      /\ K \subseteq DOMAIN nodes'
      /\ DOMAIN nodes' \ K \subseteq Visited' \cap Landing(K, incoming')
      /\ applied' = before'.applied \cup (DOMAIN nodes' \ K)
  BY <1>1, <1>2, <1>4 DEF LoopInv
<1> QED BY <1>2, <1>3, <1>5, <1>6, <1>7 DEF LoopInv

(* LoopInv is kept by whatever the loop, or its caller, does next.             *)
LEMMA NextLoopInv == TypeOK /\ LoopInv /\ [Next]_vars => LoopInv'
<1> SUFFICES ASSUME TypeOK, LoopInv, [Next]_vars PROVE LoopInv'
  OBVIOUS
<1>1. ASSUME NEW state \in Incoming, Call(state) PROVE LoopInv'
  BY <1>1, CallLoopInv
<1>2. CASE NextPass
  BY <1>2, PassLoopInv
<1>3. ASSUME NEW n \in todo, Visit(n) PROVE LoopInv'
  BY <1>3, KnownLoopInv, BlockedLoopInv, ReadyLoopInv DEF Visit
<1>4. CASE UNCHANGED vars
  BY <1>4 DEF vars, LoopInv, Visited
<1> QED BY <1>1, <1>2, <1>3, <1>4 DEF Next, Loop

(* When the passes stop, nothing more can land.                                *)
LEMMA ReturnedIsOneStep == TypeOK /\ LoopInv => MergeIsOneStep
<1> SUFFICES ASSUME TypeOK, LoopInv, Returned
             PROVE  /\ nodes = NodesMerged(before.nodes, incoming)
                    /\ children = ChildrenWith(before.children, NewNodes(before.nodes, nodes))
                    /\ applied = before.applied \cup (DOMAIN nodes \ DOMAIN before.nodes)
  BY DEF MergeIsOneStep
<1> DEFINE K == DOMAIN before.nodes
           L == DOMAIN incoming \cap DOMAIN nodes
<1>1. /\ todo = {} /\ ~progress
      /\ \A n \in kept : incoming[n].previous_id \notin DOMAIN nodes \cup {Head0}
      /\ Visited = DOMAIN incoming \ kept /\ Visited \subseteq DOMAIN nodes
      /\ kept \cap DOMAIN nodes = {} /\ K \subseteq DOMAIN nodes
      /\ DOMAIN nodes \ K \subseteq Landing(K, incoming)
  BY DEF Returned, LoopInv, Visited
<1>2. Saturated(L, K, incoming)
  BY <1>1 DEF Saturated
<1>3. DOMAIN nodes = K \cup Landing(K, incoming)
  <2>1. Landing(K, incoming) \subseteq L
    BY <1>2, LandingLeast
  <2> QED BY <1>1, <2>1
<1>4. ASSUME NEW n \in DOMAIN nodes
      PROVE  nodes[n] = IF n \in K
                        THEN [before.nodes[n] EXCEPT
                                !.deleted = @ \/ (n \in DOMAIN incoming /\ incoming[n].deleted)]
                        ELSE incoming[n]
  <2>1. (n \in DOMAIN incoming /\ incoming[n].deleted) = (n \in Visited /\ incoming[n].deleted)
    BY <1>1
  <2> QED BY <2>1 DEF LoopInv
<1>5. nodes = [n \in DOMAIN nodes |-> nodes[n]]
  BY DEF TypeOK, IsNodeMap
<1>6. nodes = NodesMerged(before.nodes, incoming)
  BY <1>3, <1>4, <1>5 DEF NodesMerged
<1> QED BY <1>6 DEF LoopInv

(* After every iteration the replica holds exactly what it held, the           *)
(* tombstones and the landed nodes of the part visited so far.                 *)
THEOREM MergeLoopCorrect == Spec => []LoopInv
<1> QED BY InitTyped, NextTyped, InitLoopInv, NextLoopInv, PTL DEF Spec

(* However the passes order the nodes of the state, whatever it holds, merge() *)
(* returns with the one replica that RGAReplicas' Merge step gives.            *)
THEOREM MergeImplementsStep == Spec => []MergeIsOneStep
<1>1. TypeOK /\ LoopInv => MergeIsOneStep
  BY ReturnedIsOneStep
<1> QED BY MergeTypeCorrect, MergeLoopCorrect, <1>1, PTL

-----------------------------------------------------------------------------
(* merge() and apply().                                                        *)

(* What every iteration of the sweeps keeps.                                   *)

\* The changes of the batch that have landed so far.
Done == {d \in began.batch : d.operation_id \in applied}

\* Every element has its operation marked applied; the two halves of the buffer
\* hold the same operations.
BufferInv ==
    /\ DOMAIN nodes \subseteq applied
    /\ pending \subseteq Changes /\ IsFiniteSet(pending)
    /\ pendingOps = OperationIds(pending)
    /\ began.batch \subseteq Changes /\ IsFiniteSet(began.batch)
    /\ IsNodeMap(began.nodes) /\ IsSiblingMap(began.children)
    /\ OperationIds(began.batch) \cap began.applied = {}

\* Inside the sweeps the replica is what the changes landed so far make of the
\* one apply() was called on, nothing landed that could not, what did not land is
\* still buffered, and behind the iterator of a sweep without progress everything
\* waits.
SweepInv ==
    sweeping =>
        /\ Returned
        /\ Done \subseteq Landed(DOMAIN began.nodes, began.batch)
        /\ nodes = NodesAfter(began.nodes, Done)
        /\ children = ChildrenWith(began.children, NewNodes(began.nodes, nodes))
        /\ applied = began.applied \cup OperationIds(Done)
        /\ ErasedBy(Done) \subseteq DOMAIN nodes
        /\ {d \in pending : d.operation_id \notin applied} = began.batch \ Done
        /\ ahead \subseteq pending
        /\ ~swept => /\ OperationIds(pending \ ahead) \cap applied = {}
                     /\ Blocked(DOMAIN nodes, pending \ ahead)

Inv == TypeOK /\ LoopInv /\ BufferInv /\ SweepInv

-----------------------------------------------------------------------------
(* The dependency try_apply_change() looks for is what a change waits for.     *)
LEMMA DependencyIs ==
  ASSUME NEW c \in Change
  PROVE  DependencyPresent(c) <=> Ready(DOMAIN nodes, c)
<1> QED BY DEF DependencyPresent, Ready, Blocked, Inserts, Deletes, Change

(* The elements after changes landed.                                          *)
LEMMA ElementsAfter ==
  ASSUME NEW old, NEW cs
  PROVE  DOMAIN NodesAfter(old, cs) = DOMAIN old \cup {c.element_id : c \in Inserts(cs)}
<1> QED BY DEF NodesAfter, Requested

(* An insert that is not applied brings an element that is not there.          *)
LEMMA InsertIsFresh ==
  ASSUME BufferInv, NEW c \in Change, c.operation_id \notin applied, c \in Inserts({c})
  PROVE  c.element_id = c.operation_id /\ c.element_id \notin DOMAIN nodes
<1> QED BY DEF BufferInv, Inserts, Change

(* A change that lands leaves the replica well formed.                         *)
LEMMA LandingTyped ==
  ASSUME TypeOK, LoopInv, BufferInv, NEW c \in Change, c.operation_id \notin applied,
         TryApplyChange(c)
  PROVE  /\ Grown(nodes, nodes') /\ IsSiblingMap(children')
         /\ DOMAIN nodes' = DOMAIN nodes \cup {d.element_id : d \in Inserts({c})}
         /\ DOMAIN children' = DOMAIN nodes' \cup {Head0}
         /\ ErasedBy({c}) \subseteq DOMAIN nodes
<1>1. {c} \subseteq Change /\ IsFiniteSet({c}) /\ OneEach({c})
  BY FS_Singleton DEF OneEach
<1>2. Ready(DOMAIN nodes, c)
  BY DependencyIs DEF TryApplyChange
<1>3. Landed(DOMAIN nodes, {c}) = {c}
  <2>1. DOMAIN nodes \cup {d.element_id : d \in Inserts({})} = DOMAIN nodes
    BY DEF Inserts
  <2>2. c \in Landed(DOMAIN nodes, {c})
    BY <1>1, <1>2, <2>1, LandsNext
  <2> QED BY <1>1, <2>2, LandedAre
<1>4. nodes' = NodesAfter(nodes, {c})
  BY DEF TryApplyChange
<1>5. IsNodeMap(nodes) /\ Closed(nodes)
  BY DEF TypeOK, LoopInv
<1>6. Grown(nodes, nodes')
  BY <1>1, <1>3, <1>4, <1>5, NodesAfterGrows
<1>7. DOMAIN nodes' = DOMAIN nodes \cup {d.element_id : d \in Inserts({c})}
  BY <1>4, ElementsAfter
<1> DEFINE fresh == NewNodes(nodes, nodes')
<1>8. IsNodeMap(fresh)
  BY <1>6, NewNodesTyped DEF Grown
<1>9. /\ DOMAIN fresh = DOMAIN nodes' \ DOMAIN nodes
      /\ \A n \in DOMAIN fresh : fresh[n] = nodes'[n]
  BY NewNodesAre
<1>10. children' = ChildrenWith(children, fresh)
  BY <1>4 DEF TryApplyChange
<1> HIDE DEF fresh
<1>11. IsSiblingMap(children')
  BY <1>8, <1>10, ChildrenWithKids DEF TypeOK
<1>12. DOMAIN children' = DOMAIN nodes' \cup {Head0}
  <2>1. DOMAIN children' = DOMAIN children \cup DOMAIN fresh \cup ParentsOf(fresh)
    BY <1>10, ChildrenWithValue
  <2>2. ParentsOf(fresh) \subseteq DOMAIN nodes' \cup {Head0}
    BY <1>6, <1>9 DEF ParentsOf, Grown, Closed
  <2> QED BY <1>6, <1>9, <2>1, <2>2 DEF TypeOK, Grown
<1>13. ErasedBy({c}) \subseteq DOMAIN nodes
  BY <1>2 DEF Ready, Blocked, ErasedBy, Inserts, Deletes
<1> QED BY <1>6, <1>7, <1>11, <1>12, <1>13

(* Once a change has landed the last merge() is over and done with.            *)
LEMMA ForgetLoopInv ==
  ASSUME TypeOK, todo = {}, ForgetMerge, Closed(nodes'), IsNodeMap(nodes'),
         IsSiblingMap(children'), DOMAIN children' = DOMAIN nodes' \cup {Head0},
         applied' \in SUBSET Id
  PROVE  TypeOK' /\ LoopInv'
<1>1. /\ incoming' = [n \in {} |-> n] /\ kept' = {} /\ todo' = {}
      /\ progress' = progress
      /\ before' = [nodes |-> nodes', children |-> children', applied |-> applied']
  BY DEF ForgetMerge
<1>2. before'.nodes = nodes' /\ before'.children = children' /\ before'.applied = applied'
  BY <1>1
<1>3. IsNodeMap(incoming') /\ DOMAIN incoming' = {}
  BY <1>1, FS_EmptySet DEF IsNodeMap
<1>4. TypeOK'
  BY <1>1, <1>2, <1>3 DEF TypeOK
<1>5. \A n \in DOMAIN nodes' : nodes'[n] = [nodes'[n] EXCEPT !.deleted = @ \/ FALSE]
  BY TombstoneOrFalse DEF IsNodeMap
<1>6. children' = ChildrenWith(children', NewNodes(nodes', nodes'))
  <2>1. DOMAIN NewNodes(nodes', nodes') = {}
    BY NewNodesAre
  <2> QED BY <2>1, ChildrenWithNone
<1>7. LoopInv'
  BY <1>1, <1>2, <1>3, <1>5, <1>6 DEF LoopInv, Visited
<1> QED BY <1>4, <1>7

-----------------------------------------------------------------------------
(* Inv, step by step.                                                          *)

(* Before any call nothing is buffered.                                        *)
LEMMA InitLoops == LoopsInit => Inv
<1> SUFFICES ASSUME LoopsInit PROVE Inv
  OBVIOUS
<1>1. TypeOK /\ LoopInv
  BY InitTyped, InitLoopInv DEF LoopsInit
<1>2. /\ began.nodes = nodes /\ began.children = children /\ began.batch = {}
      /\ pending = {} /\ pendingOps = {} /\ ~sweeping
      /\ DOMAIN nodes = {}
  BY DEF LoopsInit, Init
<1>3. BufferInv
  BY <1>1, <1>2, FS_EmptySet DEF BufferInv, OperationIds, TypeOK
<1> QED BY <1>1, <1>2, <1>3 DEF Inv, SweepInv

(* merge() marks what it lands applied, and runs outside the sweeps.           *)
LEMMA MergeKeeps ==
  ASSUME Inv, Merge
  PROVE  Inv'
<1>1. TypeOK' /\ LoopInv'
  BY NextTyped, NextLoopInv DEF Inv, Merge
<1>2. DOMAIN nodes' \subseteq applied'
  <2>0. DOMAIN nodes \subseteq applied
    BY DEF Inv, BufferInv
  <2>1. ASSUME NEW state \in Incoming, Call(state) PROVE DOMAIN nodes' \subseteq applied'
    BY <2>0, <2>1 DEF Call
  <2>2. CASE NextPass
    BY <2>0, <2>2 DEF NextPass
  <2>3. ASSUME NEW n \in todo, Visit(n) PROVE DOMAIN nodes' \subseteq applied'
    BY <2>0, <2>3 DEF Visit, VisitKnown, VisitBlocked, VisitReady
  <2> QED BY <2>1, <2>2, <2>3 DEF Merge, Next, Loop
<1>3. ~sweeping' /\ UNCHANGED <<pending, pendingOps, began>>
  BY DEF Merge, buffer, sweep
<1>4. BufferInv'
  BY <1>2, <1>3 DEF Inv, BufferInv
<1> QED BY <1>1, <1>3, <1>4 DEF Inv, SweepInv

(* apply() of a change that lands opens the sweeps with that change alone.     *)
LEMMA ApplyNowKeeps ==
  ASSUME Inv, NEW c \in Changes, ApplyNow(c)
  PROVE  Inv'
<1>0. c \in Change /\ Changes \subseteq Change /\ c.operation_id \in Id
  BY ChangesAssumption DEF Change
<1>1. /\ Returned /\ c.operation_id \notin applied /\ TryApplyChange(c)
      /\ applied' = applied \cup {c.operation_id}
      /\ sweeping' = TRUE /\ ahead' = pending /\ swept' = FALSE
      /\ pending' = pending /\ pendingOps' = pendingOps
  BY DEF ApplyNow, Idle, buffer
<1>2. began' = [nodes |-> nodes, children |-> children, applied |-> applied,
                batch |-> {c} \cup {d \in pending : d.operation_id \notin applied}]
  BY DEF ApplyNow
<1>3. /\ began'.nodes = nodes /\ began'.children = children /\ began'.applied = applied
      /\ began'.batch = {c} \cup {d \in pending : d.operation_id \notin applied}
  BY <1>2
<1>4. /\ Grown(nodes, nodes') /\ IsSiblingMap(children')
      /\ DOMAIN nodes' = DOMAIN nodes \cup {d.element_id : d \in Inserts({c})}
      /\ DOMAIN children' = DOMAIN nodes' \cup {Head0}
      /\ ErasedBy({c}) \subseteq DOMAIN nodes
  BY <1>0, <1>1, LandingTyped DEF Inv
<1>5. TypeOK' /\ LoopInv'
  BY <1>0, <1>1, <1>4, ForgetLoopInv DEF ApplyNow, Inv, Returned, Grown, TypeOK
<1>6. Returned'
  BY <1>1 DEF ApplyNow, ForgetMerge, Returned
<1>7. DOMAIN nodes' \subseteq applied'
  BY <1>0, <1>1, <1>4, InsertIsFresh DEF Inv, BufferInv, Inserts
<1>8. /\ began'.batch \subseteq Changes /\ IsFiniteSet(began'.batch)
      /\ OperationIds(began'.batch) \cap began'.applied = {}
  <2>1. pending \subseteq Changes /\ IsFiniteSet(pending)
    BY DEF Inv, BufferInv
  <2>2. IsFiniteSet({d \in pending : d.operation_id \notin applied} \cup {c})
    BY <2>1, FS_Subset, FS_AddElement
  <2>3. {c} \cup {d \in pending : d.operation_id \notin applied}
          = {d \in pending : d.operation_id \notin applied} \cup {c}
    OBVIOUS
  <2> QED BY <1>1, <1>3, <2>1, <2>2, <2>3 DEF OperationIds
<1>9. BufferInv'
  BY <1>1, <1>3, <1>7, <1>8 DEF Inv, BufferInv, TypeOK
<1>10. Done' = {c}
  BY <1>1, <1>3, <1>8, ChangesAssumption DEF Done
<1>11. {c} \subseteq Landed(DOMAIN nodes, began'.batch)
  <2>1. Ready(DOMAIN nodes, c)
    BY <1>0, <1>1, DependencyIs DEF TryApplyChange
  <2>2. began'.batch \subseteq Change /\ OneEach(began'.batch) /\ c \in began'.batch
    BY <1>0, <1>3, <1>8, ChangesAssumption DEF OneEach
  <2>3. DOMAIN nodes \cup {d.element_id : d \in Inserts({})} = DOMAIN nodes
    BY DEF Inserts
  <2> QED BY <2>1, <2>2, <2>3, LandsNext
<1>12. /\ nodes' = NodesAfter(nodes, {c})
       /\ children' = ChildrenWith(children, NewNodes(nodes, nodes'))
  BY <1>1 DEF TryApplyChange
<1>13. applied' = began'.applied \cup OperationIds(Done')
  BY <1>1, <1>3, <1>10 DEF OperationIds
<1>14. {d \in pending' : d.operation_id \notin applied'} = began'.batch \ Done'
  <2>1. pending \subseteq Changes
    BY DEF Inv, BufferInv
  <2> QED BY <1>1, <1>3, <1>10, <2>1, ChangesAssumption
<1>15. /\ OperationIds(pending' \ ahead') \cap applied' = {}
       /\ Blocked(DOMAIN nodes', pending' \ ahead')
  BY <1>1 DEF OperationIds, Blocked, Inserts, Deletes
<1>16. ErasedBy(Done') \subseteq DOMAIN nodes'
  BY <1>4, <1>10
<1>17. SweepInv'
  BY <1>1, <1>3, <1>6, <1>10, <1>11, <1>12, <1>13, <1>14, <1>15, <1>16 DEF SweepInv
<1> QED BY <1>5, <1>9, <1>17 DEF Inv

(* apply() of a change that waits only adds it to the buffer.                  *)
LEMMA ApplyLaterKeeps ==
  ASSUME Inv, NEW c \in Changes, ApplyLater(c)
  PROVE  Inv'
<1>1. /\ ~sweeping /\ UNCHANGED <<vars, sweep>>
      /\ pending' = IF c.operation_id \in pendingOps THEN pending ELSE pending \cup {c}
      /\ pendingOps' = pendingOps \cup {c.operation_id}
  BY DEF ApplyLater, Idle
<1>2. TypeOK' /\ LoopInv' /\ SweepInv'
  BY <1>1 DEF Inv, vars, sweep, TypeOK, LoopInv, Visited, SweepInv
<1>3. pending' \subseteq Changes /\ IsFiniteSet(pending')
  BY <1>1, FS_AddElement DEF Inv, BufferInv
<1>4. pendingOps' = OperationIds(pending')
  BY <1>1 DEF Inv, BufferInv, OperationIds
<1>5. BufferInv'
  BY <1>1, <1>3, <1>4 DEF Inv, BufferInv, vars, sweep
<1> QED BY <1>2, <1>5 DEF Inv

(* A change that leaves the buffer leaves both of its halves.                  *)
LEMMA LeaveKeeps ==
  ASSUME Inv, NEW d \in ahead, sweeping, Leave(d)
  PROVE  /\ d \in Changes /\ d \in pending /\ pending' = pending \ {d}
         /\ pending' \subseteq Changes /\ IsFiniteSet(pending')
         /\ pendingOps' = OperationIds(pending')
         /\ ahead' \subseteq pending' /\ swept' = TRUE
         /\ sweeping' /\ began' = began
<1>1. /\ pending' = pending \ {d} /\ pendingOps' = pendingOps \ {d.operation_id}
      /\ ahead' = ahead \ {d} /\ swept' = TRUE /\ sweeping' = sweeping /\ began' = began
  BY DEF Leave
<1>2. /\ pending \subseteq Changes /\ IsFiniteSet(pending)
      /\ pendingOps = OperationIds(pending) /\ ahead \subseteq pending
  BY DEF Inv, BufferInv, SweepInv
<1>3. IsFiniteSet(pending')
  BY <1>1, <1>2, FS_Subset
<1>4. pendingOps' = OperationIds(pending')
  BY <1>1, <1>2, ChangesAssumption DEF OperationIds
<1> QED BY <1>1, <1>2, <1>3, <1>4

(* A buffered change that merge(), or an earlier change of the sweeps, already *)
(* applied only leaves the buffer.                                             *)
LEMMA RetryAppliedKeeps ==
  ASSUME Inv, NEW d \in ahead, sweeping, RetryApplied(d)
  PROVE  Inv'
<1>1. d.operation_id \in applied /\ Leave(d) /\ UNCHANGED vars
  BY DEF RetryApplied
<1>2. /\ pending' = pending \ {d}
      /\ pending' \subseteq Changes /\ IsFiniteSet(pending')
      /\ pendingOps' = OperationIds(pending')
      /\ ahead' \subseteq pending' /\ swept' = TRUE
      /\ sweeping' /\ began' = began
  BY <1>1, LeaveKeeps
<1>3. TypeOK' /\ LoopInv'
  BY <1>1 DEF Inv, vars, TypeOK, LoopInv, Visited
<1>4. BufferInv'
  BY <1>1, <1>2 DEF Inv, BufferInv, vars
<1>5. {e \in pending' : e.operation_id \notin applied'}
        = {e \in pending : e.operation_id \notin applied}
  BY <1>1, <1>2 DEF vars
<1>6. SweepInv'
  BY <1>1, <1>2, <1>5 DEF Inv, SweepInv, vars, Returned, Done
<1> QED BY <1>3, <1>4, <1>6 DEF Inv

(* A buffered change that lands joins those that landed before it.             *)
LEMMA RetryNowKeeps ==
  ASSUME Inv, NEW d \in ahead, sweeping, RetryNow(d)
  PROVE  Inv'
<1> DEFINE K == DOMAIN began.nodes
<1>1. /\ d.operation_id \notin applied /\ TryApplyChange(d) /\ Leave(d) /\ ForgetMerge
      /\ applied' = applied \cup {d.operation_id}
  BY DEF RetryNow
<1>2. /\ d \in Changes /\ d \in pending /\ pending' = pending \ {d}
      /\ pending' \subseteq Changes /\ IsFiniteSet(pending')
      /\ pendingOps' = OperationIds(pending')
      /\ ahead' \subseteq pending' /\ swept' = TRUE
      /\ sweeping' /\ began' = began
  BY <1>1, LeaveKeeps
<1>3. d \in Change /\ d.operation_id \in Id
  BY <1>2, ChangesAssumption DEF Change
<1>4. /\ Returned
      /\ Done \subseteq Landed(K, began.batch)
      /\ nodes = NodesAfter(began.nodes, Done)
      /\ children = ChildrenWith(began.children, NewNodes(began.nodes, nodes))
      /\ applied = began.applied \cup OperationIds(Done)
      /\ ErasedBy(Done) \subseteq DOMAIN nodes
      /\ {e \in pending : e.operation_id \notin applied} = began.batch \ Done
  BY DEF Inv, SweepInv
<1>5. /\ Grown(nodes, nodes') /\ IsSiblingMap(children')
      /\ DOMAIN nodes' = DOMAIN nodes \cup {e.element_id : e \in Inserts({d})}
      /\ DOMAIN children' = DOMAIN nodes' \cup {Head0}
      /\ ErasedBy({d}) \subseteq DOMAIN nodes
  BY <1>1, <1>3, LandingTyped DEF Inv
<1>6. TypeOK' /\ LoopInv'
  BY <1>1, <1>3, <1>4, <1>5, ForgetLoopInv DEF Inv, Returned, Grown, TypeOK
<1>7. Returned'
  BY <1>1, <1>4 DEF ForgetMerge, Returned
<1>8. d \in Inserts({d}) => d.element_id = d.operation_id /\ d.element_id \notin DOMAIN nodes
  BY <1>1, <1>3, InsertIsFresh DEF Inv
<1>9. BufferInv'
  <2>1. DOMAIN nodes' \subseteq applied'
    BY <1>1, <1>5, <1>8 DEF Inv, BufferInv, Inserts
  <2> QED BY <1>2, <2>1 DEF Inv, BufferInv
<1>10. /\ began.batch \subseteq Change /\ IsFiniteSet(began.batch) /\ OneEach(began.batch)
       /\ IsNodeMap(began.nodes) /\ IsSiblingMap(began.children) /\ d \in began.batch \ Done
  <2>1. began.batch \subseteq Changes /\ d \in began.batch \ Done
    BY <1>1, <1>2, <1>4 DEF Inv, BufferInv
  <2> QED BY <2>1, ChangesAssumption DEF Inv, BufferInv, OneEach
<1>11. Done' = Done \cup {d} /\ Done \subseteq began.batch
  <2>1. \A e \in began.batch : e.operation_id = d.operation_id => e = d
    BY <1>10 DEF OneEach
  <2> QED BY <1>1, <1>2, <1>10, <2>1 DEF Done
<1>12. DOMAIN nodes = K \cup {e.element_id : e \in Inserts(Done)}
  BY <1>4, ElementsAfter
<1>13. Done' \subseteq Landed(K, began.batch)
  <2>1. Ready(DOMAIN nodes, d)
    BY <1>1, <1>3, DependencyIs DEF TryApplyChange
  <2>2. d \in Landed(K, began.batch)
    BY <1>4, <1>10, <1>12, <2>1, LandsNext
  <2> QED BY <1>4, <1>11, <2>2
<1>14. nodes' = NodesAfter(began.nodes, Done')
  <2>1. Done \cup {d} \subseteq Change /\ IsFiniteSet(Done) /\ OneEach(Done \cup {d})
    BY <1>10, <1>11, FS_Subset DEF OneEach
  <2>2. ErasedBy(Done) \subseteq DOMAIN NodesAfter(began.nodes, Done)
    BY <1>4
  <2>3. d \in Inserts({d}) => d.element_id \notin DOMAIN NodesAfter(began.nodes, Done)
    BY <1>4, <1>8
  <2>4. NodesAfter(NodesAfter(began.nodes, Done), {d}) = NodesAfter(began.nodes, Done \cup {d})
    BY <1>10, <2>1, <2>2, <2>3, NodesAfterOneMore
  <2>5. nodes' = NodesAfter(nodes, {d})
    BY <1>1 DEF TryApplyChange
  <2> QED BY <1>4, <1>11, <2>4, <2>5
<1>15. children' = ChildrenWith(began.children, NewNodes(began.nodes, nodes'))
  <2>1. IsNodeMap(nodes) /\ K \subseteq DOMAIN nodes
    BY <1>12 DEF Inv, TypeOK
  <2>2. ChildrenWith(ChildrenWith(began.children, NewNodes(began.nodes, nodes)),
                     NewNodes(nodes, nodes'))
          = ChildrenWith(began.children, NewNodes(began.nodes, nodes'))
    BY <1>5, <1>10, <2>1, ChildrenTogether
  <2>3. children' = ChildrenWith(children, NewNodes(nodes, nodes'))
    BY <1>1 DEF TryApplyChange
  <2> QED BY <1>4, <2>2, <2>3
<1>16. applied' = began.applied \cup OperationIds(Done')
  BY <1>1, <1>4, <1>11 DEF OperationIds
<1>17. ErasedBy(Done') \subseteq DOMAIN nodes'
  BY <1>4, <1>5, <1>11 DEF ErasedBy, Deletes
<1>18. {e \in pending' : e.operation_id \notin applied'} = began.batch \ Done'
  <2>1. pending \subseteq Changes
    BY DEF Inv, BufferInv
  <2>2. \A e \in pending : e.operation_id = d.operation_id => e = d
    BY <1>2, <2>1, ChangesAssumption
  <2> QED BY <1>1, <1>2, <1>4, <1>11, <2>2
<1>19. SweepInv'
  BY <1>2, <1>7, <1>13, <1>14, <1>15, <1>16, <1>17, <1>18 DEF SweepInv
<1> QED BY <1>6, <1>9, <1>19 DEF Inv

(* A buffered change that still waits is passed over.                          *)
LEMMA RetryLaterKeeps ==
  ASSUME Inv, NEW d \in ahead, sweeping, RetryLater(d)
  PROVE  Inv'
<1>1. /\ d.operation_id \notin applied /\ ~DependencyPresent(d) /\ ahead' = ahead \ {d}
      /\ UNCHANGED <<vars, buffer, sweeping, swept, began>>
  BY DEF RetryLater
<1>2. TypeOK' /\ LoopInv' /\ BufferInv'
  BY <1>1 DEF Inv, vars, buffer, TypeOK, LoopInv, Visited, BufferInv
<1>3. d \in pending /\ d \in Change
  BY ChangesAssumption DEF Inv, SweepInv, BufferInv
<1>4. Blocked(DOMAIN nodes, {d})
  BY <1>1, <1>3, DependencyIs DEF Ready
<1>5. ~swept => /\ OperationIds(pending \ ahead') \cap applied = {}
                /\ Blocked(DOMAIN nodes, pending \ ahead')
  <2> SUFFICES ASSUME ~swept
               PROVE  /\ OperationIds(pending \ ahead') \cap applied = {}
                      /\ Blocked(DOMAIN nodes, pending \ ahead')
    OBVIOUS
  <2>1. /\ OperationIds(pending \ ahead) \cap applied = {}
        /\ Blocked(DOMAIN nodes, pending \ ahead)
    BY DEF Inv, SweepInv
  <2>2. pending \ ahead' \subseteq (pending \ ahead) \cup {d}
    BY <1>1
  <2>3. OperationIds(pending \ ahead') \cap applied = {}
    BY <1>1, <2>1, <2>2 DEF OperationIds
  <2> QED BY <1>4, <2>1, <2>2, <2>3 DEF Blocked, Inserts, Deletes
<1>6. SweepInv'
  BY <1>1, <1>5 DEF Inv, SweepInv, vars, buffer, Returned, Done
<1> QED BY <1>2, <1>6 DEF Inv

(* Another sweep starts with the whole buffer ahead of it.                     *)
LEMMA NextSweepKeeps ==
  ASSUME Inv, sweeping, NextSweep
  PROVE  Inv'
<1>1. /\ sweeping' = swept /\ ahead' = (IF swept THEN pending ELSE {}) /\ swept' = FALSE
      /\ UNCHANGED <<vars, buffer, began>>
  BY DEF NextSweep
<1>2. TypeOK' /\ LoopInv' /\ BufferInv'
  BY <1>1 DEF Inv, vars, buffer, TypeOK, LoopInv, Visited, BufferInv
<1>3. sweeping' => ahead' = pending
  BY <1>1
<1>4. sweeping' => /\ OperationIds(pending' \ ahead') \cap applied' = {}
                   /\ Blocked(DOMAIN nodes', pending' \ ahead')
  BY <1>1, <1>3 DEF OperationIds, Blocked, Inserts, Deletes, buffer
<1>5. SweepInv'
  BY <1>1, <1>3, <1>4 DEF Inv, SweepInv, vars, buffer, Returned, Done
<1> QED BY <1>2, <1>5 DEF Inv

(* Inv is kept by whatever the replica, or its caller, does next.              *)
LEMMA NextLoops == Inv /\ [LoopsNext]_loopVars => Inv'
<1> SUFFICES ASSUME Inv, [LoopsNext]_loopVars PROVE Inv'
  OBVIOUS
<1>1. CASE Merge
  BY <1>1, MergeKeeps
<1>2. ASSUME sweeping, NEW d \in ahead, RetryApplied(d) \/ RetryNow(d) \/ RetryLater(d)
      PROVE  Inv'
  BY <1>2, RetryAppliedKeeps, RetryNowKeeps, RetryLaterKeeps
<1>3. CASE sweeping /\ NextSweep
  BY <1>3, NextSweepKeeps
<1>4. ASSUME NEW c \in Changes, ApplyNow(c) \/ ApplyLater(c) PROVE Inv'
  BY <1>4, ApplyNowKeeps, ApplyLaterKeeps
<1>5. CASE UNCHANGED loopVars
  <2>1. UNCHANGED <<vars, buffer, sweep>>
    BY <1>5 DEF loopVars
  <2>2. TypeOK' /\ LoopInv'
    BY <2>1 DEF Inv, vars, TypeOK, LoopInv, Visited
  <2>3. BufferInv'
    BY <2>1 DEF Inv, vars, buffer, sweep, BufferInv
  <2>4. SweepInv'
    BY <2>1 DEF Inv, vars, buffer, sweep, SweepInv, Returned, Done
  <2> QED BY <2>2, <2>3, <2>4 DEF Inv
<1> QED BY <1>1, <1>2, <1>3, <1>4, <1>5 DEF LoopsNext, Retry

(* When the sweeps stop, nothing more can land.                                *)
LEMMA SweptIsOneStep == Inv => ApplyIsOneStep
<1> SUFFICES ASSUME Inv, sweeping, ahead = {}, ~swept PROVE ApplyIsOneStep
  BY DEF ApplyIsOneStep
<1> DEFINE K      == DOMAIN began.nodes
           landed == Landed(K, began.batch)
<1>1. /\ Done \subseteq landed
      /\ nodes = NodesAfter(began.nodes, Done)
      /\ children = ChildrenWith(began.children, NewNodes(began.nodes, nodes))
      /\ applied = began.applied \cup OperationIds(Done)
      /\ {d \in pending : d.operation_id \notin applied} = began.batch \ Done
      /\ OperationIds(pending) \cap applied = {}
      /\ Blocked(DOMAIN nodes, pending)
      /\ pendingOps = OperationIds(pending)
  <2>1. pending \ ahead = pending
    OBVIOUS
  <2> QED BY <2>1 DEF Inv, SweepInv, BufferInv
<1>2. pending = began.batch \ Done
  BY <1>1 DEF OperationIds
<1>3. DOMAIN nodes = K \cup {d.element_id : d \in Inserts(Done)}
  BY <1>1, ElementsAfter
<1>4. began.batch \subseteq Change /\ OneEach(began.batch)
  BY ChangesAssumption DEF Inv, BufferInv, OneEach
<1>5. Done = landed
  BY <1>1, <1>2, <1>3, <1>4, LandedAll
<1> HIDE DEF landed
<1>6. /\ nodes = NodesAfter(began.nodes, landed)
      /\ children = ChildrenWith(began.children, NewNodes(began.nodes, nodes))
      /\ applied = began.applied \cup OperationIds(landed)
      /\ pending = began.batch \ landed
      /\ pendingOps = OperationIds(pending)
  BY <1>1, <1>2, <1>5
<1> QED BY <1>6 DEF ApplyIsOneStep, landed

(* Inv holds after every iteration of either loop.                             *)
LEMMA AlwaysInv == LoopsSpec => []Inv
<1> QED BY InitLoops, NextLoops, PTL DEF LoopsSpec

(* However merge() and apply() take turns, after every iteration each node and *)
(* the head have a list of children.                                           *)
THEOREM LoopsTypeCorrect == LoopsSpec => []TypeOK
<1>1. Inv => TypeOK
  BY DEF Inv
<1> QED BY AlwaysInv, <1>1, PTL

(* A merge() called on a replica that apply() also changes, with changes       *)
(* buffered or not, still has one result for every order of the nodes.         *)
THEOREM LoopsMergeImplementsStep == LoopsSpec => [](LoopInv /\ MergeIsOneStep)
<1>1. Inv => LoopInv /\ MergeIsOneStep
  BY ReturnedIsOneStep DEF Inv
<1> QED BY AlwaysInv, <1>1, PTL

(* However the buffer is ordered, whatever merges came between, apply() returns *)
(* with exactly the changes landed whose chains resolve, and the rest buffered: *)
(* the one replica that RGAReplicas' Apply steps give.                          *)
THEOREM ApplyImplementsStep == LoopsSpec => []ApplyIsOneStep
<1> QED BY AlwaysInv, SweptIsOneStep, PTL

-----------------------------------------------------------------------------
(* The tree that is rendered.                                                  *)

\* Every chain of predecessors leads to the head, and children lists each
\* element once, below its predecessor, siblings in the order of their ids.
IsTree ==
    /\ Whole(nodes) /\ Mirrors(children, nodes)
    /\ children = SiblingLists(nodes)

(* The empty replica is a tree.                                                *)
LEMMA InitTree == LoopsInit => IsTree
<1> SUFFICES ASSUME LoopsInit PROVE IsTree
  OBVIOUS
<1>1. /\ DOMAIN nodes = {} /\ DOMAIN children = {Head0} /\ children[Head0] = << >>
  BY DEF LoopsInit, Init
<1>2. Whole(nodes)
  BY <1>1 DEF Whole, Landing
<1>3. Below(nodes, Head0) = {} /\ IsSortedListOf(<< >>, {})
  BY <1>1 DEF Below, IsSortedListOf, Range
<1>4. Mirrors(children, nodes)
  BY <1>1, <1>3 DEF Mirrors
<1>5. children = [p \in {Head0} |-> << >>]
  BY DEF LoopsInit, Init
<1>6. SiblingLists(nodes) = [p \in {Head0} |-> SortIds({})]
  <2>1. \A p : Below(nodes, p) = {}
    BY <1>1 DEF Below
  <2>2. DOMAIN nodes \cup {Head0} = {Head0}
    BY <1>1
  <2> QED BY <2>1, <2>2 DEF SiblingLists
<1> QED BY <1>2, <1>4, <1>5, <1>6, NoSiblings DEF IsTree

(* Nodes that gain nothing but tombstones stay where they are in the tree.     *)
LEMMA TombstoneTree ==
  ASSUME IsTree, children' = children, DOMAIN nodes' = DOMAIN nodes,
         \A n \in DOMAIN nodes : nodes'[n].previous_id = nodes[n].previous_id
  PROVE  IsTree'
<1> DEFINE none == [n \in {} |-> n]
<1>1. Landing(DOMAIN nodes, none) = {}
  BY DEF Landing
<1>2. Whole(nodes')
  BY <1>1, WholeGrows DEF IsTree
<1>3. \A p : Below(nodes', p) = Below(nodes, p)
  BY DEF Below
<1>4. Mirrors(children', nodes')
  BY <1>3 DEF IsTree, Mirrors
<1>5. SiblingLists(nodes') = SiblingLists(nodes)
  BY <1>3 DEF SiblingLists
<1> QED BY <1>2, <1>4, <1>5 DEF IsTree

(* Elements that arrive when their predecessors are there hang from them.      *)
LEMMA GrownTree ==
  ASSUME IsTree, IsNodeMap(nodes), Closed(nodes), Grown(nodes, nodes'),
         \A n \in DOMAIN nodes' \ DOMAIN nodes :
            nodes'[n].previous_id \in DOMAIN nodes \cup {Head0},
         children' = ChildrenWith(children, NewNodes(nodes, nodes'))
  PROVE  IsTree'
<1> DEFINE fresh == NewNodes(nodes, nodes')
<1>1. /\ DOMAIN fresh = DOMAIN nodes' \ DOMAIN nodes
      /\ \A n \in DOMAIN fresh : fresh[n] = nodes'[n]
  BY DEF NewNodes, Restrict
<1> HIDE DEF fresh
<1>2. Landing(DOMAIN nodes, fresh) = DOMAIN fresh
  <2>1. Landing(DOMAIN nodes, fresh) \subseteq DOMAIN fresh
    BY DEF Landing
  <2>2. DOMAIN fresh \subseteq Landing(DOMAIN nodes, fresh)
    BY <1>1, LandingSaturated DEF Saturated
  <2> QED BY <2>1, <2>2
<1>3. Whole(nodes')
  BY <1>1, <1>2, WholeGrows DEF IsTree, Grown
<1>4. Mirrors(children', nodes')
  BY ChildrenStayMirror DEF IsTree, Grown
<1>5. ChildrenWith(SiblingLists(nodes), NewNodes(nodes, nodes')) = SiblingLists(nodes')
  BY SiblingListsGrow DEF Grown
<1>6. children' = SiblingLists(nodes')
  BY <1>5 DEF IsTree
<1> QED BY <1>3, <1>4, <1>6 DEF IsTree

(* A change that lands leaves a tree.                                          *)
LEMMA ApplyTree ==
  ASSUME Inv, IsTree, NEW c \in Changes, c.operation_id \notin applied, TryApplyChange(c)
  PROVE  IsTree'
<1>1. c \in Change
  BY ChangesAssumption
<1>2. /\ Grown(nodes, nodes')
      /\ DOMAIN nodes' = DOMAIN nodes \cup {d.element_id : d \in Inserts({c})}
  BY <1>1, LandingTyped DEF Inv
<1>3. ASSUME NEW n \in DOMAIN nodes' \ DOMAIN nodes
      PROVE  nodes'[n].previous_id \in DOMAIN nodes \cup {Head0}
  <2>1. n = c.element_id /\ c \in Inserts({c})
    BY <1>2 DEF Inserts
  <2>2. c.previous_id \in DOMAIN nodes \cup {Head0}
    BY <2>1 DEF TryApplyChange, DependencyPresent, Inserts
  <2>3. HasLanded(nodes, Requested({c}), ErasedBy({c}), nodes')
    <3>1. IsNodeMap(nodes) /\ {c} \subseteq Change /\ IsFiniteSet({c})
      BY <1>1, FS_Singleton DEF Inv, TypeOK
    <3> QED BY <3>1, NodesAfterAre DEF TryApplyChange
  <2>4. n \in DOMAIN Requested({c}) /\ Requested({c})[n].previous_id = c.previous_id
    <3>1. {c} \subseteq Change /\ OneEach({c})
      BY <1>1 DEF OneEach
    <3> QED BY <2>1, <3>1, RequestedIs
  <2>5. nodes'[n].previous_id = c.previous_id
    BY <2>3, <2>4 DEF HasLanded
  <2> QED BY <2>2, <2>5
<1>4. children' = ChildrenWith(children, NewNodes(nodes, nodes'))
  BY DEF TryApplyChange
<1> QED BY <1>2, <1>3, <1>4, GrownTree DEF Inv, TypeOK, LoopInv

(* An iteration of merge() leaves a tree.                                      *)
LEMMA MergeTree ==
  ASSUME Inv, Inv', IsTree, Merge
  PROVE  IsTree'
<1>1. ASSUME NEW state \in Incoming, Call(state) PROVE IsTree'
  BY <1>1 DEF Call, IsTree
<1>2. CASE NextPass
  BY <1>2 DEF NextPass, IsTree
<1>3. ASSUME NEW n \in todo, VisitKnown(n) PROVE IsTree'
  <2>1. /\ DOMAIN nodes' = DOMAIN nodes /\ children' = children
        /\ \A m \in DOMAIN nodes \ {n} : nodes'[m] = nodes[m]
        /\ nodes'[n] = [nodes[n] EXCEPT !.deleted = @ \/ incoming[n].deleted]
        /\ n \in DOMAIN nodes
    BY <1>3 DEF VisitKnown
  <2>2. nodes[n] \in Node /\ incoming[n].deleted \in BOOLEAN
    BY <2>1 DEF Inv, TypeOK, IsNodeMap, Node
  <2>3. nodes'[n].previous_id = nodes[n].previous_id
    BY <2>1, <2>2, TombstoneOr
  <2> QED BY <2>1, <2>3, TombstoneTree
<1>4. ASSUME NEW n \in todo, VisitBlocked(n) PROVE IsTree'
  BY <1>4 DEF VisitBlocked, IsTree
<1>5. ASSUME NEW n \in todo, VisitReady(n) PROVE IsTree'
  <2>1. /\ DOMAIN nodes' = DOMAIN nodes \cup {n} /\ n \notin DOMAIN nodes
        /\ \A m \in DOMAIN nodes : nodes'[m] = nodes[m]
        /\ nodes'[n] = incoming[n]
        /\ incoming[n].previous_id \in DOMAIN nodes \cup {Head0}
        /\ children' = ChildrenWith(children, [m \in {n} |-> incoming[m]])
    BY <1>5 DEF VisitReady
  <2>2. NewNodes(nodes, nodes') = [m \in {n} |-> incoming[m]]
    BY <2>1 DEF NewNodes, Restrict
  <2>3. Grown(nodes, nodes')
    BY <2>1 DEF Inv, TypeOK, LoopInv, Grown
  <2> QED BY <2>1, <2>2, <2>3, GrownTree DEF Inv, TypeOK, LoopInv
<1> QED BY <1>1, <1>2, <1>3, <1>4, <1>5 DEF Merge, Next, Loop, Visit

(* Whatever the replica does next, it stays a tree.                            *)
LEMMA NextTree == Inv /\ Inv' /\ IsTree /\ [LoopsNext]_loopVars => IsTree'
<1> SUFFICES ASSUME Inv, Inv', IsTree, [LoopsNext]_loopVars PROVE IsTree'
  OBVIOUS
<1>1. CASE Merge
  BY <1>1, MergeTree
<1>2. ASSUME sweeping, NEW d \in ahead, RetryNow(d) PROVE IsTree'
  <2>1. d \in Changes
    BY <1>2 DEF Inv, BufferInv, SweepInv
  <2> QED BY <1>2, <2>1, ApplyTree DEF RetryNow
<1>3. ASSUME NEW d \in ahead, RetryApplied(d) \/ RetryLater(d) PROVE IsTree'
  BY <1>3 DEF RetryApplied, RetryLater, vars, IsTree
<1>4. CASE NextSweep
  BY <1>4 DEF NextSweep, vars, IsTree
<1>5. ASSUME NEW c \in Changes, ApplyNow(c) PROVE IsTree'
  BY <1>5, ApplyTree DEF ApplyNow
<1>6. ASSUME NEW c \in Changes, ApplyLater(c) PROVE IsTree'
  BY <1>6 DEF ApplyLater, vars, IsTree
<1>7. CASE UNCHANGED loopVars
  BY <1>7 DEF loopVars, vars, IsTree
<1> QED BY <1>1, <1>2, <1>3, <1>4, <1>5, <1>6, <1>7 DEF LoopsNext, Retry

(* Whatever changes and states come in, in whatever order, with dangling chains *)
(* and circles among them, after every iteration the walk that renders the      *)
(* replica has a tree before it: no element is out of its reach, none has two   *)
(* parents, none is its own ancestor, and no sibling is out of order.           *)
THEOREM AlwaysTree == LoopsSpec => []IsTree
<1> QED BY AlwaysInv, InitTree, NextTree, PTL DEF LoopsSpec

(* So the walk of a replica shows its live elements in the order of the        *)
(* document, and the pages' walk the same.                                     *)
LEMMA TreeIsWalked == Inv /\ IsTree => WalkIsDocumentOrder
<1> SUFFICES ASSUME Inv, IsTree PROVE WalkIsDocumentOrder
  OBVIOUS
<1> DEFINE walk == Walked(nodes, children)
<1>1. Tree(nodes) /\ children = SiblingLists(nodes)
  BY DEF Inv, TypeOK, IsTree, Tree
<1>2. /\ walk.stack = << >>
      /\ Lists(nodes, walk.output, Visible(nodes))
      /\ walk.output = RenderedIds(nodes, children)
  BY <1>1, WalksAgree
<1> QED BY <1>2 DEF WalkIsDocumentOrder, Lists

(* Whatever mix of merge() and apply() made the replica, with whatever changes *)
(* and states, the explicit stack of render_from() runs empty and emits every  *)
(* live element once, those below a deleted one too, in the order that ids and *)
(* predecessors alone fix, and rgaWalk() shows the same.                       *)
THEOREM WalkRendersDocument == LoopsSpec => []WalkIsDocumentOrder
<1>1. LoopsSpec => []IsTree
  BY AlwaysTree
<1> QED BY AlwaysInv, <1>1, TreeIsWalked, PTL

================================================================================

--------------------------- MODULE RGAReplicasProofs ---------------------------
(* Any number of replicas, changes and elements.                               *)
EXTENDS RGAReplicas, RGATheorems

-----------------------------------------------------------------------------
(* Local operations make well formed changes.                                  *)
LEMMA MadeChanges ==
  ASSUME TypeOK, NEW r \in Client
  PROVE  /\ NextId(r, sequence[r]) \in Id
         /\ \A previous \in DOMAIN nodes[r] \cup {Head0}, v \in Value :
               InsertChange(NextId(r, sequence[r]), previous, v) \in Change
         /\ \A element \in DOMAIN nodes[r] :
               DeleteChange(NextId(r, sequence[r]), element) \in Change
<1>1. NextId(r, sequence[r]) \in Id
  BY DEF NextId, Id, TypeOK
<1>2. DOMAIN nodes[r] \subseteq Id
  BY DEF TypeOK, IsNodeMap
<1> QED BY <1>1, <1>2 DEF InsertChange, DeleteChange, Change, Place

(* What a replica may land is finitely many changes that replicas made.        *)
LEMMA BatchIsChanges ==
  ASSUME TypeOK, NEW r \in Client, NEW c \in Change
  PROVE  /\ Batch(r, c) \subseteq Change /\ IsFiniteSet(Batch(r, c))
         /\ Batch(r, c) \subseteq changes \cup {c}
<1>1. pending[r] \subseteq changes /\ changes \subseteq Change /\ IsFiniteSet(changes)
  BY DEF TypeOK
<1>2. Batch(r, c) \subseteq changes \cup {c}
  BY <1>1 DEF Batch
<1>3. IsFiniteSet(changes \cup {c})
  BY <1>1, FS_AddElement
<1> QED BY <1>1, <1>2, <1>3, FS_Subset

-----------------------------------------------------------------------------
(* The shape of replicas: types, whole chains, sibling lists.                  *)

Shape == TypeOK /\ CausallyClosed /\ ChildrenMirrorNodes

(* Replica r takes on more nodes, in the way apply() and merge() both do.      *)
Grows(r, after) ==
    /\ Grown(nodes[r], after)
    /\ nodes' = [nodes EXCEPT ![r] = after]
    /\ children' = [children EXCEPT ![r] = ChildrenWith(@, NewNodes(nodes[r], after))]

(* A replica that grows by a closed set of nodes keeps every part of Shape.    *)
LEMMA GrowsKeepsShape ==
  ASSUME Shape, NEW r \in Client, NEW after, Grows(r, after)
  PROVE  /\ DOMAIN nodes' = Client /\ DOMAIN children' = Client
         /\ \A q \in Client : /\ IsNodeMap(nodes'[q]) /\ Closed(nodes'[q])
                              /\ IsSiblingMap(children'[q])
                              /\ Mirrors(children'[q], nodes'[q])
<1> DEFINE more == ChildrenWith(children[r], NewNodes(nodes[r], after))
<1>1. /\ DOMAIN nodes = Client /\ DOMAIN children = Client
      /\ \A q \in Client : /\ IsNodeMap(nodes[q]) /\ Closed(nodes[q])
                           /\ IsSiblingMap(children[q])
                           /\ Mirrors(children[q], nodes[q])
  BY DEF Shape, TypeOK, CausallyClosed, ChildrenMirrorNodes
<1>2. /\ DOMAIN nodes' = Client /\ DOMAIN children' = Client
      /\ nodes'[r] = after /\ children'[r] = more
      /\ \A q \in Client \ {r} : nodes'[q] = nodes[q] /\ children'[q] = children[q]
  BY <1>1 DEF Grows
<1>3. IsNodeMap(after) /\ Closed(after)
  BY DEF Grows, Grown
<1>4. Mirrors(more, after)
  BY <1>1, <1>3, ChildrenStayMirror DEF Grows, Grown
<1>5. IsSiblingMap(more)
  <2>1. IsNodeMap(NewNodes(nodes[r], after))
    BY <1>3, NewNodesTyped
  <2> QED BY <1>1, <2>1, ChildrenWithKids
<1> QED BY <1>1, <1>2, <1>3, <1>4, <1>5

(* apply() of a change that some replica made, or has just made.               *)
LEMMA ApplyNowGrows ==
  ASSUME Shape, NEW r \in Client, NEW c \in Change, ApplyNow(r, c)
  PROVE  Grows(r, NodesAfter(nodes[r], Landed(DOMAIN nodes[r], Batch(r, c))))
<1>1. IsNodeMap(nodes[r]) /\ Closed(nodes[r])
  BY DEF Shape, TypeOK, CausallyClosed
<1>2. Batch(r, c) \subseteq Change /\ IsFiniteSet(Batch(r, c))
  BY BatchIsChanges DEF Shape
<1>3. Grown(nodes[r], NodesAfter(nodes[r], Landed(DOMAIN nodes[r], Batch(r, c))))
  BY <1>1, <1>2, NodesAfterGrows
<1> QED BY <1>3 DEF Grows, ApplyNow

(* merge() of a snapshot.                                                      *)
LEMMA MergeGrows ==
  ASSUME Shape, NEW r \in Client, NEW incoming, IsNodeMap(incoming), Merge(r, incoming)
  PROVE  Grows(r, NodesMerged(nodes[r], incoming))
<1>1. IsNodeMap(nodes[r]) /\ Closed(nodes[r])
  BY DEF Shape, TypeOK, CausallyClosed
<1>2. Grown(nodes[r], NodesMerged(nodes[r], incoming))
  BY <1>1, NodesMergedGrows
<1> QED BY <1>2 DEF Grows, Merge

(* The three outcomes of apply() by what they do to the nodes.                 *)
LEMMA ApplyCases ==
  ASSUME Shape, NEW r \in Client, NEW c \in Change, Apply(r, c)
  PROVE  \/ UNCHANGED <<nodes, children>>
         \/ \E after : Grows(r, after)
  BY ApplyNowGrows DEF Apply, ApplyLater, ApplyAgain

(* A replica of the constructor has an empty list below the head.              *)
LEMMA InitShape == Init => Shape
<1> SUFFICES ASSUME Init PROVE Shape
  OBVIOUS
<1> DEFINE none == [n \in {} |-> n]
           head == [p \in {Head0} |-> << >>]
<1>1. IsNodeMap(none) /\ Closed(none) /\ DOMAIN none = {}
  BY FS_EmptySet DEF IsNodeMap, Closed
<1>2. DOMAIN << >> = {} /\ Range(<< >>) = {}
  BY DEF Range
<1>3. IsSiblingMap(head)
  BY <1>2, FS_EmptySet DEF IsSiblingMap, Place
<1>4. Mirrors(head, none)
  <2>1. \A p : Below(none, p) = {}
    BY DEF Below
  <2> QED BY <1>1, <1>2, <2>1 DEF Mirrors, IsSortedListOf
<1>5. \A r \in Client : nodes[r] = none /\ snapshot[r] = none /\ children[r] = head
  BY DEF Init
<1> HIDE DEF none, head
<1>6. TypeOK
  BY <1>1, <1>3, <1>5, FS_EmptySet DEF Init, TypeOK
<1> QED BY <1>1, <1>4, <1>5, <1>6 DEF Shape, CausallyClosed, ChildrenMirrorNodes

(* What apply() leaves behind.                                                 *)
LEMMA ApplyKeepsShape ==
  ASSUME Shape, NEW r \in Client, NEW c \in Change, Apply(r, c)
  PROVE  /\ DOMAIN nodes' = Client /\ DOMAIN children' = Client
         /\ \A q \in Client : /\ IsNodeMap(nodes'[q]) /\ Closed(nodes'[q])
                              /\ IsSiblingMap(children'[q])
                              /\ Mirrors(children'[q], nodes'[q])
         /\ applied' \in [Client -> SUBSET Id]
         /\ pending' \in [Client -> SUBSET (changes \cup {c})]
         /\ pendingOps' \in [Client -> SUBSET Id]
<1>1. /\ DOMAIN nodes' = Client /\ DOMAIN children' = Client
      /\ \A q \in Client : /\ IsNodeMap(nodes'[q]) /\ Closed(nodes'[q])
                           /\ IsSiblingMap(children'[q])
                           /\ Mirrors(children'[q], nodes'[q])
  <2>1. CASE UNCHANGED <<nodes, children>>
    BY <2>1 DEF Shape, TypeOK, CausallyClosed, ChildrenMirrorNodes
  <2>2. CASE \E after : Grows(r, after)
    BY <2>2, GrowsKeepsShape
  <2> QED BY <2>1, <2>2, ApplyCases
<1>2. /\ applied \in [Client -> SUBSET Id] /\ pending \in [Client -> SUBSET changes]
      /\ pendingOps \in [Client -> SUBSET Id] /\ c.operation_id \in Id
  BY DEF Shape, TypeOK, Change
<1>3. CASE ApplyNow(r, c)
  <2> DEFINE batch  == Batch(r, c)
             landed == Landed(DOMAIN nodes[r], batch)
  <2>1. batch \subseteq Change /\ IsFiniteSet(batch) /\ batch \subseteq changes \cup {c}
    BY BatchIsChanges DEF Shape
  <2>2. landed \subseteq batch
    BY <2>1, LandedAre
  <2>3. OperationIds(landed) \subseteq Id
    BY <2>1, <2>2 DEF OperationIds, Change
  <2>4. /\ applied' = [applied EXCEPT ![r] = @ \cup OperationIds(landed)]
        /\ pending' = [pending EXCEPT ![r] = batch \ landed]
        /\ pendingOps' = [pendingOps EXCEPT ![r] =
                             @ \ (OperationIds(pending[r]) \ OperationIds(batch \ landed))]
    BY <1>3 DEF ApplyNow
  <2> HIDE DEF batch, landed
  <2> QED BY <1>1, <1>2, <2>1, <2>3, <2>4
<1>4. CASE ApplyLater(r, c)
  BY <1>1, <1>2, <1>4 DEF ApplyLater
<1>5. CASE ApplyAgain(r, c)
  BY <1>1, <1>2, <1>5 DEF ApplyAgain
<1> QED BY <1>3, <1>4, <1>5 DEF Apply

(* Every operation of a replica keeps the shape of all of them.                *)
LEMMA NextShape == Shape /\ [Next]_vars => Shape'
<1> SUFFICES ASSUME Shape, [Next]_vars PROVE Shape'
  OBVIOUS
<1>1. ASSUME NEW r \in Client, NEW c \in Change, Originate(r, c) PROVE Shape'
  <2>1. Apply(r, c) /\ changes' = changes \cup {c} /\ snapshot' = snapshot
        /\ sequence' = [sequence EXCEPT ![r] = @ + 1]
    BY <1>1 DEF Originate
  <2>2. changes' \in SUBSET Change /\ IsFiniteSet(changes')
    BY <2>1, FS_AddElement DEF Shape, TypeOK
  <2>3. sequence' \in [Client -> Nat]
    BY <2>1 DEF Shape, TypeOK
  <2> QED BY <2>1, <2>2, <2>3, ApplyKeepsShape
          DEF Shape, TypeOK, CausallyClosed, ChildrenMirrorNodes
<1>2. CASE Local
  BY <1>1, <1>2, MadeChanges DEF Local, InsertAfter, Erase, Shape
<1>3. CASE Exchange
  <2>1. PICK r \in Client, c \in changes : Deliver(r, c)
    BY <1>3 DEF Exchange
  <2>2. /\ Apply(r, c) /\ c \in Change
        /\ UNCHANGED <<sequence, changes, snapshot>>
    BY <2>1 DEF Deliver, Shape, TypeOK
  <2> QED BY <2>2, ApplyKeepsShape DEF Shape, TypeOK, CausallyClosed, ChildrenMirrorNodes
<1>4. ASSUME NEW r \in Client, TakeState(r) PROVE Shape'
  BY <1>4 DEF TakeState, rgaVars, Shape, TypeOK, CausallyClosed, ChildrenMirrorNodes
<1>5. ASSUME NEW r \in Client, NEW s \in Client, Merge(r, snapshot[s]) PROVE Shape'
  <2> DEFINE after == NodesMerged(nodes[r], snapshot[s])
  <2>1. IsNodeMap(snapshot[s])
    BY DEF Shape, TypeOK
  <2>2. Grows(r, after)
    BY <1>5, <2>1, MergeGrows
  <2>3. DOMAIN after \subseteq Id
    BY <2>2 DEF Grows, Grown, IsNodeMap
  <2>4. applied' = [applied EXCEPT ![r] = @ \cup DOMAIN NewNodes(nodes[r], after)]
    BY <1>5 DEF Merge
  <2> DEFINE gained == DOMAIN NewNodes(nodes[r], after)
  <2>5. applied' \in [Client -> SUBSET Id]
    <3> HIDE DEF after
    <3>1. gained \subseteq Id
      BY <2>3 DEF NewNodes, Restrict
    <3> HIDE DEF gained
    <3> QED BY <2>4, <3>1 DEF Shape, TypeOK, gained
  <2>6. UNCHANGED <<sequence, pending, pendingOps, changes, snapshot>>
    BY <1>5 DEF Merge
  <2> QED BY <2>2, <2>5, <2>6, GrowsKeepsShape
          DEF Shape, TypeOK, CausallyClosed, ChildrenMirrorNodes
<1>6. CASE UNCHANGED vars
  BY <1>6 DEF vars, rgaVars, Shape, TypeOK, CausallyClosed, ChildrenMirrorNodes
<1> QED BY <1>2, <1>3, <1>4, <1>5, <1>6 DEF Next, StateSync

(* Shape is inductive, so it always holds.                                     *)
LEMMA AlwaysShape == Spec => []Shape
<1> QED BY InitShape, NextShape, PTL DEF Spec

(* Replicas are well formed, and buffer only what some replica made.           *)
THEOREM TypeCorrect == Spec => []TypeOK
<1>1. Shape => TypeOK
  BY DEF Shape
<1> QED BY <1>1, AlwaysShape, PTL

(* An element never lands, by a change or by a state, without its chain.       *)
THEOREM AlwaysCausallyClosed == Spec => []CausallyClosed
<1>1. Shape => CausallyClosed
  BY DEF Shape
<1> QED BY <1>1, AlwaysShape, PTL

(* _children is the sorted tree of _nodes, whatever came in which order.       *)
THEOREM AlwaysMirrored == Spec => []ChildrenMirrorNodes
<1>1. Shape => ChildrenMirrorNodes
  BY DEF Shape
<1> QED BY <1>1, AlwaysShape, PTL

-----------------------------------------------------------------------------
(* Nodes and tombstones stay.                                                  *)

Keeps == \A r \in Client : \A n \in DOMAIN nodes[r] :
            /\ n \in DOMAIN nodes'[r]
            /\ nodes[r][n].deleted => nodes'[r][n].deleted

(* Every step keeps what every replica holds, because nodes only grow.         *)
LEMMA StepKeeps == Shape /\ [Next]_vars => Keeps
<1> SUFFICES ASSUME Shape, [Next]_vars PROVE Keeps
  OBVIOUS
<1>1. ASSUME NEW r \in Client, NEW after, Grows(r, after) PROVE Keeps
  BY <1>1 DEF Grows, Grown, Keeps, Shape, TypeOK
<1>2. ASSUME UNCHANGED nodes PROVE Keeps
  BY <1>2 DEF Keeps
<1>3. ASSUME NEW r \in Client, NEW c \in Change, Apply(r, c) PROVE Keeps
  BY <1>1, <1>2, <1>3, ApplyCases
<1>4. CASE Local
  BY <1>3, <1>4, MadeChanges DEF Local, InsertAfter, Erase, Originate, Shape
<1>5. CASE Exchange
  BY <1>3, <1>5 DEF Exchange, Deliver, Shape, TypeOK
<1>6. ASSUME NEW r \in Client, NEW s \in Client, Merge(r, snapshot[s]) PROVE Keeps
  BY <1>1, <1>6, MergeGrows DEF Shape, TypeOK
<1>7. CASE StateSync
  BY <1>2, <1>6, <1>7 DEF StateSync, TakeState, rgaVars
<1>8. CASE UNCHANGED vars
  BY <1>2, <1>8 DEF vars, rgaVars
<1> QED BY <1>4, <1>5, <1>7, <1>8 DEF Next

(* No change and no state, however stale, makes a replica forget an element    *)
(* or bring a deleted one back.                                                *)
THEOREM NeverResurrected == Spec => NoResurrection
<1>1. Shape /\ [Next]_vars
        => [\A r \in Client : \A n \in DOMAIN nodes[r] :
               /\ n \in DOMAIN nodes'[r]
               /\ nodes[r][n].deleted => nodes'[r][n].deleted]_vars
  BY StepKeeps DEF Keeps
<1> QED BY <1>1, AlwaysShape, PTL DEF Spec, NoResurrection

-----------------------------------------------------------------------------
(* What replicas hold, by what they were told and what was made.               *)

(* One replica's books: what it holds and marks as applied was made by some    *)
(* operation, what it marks as applied has taken effect, what it was told is   *)
(* in its nodes or its buffer, and the three structures kept beside _nodes and *)
(* _pending_changes agree with them.                                           *)
Sound(r) ==
    /\ applied[r] \subseteq OperationIds(changes)
    /\ FactsOfNodes(nodes[r]) \subseteq FactsOfChanges(changes)
    /\ Whole(nodes[r])
    /\ children[r] = SiblingLists(nodes[r])
    /\ pendingOps[r] = OperationIds(pending[r])
    /\ heard[r] = FactsOfNodes(nodes[r]) \cup FactsOfChanges(pending[r])
    /\ \A c \in changes : c.operation_id \in applied[r] =>
          FactsOfChanges({c}) \subseteq FactsOfNodes(nodes[r])

(* The changes made have ids of their own, none beyond the sequence number of  *)
(* the replica it names, and every replica and snapshot is sound.              *)
Origins ==
    /\ OneEach(changes)
    /\ \A c \in changes : c.operation_id[2] <= sequence[c.operation_id[1]]
    /\ \A r \in Client : /\ FactsOfNodes(snapshot[r]) \subseteq FactsOfChanges(changes)
                         /\ Whole(snapshot[r])
    /\ \A r \in Client : Sound(r)
    /\ nodes = [r \in Client |-> nodes[r]] /\ heard = [r \in Client |-> heard[r]]

(* Changes made elsewhere leave a replica sound: they have other ids than any  *)
(* it has applied.                                                             *)
LEMMA MoreChangesSound ==
  ASSUME NEW r \in Client, Sound(r), changes \subseteq changes', OneEach(changes'),
         nodes'[r] = nodes[r], children'[r] = children[r], applied'[r] = applied[r],
         pending'[r] = pending[r], pendingOps'[r] = pendingOps[r], heard'[r] = heard[r]
  PROVE  Sound(r)'
<1>1. applied'[r] \subseteq OperationIds(changes')
  BY DEF Sound, OperationIds
<1>2. FactsOfNodes(nodes'[r]) \subseteq FactsOfChanges(changes')
  BY ChangeFactsGrow DEF Sound
<1>3. ASSUME NEW c \in changes', c.operation_id \in applied'[r]
      PROVE  FactsOfChanges({c}) \subseteq FactsOfNodes(nodes'[r])
  <2>1. PICK d \in changes : d.operation_id = c.operation_id
    BY <1>3 DEF Sound, OperationIds
  <2>2. d = c
    BY <2>1 DEF OneEach
  <2> QED BY <1>3, <2>1, <2>2 DEF Sound
<1> QED BY <1>1, <1>2, <1>3 DEF Sound

(* A replica that lands what it can of a change and its buffer stays sound.    *)
LEMMA ApplyNowSound ==
  ASSUME Shape, NEW r \in Client, Sound(r), NEW c \in Change,
         changes' = changes \cup {c}, OneEach(changes'), ApplyNow(r, c),
         heard' = [heard EXCEPT ![r] = @ \cup FactsOfChanges({c})], DOMAIN heard = Client
  PROVE  Sound(r)'
<1> DEFINE old    == nodes[r]
           known  == DOMAIN nodes[r]
           batch  == Batch(r, c)
           landed == Landed(known, batch)
           after  == NodesAfter(old, landed)
           kept   == batch \ landed
<1>1. /\ IsNodeMap(old) /\ Closed(old)
      /\ DOMAIN nodes = Client /\ DOMAIN children = Client
      /\ applied \in [Client -> SUBSET Id] /\ pending \in [Client -> SUBSET changes]
      /\ pendingOps \in [Client -> SUBSET Id]
      /\ changes \subseteq Change /\ changes' \subseteq Change
  BY DEF Shape, TypeOK, CausallyClosed
<1>2. batch \subseteq Change /\ IsFiniteSet(batch) /\ batch \subseteq changes'
  BY BatchIsChanges DEF Shape
<1>3. OneEach(batch)
  BY <1>2 DEF OneEach
<1>4. /\ nodes'[r] = after
      /\ children'[r] = ChildrenWith(children[r], NewNodes(old, after))
      /\ applied'[r] = applied[r] \cup OperationIds(landed)
      /\ pending'[r] = kept
      /\ pendingOps'[r] = pendingOps[r] \ (OperationIds(pending[r]) \ OperationIds(kept))
      /\ heard'[r] = heard[r] \cup FactsOfChanges({c})
  BY <1>1 DEF ApplyNow
<1>5. landed \subseteq batch /\ landed \subseteq changes'
  BY <1>2, LandedAre
<1>6. c \in landed
  <2>1. c \in Landed(known, {c}) /\ {c} \subseteq batch
    BY DEF ApplyNow, Batch
  <2> QED BY <1>2, <1>3, <2>1, LandedMore
<1>7. FactsOfNodes(old) \subseteq FactsOfChanges(changes')
  BY ChangeFactsGrow DEF Sound
<1>8. FactsOfNodes(after) = FactsOfNodes(old) \cup FactsOfChanges(landed)
  <2> HIDE DEF batch, old
  <2>1. changes' \subseteq Change /\ IsNodeMap(old) /\ IsFiniteSet(batch)
    BY <1>1, <1>2
  <2> QED BY <1>2, <1>7, <2>1, FactsAfter DEF old
<1>9. Grown(old, after) /\ DOMAIN after = known \cup Landing(known, Requested(batch))
  BY <1>1, <1>2, NodesAfterGrows
<1>10. Whole(after)
  BY <1>1, <1>2, WholeAfter DEF Sound
<1>11. batch = {c} \cup {d \in pending[r] : d.operation_id \notin applied[r]}
  BY DEF Batch
<1> HIDE DEF landed, after, batch
<1>12. applied'[r] \subseteq OperationIds(changes')
  BY <1>4, <1>5 DEF Sound, OperationIds
<1>13. FactsOfNodes(nodes'[r]) \subseteq FactsOfChanges(changes')
  <2>1. FactsOfChanges(landed) \subseteq FactsOfChanges(changes')
    BY <1>5, ChangeFactsGrow
  <2> QED BY <1>4, <1>7, <1>8, <2>1
<1>14. children'[r] = SiblingLists(nodes'[r])
  <2>1. Closed(after) /\ DOMAIN old \subseteq DOMAIN after
        /\ \A n \in DOMAIN old : after[n].previous_id = old[n].previous_id
    BY <1>9 DEF Grown
  <2>2. ChildrenWith(SiblingLists(old), NewNodes(old, after)) = SiblingLists(after)
    BY <1>1, <2>1, SiblingListsGrow
  <2> QED BY <1>4, <2>2 DEF Sound
<1>15. pendingOps'[r] = OperationIds(pending'[r])
  <2>1. kept \subseteq pending[r]
    BY <1>6, <1>11
  <2>2. OperationIds(kept) \subseteq OperationIds(pending[r])
    BY <2>1 DEF OperationIds
  <2> HIDE DEF kept
  <2> QED BY <1>4, <2>2 DEF Sound
<1>16. heard'[r] = FactsOfNodes(nodes'[r]) \cup FactsOfChanges(pending'[r])
  <2> DEFINE done == {d \in pending[r] : d.operation_id \in applied[r]}
             rest == {d \in pending[r] : d.operation_id \notin applied[r]}
  <2>1. pending[r] = done \cup rest /\ batch = {c} \cup rest /\ batch = landed \cup kept
    BY <1>5, <1>11
  <2>2. FactsOfChanges(done) \subseteq FactsOfNodes(old)
    <3>1. \A d \in done : FactsOfChanges({d}) \subseteq FactsOfNodes(old)
      BY <1>1 DEF Sound
    <3> QED BY <3>1, ChangeFactsEach
  <2> HIDE DEF done, rest, kept
  <2>3. FactsOfChanges(pending[r]) = FactsOfChanges(done) \cup FactsOfChanges(rest)
    BY <2>1, ChangeFactsUnion
  <2>4. FactsOfChanges(batch) = FactsOfChanges({c}) \cup FactsOfChanges(rest)
    BY <2>1, ChangeFactsUnion
  <2>5. FactsOfChanges(batch) = FactsOfChanges(landed) \cup FactsOfChanges(kept)
    BY <2>1, ChangeFactsUnion
  <2>6. heard[r] = FactsOfNodes(old) \cup FactsOfChanges(pending[r])
    BY DEF Sound
  <2> QED BY <1>4, <1>8, <2>2, <2>3, <2>4, <2>5, <2>6
<1>17. ASSUME NEW d \in changes', d.operation_id \in applied'[r]
       PROVE  FactsOfChanges({d}) \subseteq FactsOfNodes(nodes'[r])
  <2>1. CASE d.operation_id \in applied[r]
    <3>1. PICK e \in changes : e.operation_id = d.operation_id
      BY <2>1 DEF Sound, OperationIds
    <3>2. e = d
      BY <3>1 DEF OneEach
    <3>3. FactsOfChanges({d}) \subseteq FactsOfNodes(old)
      BY <2>1, <3>1, <3>2 DEF Sound
    <3> QED BY <1>4, <1>8, <3>3
  <2>2. CASE d.operation_id \in OperationIds(landed)
    <3>1. PICK e \in landed : e.operation_id = d.operation_id
      BY <2>2 DEF OperationIds
    <3>2. {d} \subseteq landed
      BY <1>5, <3>1 DEF OneEach
    <3>3. FactsOfChanges({d}) \subseteq FactsOfChanges(landed)
      BY <3>2, ChangeFactsGrow
    <3> QED BY <1>4, <1>8, <3>3
  <2> QED BY <1>4, <1>17, <2>1, <2>2
<1> QED BY <1>4, <1>10, <1>12, <1>13, <1>14, <1>15, <1>16, <1>17 DEF Sound

(* A replica that buffers a change, or has buffered it before, stays sound.    *)
LEMMA ApplyLaterSound ==
  ASSUME Shape, NEW r \in Client, Sound(r), NEW c \in Change,
         changes' = changes \cup {c}, OneEach(changes'), ApplyLater(r, c),
         heard' = [heard EXCEPT ![r] = @ \cup FactsOfChanges({c})], DOMAIN heard = Client
  PROVE  Sound(r)'
<1>1. /\ pending \in [Client -> SUBSET changes] /\ pendingOps \in [Client -> SUBSET Id]
  BY DEF Shape, TypeOK
<1>2. /\ nodes' = nodes /\ children' = children /\ applied' = applied
      /\ pending'[r] = IF c.operation_id \in pendingOps[r] THEN pending[r]
                       ELSE pending[r] \cup {c}
      /\ pendingOps'[r] = pendingOps[r] \cup {c.operation_id}
      /\ heard'[r] = heard[r] \cup FactsOfChanges({c})
  BY <1>1 DEF ApplyLater
<1>3. pending'[r] = pending[r] \cup {c}
  <2>1. CASE c.operation_id \in pendingOps[r]
    <3>1. PICK d \in pending[r] : d.operation_id = c.operation_id
      BY <2>1 DEF Sound, OperationIds
    <3>2. d \in changes' /\ c \in changes'
      BY <1>1, <3>1
    <3>3. d = c
      BY <3>1, <3>2 DEF OneEach
    <3> QED BY <1>2, <2>1, <3>1, <3>3
  <2>2. CASE c.operation_id \notin pendingOps[r]
    BY <1>2, <2>2
  <2> QED BY <2>1, <2>2
<1>4. pendingOps'[r] = OperationIds(pending'[r])
  BY <1>2, <1>3 DEF Sound, OperationIds
<1>5. heard'[r] = FactsOfNodes(nodes'[r]) \cup FactsOfChanges(pending'[r])
  <2>1. FactsOfChanges(pending'[r]) = FactsOfChanges(pending[r]) \cup FactsOfChanges({c})
    BY <1>3, ChangeFactsUnion
  <2> QED BY <1>2, <2>1 DEF Sound
<1>6. /\ applied'[r] \subseteq OperationIds(changes')
      /\ FactsOfNodes(nodes'[r]) \subseteq FactsOfChanges(changes')
  BY <1>2, ChangeFactsGrow DEF Sound, OperationIds
<1>7. ASSUME NEW d \in changes', d.operation_id \in applied'[r]
      PROVE  FactsOfChanges({d}) \subseteq FactsOfNodes(nodes'[r])
  <2>1. PICK e \in changes : e.operation_id = d.operation_id
    BY <1>2, <1>7 DEF Sound, OperationIds
  <2>2. e = d
    BY <2>1 DEF OneEach
  <2> QED BY <1>2, <1>7, <2>1, <2>2 DEF Sound
<1> QED BY <1>2, <1>4, <1>5, <1>6, <1>7 DEF Sound

(* A replica that has applied the change before was told nothing new.          *)
LEMMA ApplyAgainSound ==
  ASSUME Shape, NEW r \in Client, Sound(r), NEW c \in Change,
         changes' = changes \cup {c}, OneEach(changes'), ApplyAgain(r, c),
         heard' = [heard EXCEPT ![r] = @ \cup FactsOfChanges({c})], DOMAIN heard = Client
  PROVE  Sound(r)'
<1>1. PICK d \in changes : d.operation_id = c.operation_id
  BY DEF ApplyAgain, Sound, OperationIds
<1>2. d = c
  BY <1>1 DEF OneEach
<1>3. FactsOfChanges({c}) \subseteq FactsOfNodes(nodes[r])
  BY <1>1, <1>2 DEF ApplyAgain, Sound
<1>4. heard'[r] = heard[r]
  BY <1>3 DEF Sound
<1> QED BY <1>4, MoreChangesSound DEF ApplyAgain

(* apply() of a change that was made, here or elsewhere, keeps every replica   *)
(* sound.                                                                      *)
LEMMA ApplySound ==
  ASSUME Shape, Origins, NEW r \in Client, NEW c \in Change,
         changes' = changes \cup {c}, OneEach(changes'), Apply(r, c)
  PROVE  /\ \A q \in Client : Sound(q)'
         /\ nodes' = [q \in Client |-> nodes'[q]] /\ heard' = [q \in Client |-> heard'[q]]
<1>1. /\ DOMAIN heard = Client /\ DOMAIN nodes = Client /\ DOMAIN children = Client
      /\ DOMAIN applied = Client /\ DOMAIN pending = Client /\ DOMAIN pendingOps = Client
      /\ heard' = [heard EXCEPT ![r] = @ \cup FactsOfChanges({c})]
  BY DEF Origins, Shape, TypeOK, Apply
<1>2. Sound(r)'
  BY <1>1, ApplyNowSound, ApplyLaterSound, ApplyAgainSound DEF Apply, Origins
<1>3. ASSUME NEW q \in Client, q # r PROVE Sound(q)'
  <2>1. /\ nodes'[q] = nodes[q] /\ children'[q] = children[q] /\ applied'[q] = applied[q]
        /\ pending'[q] = pending[q] /\ pendingOps'[q] = pendingOps[q] /\ heard'[q] = heard[q]
    BY <1>1, <1>3 DEF Apply, ApplyNow, ApplyLater, ApplyAgain
  <2>2. Sound(q)
    BY DEF Origins
  <2> QED BY <2>1, <2>2, MoreChangesSound
<1>4. nodes' = [q \in Client |-> nodes'[q]] /\ heard' = [q \in Client |-> heard'[q]]
  BY <1>1 DEF Origins, Apply, ApplyNow, ApplyLater, ApplyAgain
<1> QED BY <1>2, <1>3, <1>4

(* merge() of a snapshot keeps every replica sound.                            *)
LEMMA MergeSound ==
  ASSUME Shape, Origins, NEW r \in Client, NEW s \in Client, Merge(r, snapshot[s])
  PROVE  /\ \A q \in Client : Sound(q)'
         /\ nodes' = [q \in Client |-> nodes'[q]] /\ heard' = [q \in Client |-> heard'[q]]
<1> DEFINE old      == nodes[r]
           incoming == snapshot[s]
           after    == NodesMerged(old, incoming)
           fresh    == DOMAIN NewNodes(old, after)
<1>1. /\ IsNodeMap(old) /\ Closed(old) /\ IsNodeMap(incoming) /\ Whole(incoming)
      /\ DOMAIN heard = Client /\ DOMAIN nodes = Client /\ DOMAIN children = Client
      /\ DOMAIN applied = Client /\ Sound(r)
      /\ changes \subseteq Change /\ OneEach(changes)
      /\ FactsOfNodes(incoming) \subseteq FactsOfChanges(changes)
  BY DEF Origins, Shape, TypeOK, CausallyClosed
<1>2. /\ nodes' = [nodes EXCEPT ![r] = after]
      /\ children' = [children EXCEPT ![r] = ChildrenWith(@, NewNodes(old, after))]
      /\ applied' = [applied EXCEPT ![r] = @ \cup fresh]
      /\ heard' = [heard EXCEPT ![r] = @ \cup FactsOfNodes(incoming)]
      /\ UNCHANGED <<pending, pendingOps, changes>>
  BY DEF Merge
<1>3. /\ DOMAIN after = DOMAIN old \cup DOMAIN incoming
      /\ FactsOfNodes(after) = FactsOfNodes(old) \cup FactsOfNodes(incoming)
  <2>1. DOMAIN after = DOMAIN old \cup DOMAIN incoming
    BY <1>1, MergedWhole
  <2>2. FactsOfNodes(old) \subseteq FactsOfChanges(changes)
    BY <1>1 DEF Sound
  <2> HIDE DEF old, incoming
  <2>3. FactsOfNodes(after) = FactsOfNodes(old) \cup FactsOfNodes(incoming)
    BY <1>1, <2>2, FactsMerged
  <2> QED BY <2>1, <2>3
<1>4. Grown(old, after)
  BY <1>1, NodesMergedGrows
<1>5. Whole(after)
  BY <1>1, WholeMerged DEF Sound
<1>6. ChildrenWith(SiblingLists(old), NewNodes(old, after)) = SiblingLists(after)
  <2> HIDE DEF after
  <2> QED BY <1>1, <1>4, SiblingListsGrow DEF Grown
<1>7. fresh = DOMAIN incoming \ DOMAIN old
  BY <1>3, NewNodesAre
<1> HIDE DEF after, fresh
<1>8. /\ nodes'[r] = after /\ children'[r] = SiblingLists(after)
      /\ applied'[r] = applied[r] \cup fresh
      /\ heard'[r] = heard[r] \cup FactsOfNodes(incoming)
      /\ pending'[r] = pending[r] /\ pendingOps'[r] = pendingOps[r] /\ changes' = changes
  BY <1>1, <1>2, <1>6 DEF Sound
<1>9. \A n \in fresh : \E c \in Inserts(changes) :
         /\ c.element_id = n /\ c.operation_id = n
         /\ InsertFact(n, c) \in FactsOfNodes(incoming)
  <2> TAKE n \in fresh
  <2>1. InsertFact(n, incoming[n]) \in FactsOfNodes(incoming)
    BY <1>7, NodeFacts
  <2>2. PICK c \in Inserts(changes) : /\ c.element_id = n
            /\ c.previous_id = incoming[n].previous_id /\ c.value = incoming[n].value
    BY <1>1, <2>1, ChangeFacts
  <2>3. c.operation_id = n
    BY <1>1, <2>2 DEF Inserts, Change
  <2>4. InsertFact(n, c) = InsertFact(n, incoming[n])
    BY <2>2, FactsDiffer
  <2> QED BY <2>1, <2>2, <2>3, <2>4
<1>10. applied'[r] \subseteq OperationIds(changes')
  <2>1. fresh \subseteq OperationIds(changes)
    BY <1>9 DEF OperationIds, Inserts
  <2> QED BY <1>1, <1>8, <2>1 DEF Sound
<1>11. ASSUME NEW d \in changes', d.operation_id \in applied'[r]
       PROVE  FactsOfChanges({d}) \subseteq FactsOfNodes(nodes'[r])
  <2>1. CASE d.operation_id \in applied[r]
    BY <1>1, <1>3, <1>8, <2>1 DEF Sound
  <2>2. CASE d.operation_id \in fresh
    <3>1. PICK c \in Inserts(changes) :
             /\ c.element_id = d.operation_id /\ c.operation_id = d.operation_id
             /\ InsertFact(d.operation_id, c) \in FactsOfNodes(incoming)
      BY <1>9, <2>2
    <3>2. c = d
      BY <1>1, <1>8, <3>1 DEF OneEach, Inserts
    <3>3. d.type = "insert_op" /\ d.element_id = d.operation_id
      BY <3>1, <3>2 DEF Inserts
    <3>4. FactsOfChanges({d}) = {InsertFact(d.element_id, d)}
      BY <3>3 DEF FactsOfChanges, Inserts, Deletes
    <3> QED BY <1>3, <1>8, <3>1, <3>2, <3>3, <3>4
  <2> QED BY <1>8, <1>11, <2>1, <2>2
<1>12. Sound(r)'
  <2>1. /\ heard'[r] = FactsOfNodes(nodes'[r]) \cup FactsOfChanges(pending'[r])
        /\ FactsOfNodes(nodes'[r]) \subseteq FactsOfChanges(changes')
        /\ pendingOps'[r] = OperationIds(pending'[r])
    BY <1>1, <1>3, <1>8 DEF Sound
  <2> QED BY <1>5, <1>8, <1>10, <1>11, <2>1 DEF Sound
<1>13. ASSUME NEW q \in Client, q # r PROVE Sound(q)'
  <2>1. /\ nodes'[q] = nodes[q] /\ children'[q] = children[q] /\ applied'[q] = applied[q]
        /\ pending'[q] = pending[q] /\ pendingOps'[q] = pendingOps[q] /\ heard'[q] = heard[q]
        /\ changes' = changes
    BY <1>1, <1>2, <1>13
  <2>2. Sound(q)
    BY DEF Origins
  <2> QED BY <1>1, <2>1, <2>2, MoreChangesSound
<1>14. nodes' = [q \in Client |-> nodes'[q]] /\ heard' = [q \in Client |-> heard'[q]]
  BY <1>1, <1>2 DEF Origins
<1> QED BY <1>12, <1>13, <1>14

(* The id of a local operation is new, and stays within the sequence number.   *)
LEMMA FreshIds ==
  ASSUME Shape, Origins, NEW r \in Client, NEW c \in Change,
         c.operation_id = NextId(r, sequence[r]), Originate(r, c)
  PROVE  /\ OneEach(changes')
         /\ \A d \in changes' : d.operation_id[2] <= sequence'[d.operation_id[1]]
<1>1. /\ changes' = changes \cup {c} /\ sequence' = [sequence EXCEPT ![r] = @ + 1]
      /\ sequence \in [Client -> Nat] /\ changes \subseteq Change
  BY DEF Originate, Shape, TypeOK
<1>2. c.operation_id[1] = r /\ c.operation_id[2] = sequence[r] + 1
  BY DEF NextId
<1>3. \A d \in changes : /\ d.operation_id[1] \in Client /\ d.operation_id[2] \in Nat
                         /\ d.operation_id[2] <= sequence[d.operation_id[1]]
  BY <1>1, PairsAre DEF Change, Id, Origins
<1>4. \A d \in changes : d.operation_id # c.operation_id
  <2> SUFFICES ASSUME NEW d \in changes, d.operation_id = c.operation_id PROVE FALSE
    OBVIOUS
  <2>1. sequence[r] + 1 <= sequence[r] /\ sequence[r] \in Nat
    BY <1>1, <1>2, <1>3
  <2> QED BY <2>1
<1>5. OneEach(changes')
  BY <1>1, <1>4 DEF OneEach, Origins
<1>6. ASSUME NEW d \in changes' PROVE d.operation_id[2] <= sequence'[d.operation_id[1]]
  <2>1. \A q \in Client : sequence[q] \in Nat /\ sequence'[q] \in Nat /\ sequence[q] <= sequence'[q]
    BY <1>1
  <2>2. CASE d \in changes
    BY <1>3, <2>1, <2>2
  <2>3. CASE d = c
    BY <1>1, <1>2, <2>3
  <2> QED BY <1>1, <2>2, <2>3
<1> QED BY <1>5, <1>6

(* Replicas start with nothing and have been told nothing.                     *)
LEMMA InitOrigins == Init => Origins
<1> SUFFICES ASSUME Init PROVE Origins
  OBVIOUS
<1> DEFINE none == [n \in {} |-> n]
<1>1. DOMAIN none = {}
  OBVIOUS
<1> HIDE DEF none
<1>2. FactsOfNodes(none) = {} /\ FactsOfChanges({}) = {}
  BY <1>1 DEF FactsOfNodes, FactsOfChanges, Inserts, Deletes
<1>3. Whole(none)
  BY <1>1 DEF Whole, Landing
<1>4. [p \in {Head0} |-> << >>] = SiblingLists(none)
  <2>1. \A p : Below(none, p) = {}
    BY <1>1 DEF Below
  <2> QED BY <1>1, <2>1, NoSiblings DEF SiblingLists
<1>5. \A r \in Client : /\ nodes[r] = none /\ snapshot[r] = none /\ heard[r] = {}
                        /\ applied[r] = {} /\ pending[r] = {} /\ pendingOps[r] = {}
                        /\ children[r] = SiblingLists(none)
  BY <1>4 DEF Init, none
<1>6. changes = {} /\ OperationIds({}) = {}
  BY DEF Init, OperationIds
<1>7. \A r \in Client : Sound(r)
  BY <1>2, <1>3, <1>5, <1>6 DEF Sound
<1>8. nodes = [r \in Client |-> nodes[r]] /\ heard = [r \in Client |-> heard[r]]
  BY DEF Init
<1> QED BY <1>2, <1>3, <1>5, <1>6, <1>7, <1>8 DEF Origins, OneEach

(* Every step keeps the books of every replica.                                *)
LEMMA NextOrigins == Shape /\ Origins /\ [Next]_vars => Origins'
<1> SUFFICES ASSUME Shape, Origins, [Next]_vars PROVE Origins'
  OBVIOUS
<1>1. ASSUME NEW r \in Client, NEW c \in Change,
             c.operation_id = NextId(r, sequence[r]), Originate(r, c)
      PROVE  Origins'
  <2>1. /\ OneEach(changes')
        /\ \A d \in changes' : d.operation_id[2] <= sequence'[d.operation_id[1]]
    BY <1>1, FreshIds
  <2>2. Apply(r, c) /\ changes' = changes \cup {c} /\ snapshot' = snapshot
    BY <1>1 DEF Originate
  <2>3. /\ \A q \in Client : Sound(q)'
        /\ nodes' = [q \in Client |-> nodes'[q]] /\ heard' = [q \in Client |-> heard'[q]]
    BY <2>1, <2>2, ApplySound
  <2>4. \A q \in Client : /\ FactsOfNodes(snapshot'[q]) \subseteq FactsOfChanges(changes')
                          /\ Whole(snapshot'[q])
    BY <2>2, ChangeFactsGrow DEF Origins
  <2> QED BY <2>1, <2>3, <2>4 DEF Origins
<1>2. CASE Local
  <2>1. \A id, p, v : InsertChange(id, p, v).operation_id = id
    BY DEF InsertChange
  <2>2. \A id, n : DeleteChange(id, n).operation_id = id
    BY DEF DeleteChange
  <2> QED BY <1>1, <1>2, <2>1, <2>2, MadeChanges DEF Local, InsertAfter, Erase, Shape
<1>3. CASE Exchange
  <2>1. PICK r \in Client, c \in changes : Deliver(r, c)
    BY <1>3 DEF Exchange
  <2>2. /\ Apply(r, c) /\ c \in Change /\ changes' = changes \cup {c} /\ OneEach(changes')
        /\ UNCHANGED <<sequence, changes, snapshot>>
    BY <2>1 DEF Deliver, Shape, TypeOK, Origins
  <2>3. /\ \A q \in Client : Sound(q)'
        /\ nodes' = [q \in Client |-> nodes'[q]] /\ heard' = [q \in Client |-> heard'[q]]
    BY <2>2, ApplySound
  <2> QED BY <2>2, <2>3 DEF Origins
<1>4. ASSUME NEW r \in Client, TakeState(r) PROVE Origins'
  <2>1. /\ \A q \in Client : snapshot'[q] = IF q = r THEN nodes[r] ELSE snapshot[q]
        /\ UNCHANGED <<rgaVars, changes, heard>>
    BY <1>4 DEF TakeState, Shape, TypeOK
  <2>2. \A q \in Client : /\ FactsOfNodes(snapshot'[q]) \subseteq FactsOfChanges(changes)
                          /\ Whole(snapshot'[q])
    BY <2>1 DEF Origins, Sound
  <2>3. \A q \in Client : Sound(q)'
    BY <2>1 DEF Origins, Sound, rgaVars
  <2> QED BY <2>1, <2>2, <2>3 DEF Origins, rgaVars
<1>5. ASSUME NEW r \in Client, NEW s \in Client, Merge(r, snapshot[s]) PROVE Origins'
  <2>1. UNCHANGED <<sequence, changes, snapshot>>
    BY <1>5 DEF Merge
  <2>2. /\ \A q \in Client : Sound(q)'
        /\ nodes' = [q \in Client |-> nodes'[q]] /\ heard' = [q \in Client |-> heard'[q]]
    BY <1>5, MergeSound
  <2> QED BY <2>1, <2>2 DEF Origins
<1>6. CASE UNCHANGED vars
  BY <1>6 DEF vars, rgaVars, Origins, Sound
<1> QED BY <1>2, <1>3, <1>4, <1>5, <1>6 DEF Next, StateSync

(* The books hold in every behaviour.                                          *)
LEMMA AlwaysOrigins == Spec => [](Shape /\ Origins)
<1>1. Init => Shape /\ Origins
  BY InitShape, InitOrigins
<1>2. (Shape /\ Origins) /\ [Next]_vars => (Shape /\ Origins)'
  BY NextShape, NextOrigins
<1> QED BY <1>1, <1>2, PTL DEF Spec

(* An id names one change, and nobody holds or ships what no operation made.   *)
THEOREM AlwaysOneOrigin == Spec => []OneOrigin
<1>1. Origins => OneOrigin
  BY DEF Origins, Sound, OneOrigin, OneEach
<1> QED BY <1>1, AlwaysOrigins, PTL

(* _pending_operations never holds the id of a change that is not buffered, or *)
(* lacks that of one that is.                                                  *)
THEOREM AlwaysIndexed == Spec => []BufferIndexed
<1>1. Origins => BufferIndexed
  BY DEF Origins, Sound, BufferIndexed
<1> QED BY <1>1, AlwaysOrigins, PTL

(* What a replica was told is in its nodes or its buffer, however often, late  *)
(* or mixed with states it was told it.                                        *)
THEOREM NeverLost == Spec => []NothingLost
<1>1. Origins => NothingLost
  BY DEF Origins, Sound, NothingLost
<1> QED BY <1>1, AlwaysOrigins, PTL

(* An operation that will be ignored from now on has taken effect.             *)
THEOREM AppliedHasEffect == Spec => []AppliedTookEffect
<1>1. Origins => AppliedTookEffect
  BY DEF Origins, Sound, AppliedTookEffect
<1> QED BY <1>1, AlwaysOrigins, PTL

-----------------------------------------------------------------------------
(* Convergence.                                                                *)

(* The buffered changes a retry would look at.                                 *)
Waiting(r) == {c \in pending[r] : c.operation_id \notin applied[r]}

(* Of what a replica was told, its nodes and the waiting changes say all.      *)
LEMMA HeardIs ==
  ASSUME Shape, Origins, NEW r \in Client
  PROVE  /\ heard[r] = FactsOfNodes(nodes[r]) \cup FactsOfChanges(Waiting(r))
         /\ heard[r] \subseteq FactsOfChanges(changes)
         /\ Waiting(r) \subseteq changes /\ OneEach(Waiting(r))
<1> DEFINE done == {c \in pending[r] : c.operation_id \in applied[r]}
<1>1. pending[r] = done \cup Waiting(r) /\ pending[r] \subseteq changes
  BY DEF Waiting, Shape, TypeOK
<1>2. FactsOfChanges(pending[r]) = FactsOfChanges(done) \cup FactsOfChanges(Waiting(r))
  BY <1>1, ChangeFactsUnion
<1>3. FactsOfChanges(done) \subseteq FactsOfNodes(nodes[r])
  <2>1. \A c \in done : FactsOfChanges({c}) \subseteq FactsOfNodes(nodes[r])
    BY <1>1 DEF Origins, Sound
  <2> QED BY <2>1, ChangeFactsEach
<1>4. FactsOfChanges(pending[r]) \subseteq FactsOfChanges(changes)
  BY <1>1, ChangeFactsGrow
<1>5. /\ heard[r] = FactsOfNodes(nodes[r]) \cup FactsOfChanges(pending[r])
      /\ FactsOfNodes(nodes[r]) \subseteq FactsOfChanges(changes)
  BY DEF Origins, Sound
<1>6. Waiting(r) \subseteq changes /\ OneEach(Waiting(r))
  BY <1>1 DEF Origins, OneEach, Waiting
<1> QED BY <1>2, <1>3, <1>4, <1>5, <1>6

(* Nothing in the buffer can land just when every waiting change waits for an  *)
(* element that is not there.                                                  *)
LEMMA UnblockedIs ==
  Shape /\ Origins =>
     \A r \in Client : NothingUnblocked(r) <=> Blocked(DOMAIN nodes[r], Waiting(r))
<1> SUFFICES ASSUME Shape, Origins, NEW r \in Client
             PROVE  NothingUnblocked(r) <=> Blocked(DOMAIN nodes[r], Waiting(r))
  OBVIOUS
<1>1. Waiting(r) \subseteq Change /\ OneEach(Waiting(r))
  BY HeardIs DEF Shape, TypeOK
<1>2. NothingUnblocked(r) <=> Landed(DOMAIN nodes[r], Waiting(r)) = {}
  BY DEF NothingUnblocked, Waiting
<1> QED BY <1>1, <1>2, LandedNone

(* A replica that could not land any of its buffer shows the document of what  *)
(* it was told.                                                                *)
LEMMA SettledWhenUnblocked ==
  ASSUME Shape, Origins, NEW r \in Client, NothingUnblocked(r)
  PROVE  nodes[r] = Settled(heard[r])
<1>1. Blocked(DOMAIN nodes[r], Waiting(r))
  BY UnblockedIs
<1>2. /\ heard[r] = FactsOfNodes(nodes[r]) \cup FactsOfChanges(Waiting(r))
      /\ Waiting(r) \subseteq changes
  BY HeardIs
<1>3. /\ changes \subseteq Change /\ OneEach(changes) /\ IsNodeMap(nodes[r]) /\ Whole(nodes[r])
      /\ FactsOfNodes(nodes[r]) \subseteq FactsOfChanges(changes)
  BY DEF Shape, TypeOK, Origins, Sound
<1> QED BY <1>1, <1>2, <1>3, SettledIs

(* Replicas that were told the same hold the same document in the same order.  *)
THEOREM ReplicasConverge == Spec => []Convergence
<1>1. Shape /\ Origins => Convergence
  <2> SUFFICES ASSUME Shape, Origins, NEW r \in Client, NEW s \in Client,
                      heard[r] = heard[s], NothingUnblocked(r), NothingUnblocked(s)
               PROVE  nodes[r] = nodes[s] /\ children[r] = children[s]
    BY DEF Convergence
  <2>1. nodes[r] = nodes[s]
    BY SettledWhenUnblocked
  <2>2. children[r] = SiblingLists(nodes[r]) /\ children[s] = SiblingLists(nodes[s])
    BY DEF Origins, Sound
  <2> QED BY <2>1, <2>2
<1> QED BY <1>1, AlwaysOrigins, PTL

-----------------------------------------------------------------------------
(* Replicas that exchange changes only.                                        *)

(* They behave as replicas that may also exchange states.                      *)
LEMMA ChangesAreSteps == [Local \/ Exchange]_vars => [Next]_vars
  BY DEF Next

(* So their books hold too.                                                    *)
LEMMA AlwaysOriginsOfChanges == ChangeSpec => [](Shape /\ Origins)
<1>1. Init => Shape /\ Origins
  BY InitShape, InitOrigins
<1>2. (Shape /\ Origins) /\ [Local \/ Exchange]_vars => (Shape /\ Origins)'
  BY NextShape, NextOrigins, ChangesAreSteps
<1> QED BY <1>1, <1>2, PTL DEF ChangeSpec

(* apply() leaves nothing in the buffer that could land.                       *)
LEMMA ApplyLeavesBlocked ==
  ASSUME Shape, Origins, NEW r \in Client, NEW c \in Change,
         changes' = changes \cup {c}, OneEach(changes'), Apply(r, c),
         Blocked(DOMAIN nodes[r], Waiting(r))
  PROVE  Blocked(DOMAIN nodes'[r], Waiting(r)')
<1> DEFINE known  == DOMAIN nodes[r]
           batch  == Batch(r, c)
           landed == Landed(known, batch)
<1>1. /\ DOMAIN nodes = Client /\ DOMAIN applied = Client /\ DOMAIN pending = Client
      /\ changes' \subseteq Change /\ IsNodeMap(nodes[r]) /\ Closed(nodes[r])
      /\ pending[r] \subseteq changes
  BY DEF Shape, TypeOK, CausallyClosed
<1>2. CASE ApplyNow(r, c)
  <2>1. batch \subseteq Change /\ IsFiniteSet(batch) /\ OneEach(batch)
    BY <1>1, BatchIsChanges DEF Shape, OneEach
  <2>2. DOMAIN NodesAfter(nodes[r], landed) = known \cup Landing(known, Requested(batch))
    BY <1>1, <2>1, NodesAfterGrows
  <2>3. nodes'[r] = NodesAfter(nodes[r], landed) /\ pending'[r] = batch \ landed
    BY <1>1, <1>2 DEF ApplyNow
  <2>4. Blocked(DOMAIN nodes'[r], pending'[r])
    BY <2>1, <2>2, <2>3, LeftBehindWaits
  <2> QED BY <2>4 DEF Waiting, Blocked, Inserts, Deletes
<1>3. CASE ApplyLater(r, c)
  <2>1. /\ nodes' = nodes /\ applied' = applied
        /\ Waiting(r)' \subseteq Waiting(r) \cup {c}
    BY <1>1, <1>3 DEF ApplyLater, Waiting
  <2>2. Landed(known, {c}) = {}
    BY <1>3 DEF ApplyLater, Landed, Inserts, Deletes
  <2>3. Blocked(known, {c})
    BY <2>2, LandedNone DEF OneEach
  <2> QED BY <2>1, <2>3 DEF Blocked, Inserts, Deletes
<1>4. CASE ApplyAgain(r, c)
  BY <1>4 DEF ApplyAgain, Waiting
<1> QED BY <1>2, <1>3, <1>4 DEF Apply

(* No exchange of changes leaves a change in a buffer that could land.         *)
LEMMA NextBlocked ==
  Shape /\ Origins /\ BufferedOnlyWhileBlocked /\ [Local \/ Exchange]_vars
    => BufferedOnlyWhileBlocked'
<1> SUFFICES ASSUME Shape, Origins, BufferedOnlyWhileBlocked, [Local \/ Exchange]_vars
             PROVE  BufferedOnlyWhileBlocked'
  OBVIOUS
<1>1. Shape' /\ Origins'
  BY NextShape, NextOrigins, ChangesAreSteps
<1>2. \A r \in Client : Blocked(DOMAIN nodes[r], Waiting(r))
  BY UnblockedIs DEF BufferedOnlyWhileBlocked
<1>3. \A r \in Client : NothingUnblocked(r)' <=> Blocked(DOMAIN nodes'[r], Waiting(r)')
  <2>1. (Shape /\ Origins =>
          \A r \in Client : NothingUnblocked(r) <=> Blocked(DOMAIN nodes[r], Waiting(r)))'
    BY UnblockedIs, PTL
  <2> QED BY <1>1, <2>1
<1>4. ASSUME NEW r \in Client, NEW c \in Change, changes' = changes \cup {c}, Apply(r, c)
      PROVE  BufferedOnlyWhileBlocked'
  <2>1. OneEach(changes')
    BY <1>1 DEF Origins
  <2>2. Blocked(DOMAIN nodes'[r], Waiting(r)')
    BY <1>2, <1>4, <2>1, ApplyLeavesBlocked
  <2>3. ASSUME NEW q \in Client, q # r PROVE Blocked(DOMAIN nodes'[q], Waiting(q)')
    <3>1. nodes'[q] = nodes[q] /\ pending'[q] = pending[q] /\ applied'[q] = applied[q]
      BY <1>4, <2>3 DEF Apply, ApplyNow, ApplyLater, ApplyAgain, Shape, TypeOK
    <3> QED BY <1>2, <3>1 DEF Waiting
  <2> QED BY <1>3, <2>2, <2>3 DEF BufferedOnlyWhileBlocked
<1>5. CASE Local
  BY <1>4, <1>5, MadeChanges DEF Local, InsertAfter, Erase, Originate, Shape
<1>6. CASE Exchange
  <2>1. PICK r \in Client, c \in changes : Deliver(r, c)
    BY <1>6 DEF Exchange
  <2>2. c \in Change /\ changes' = changes \cup {c} /\ Apply(r, c)
    BY <2>1 DEF Deliver, Shape, TypeOK
  <2> QED BY <1>4, <2>2
<1>7. CASE UNCHANGED vars
  BY <1>2, <1>3, <1>7 DEF vars, rgaVars, Waiting, BufferedOnlyWhileBlocked
<1> QED BY <1>5, <1>6, <1>7

(* A change is only in a buffer while what it depends on is missing.           *)
THEOREM BufferedWhileBlocked == ChangeSpec => []BufferedOnlyWhileBlocked
<1>1. Init => BufferedOnlyWhileBlocked
  BY DEF Init, BufferedOnlyWhileBlocked, NothingUnblocked, Landed, Inserts, Deletes
<1>2. (Shape /\ Origins) /\ BufferedOnlyWhileBlocked /\ [Local \/ Exchange]_vars
        => BufferedOnlyWhileBlocked'
  BY NextBlocked
<1> QED BY <1>1, <1>2, AlwaysOriginsOfChanges, PTL DEF ChangeSpec

(* As long as no buffer holds a change that could land, every replica shows    *)
(* the document of the facts it was told.                                      *)
LEMMA ShownIsSettled ==
  Shape /\ Origins /\ BufferedOnlyWhileBlocked => \A r \in Client : nodes[r] = Settled(heard[r])
  BY SettledWhenUnblocked DEF BufferedOnlyWhileBlocked

(* Document reads RGA as it is read here.                                      *)
LEMMA PromiseReadsRGA ==
  /\ \A facts : Promise!Settled(facts) = Settled(facts)
  /\ \A S : Promise!Cardinality(S) = Cardinality(S)
<1>1. \A known, incoming : Promise!Landing(known, incoming) = Landing(known, incoming)
  BY DEF Landing, Promise!Landing, Saturated, Promise!Saturated, Head0, Promise!Head0
<1>2. \A facts : Promise!Told(facts) = Told(facts)
  BY DEF Told, Promise!Told, DeleteFact, Promise!DeleteFact
<1>3. \A facts : Promise!Settled(facts) = Settled(facts)
  BY <1>1, <1>2 DEF Settled, Promise!Settled, Restrict, Promise!Restrict
<1>4. \A S : Promise!Cardinality(S) = Cardinality(S)
  BY DEF Cardinality, Promise!Cardinality
<1> QED BY <1>3, <1>4

(* The constructor's document is that of no facts.                             *)
LEMMA InitDocument == Init => Promise!Init
<1> SUFFICES ASSUME Init PROVE Promise!Init
  OBVIOUS
<1>1. changes = {} /\ FactsOfChanges({}) = {}
  BY DEF Init, FactsOfChanges, Inserts, Deletes
<1>2. Settled({}) = [n \in {} |-> n]
  <2>1. DOMAIN Told({}) = {}
    BY DEF Told
  <2>2. Landing({}, Told({})) = {}
    BY <2>1 DEF Landing
  <2>3. DOMAIN Settled({}) = {} /\ Settled({}) = [n \in {} |-> Told({})[n]]
    BY <2>1, <2>2 DEF Settled, Restrict
  <2> QED BY <2>3
<1>3. nodes = [r \in Client |-> Settled({})]
  BY <1>2 DEF Init
<1> QED BY <1>1, <1>3, PromiseReadsRGA DEF Init, Promise!Init

(* A change says one thing.                                                    *)
LEMMA OneFact ==
  ASSUME NEW c \in Change
  PROVE  \E f : FactsOfChanges({c}) = {f}
<1>1. CASE c.type = "insert_op"
  <2>1. FactsOfChanges({c}) = {InsertFact(c.element_id, c)}
    BY <1>1 DEF FactsOfChanges, Inserts, Deletes
  <2> QED BY <2>1
<1>2. CASE c.type = "delete_op"
  <2>1. FactsOfChanges({c}) = {DeleteFact(c.element_id)}
    BY <1>2 DEF FactsOfChanges, Inserts, Deletes
  <2> QED BY <2>1
<1> QED BY <1>1, <1>2 DEF Change

(* apply() at r is r hearing of the change, and showing the document of what   *)
(* it has heard.                                                               *)
LEMMA ApplyHears ==
  ASSUME Shape, Origins, NEW r \in Client, NEW c \in Change,
         changes' = changes \cup {c}, Apply(r, c), nodes'[r] = Settled(heard'[r])
  PROVE  Promise!Next
<1>1. /\ DOMAIN nodes = Client /\ nodes = [q \in Client |-> nodes[q]]
      /\ DOMAIN heard = Client /\ heard' = [heard EXCEPT ![r] = @ \cup FactsOfChanges({c})]
  BY DEF Shape, TypeOK, Origins, Apply
<1>2. heard'[r] = heard[r] \cup FactsOfChanges({c})
  BY <1>1
<1>3. FactsOfChanges(changes') = FactsOfChanges(changes) \cup FactsOfChanges({c})
  BY ChangeFactsUnion
<1>4. heard[r] \subseteq FactsOfChanges(changes)
  BY HeardIs
<1>5. nodes' = [nodes EXCEPT ![r] = Settled(heard'[r])]
  BY <1>1 DEF Apply, ApplyNow, ApplyLater, ApplyAgain
<1>6. Promise!Hear(r)
  BY <1>1, <1>2, <1>3, <1>4, <1>5, PromiseReadsRGA DEF Promise!Hear
<1>7. Cardinality(FactsOfChanges(changes') \ FactsOfChanges(changes)) <= 1
  <2>1. PICK f : FactsOfChanges({c}) = {f}
    BY OneFact
  <2>2. FactsOfChanges(changes') \ FactsOfChanges(changes) \in SUBSET {f}
    BY <1>3, <2>1
  <2>3. IsFiniteSet({f}) /\ Cardinality({f}) = 1
    BY FS_Singleton
  <2> QED BY <2>2, <2>3, FS_Subset, FS_CardinalityType
<1> QED BY <1>6, <1>7, PromiseReadsRGA DEF Promise!Next

(* Every exchange of changes is a step of the document, or none.               *)
LEMMA NextDocument ==
  Shape /\ Origins /\ BufferedOnlyWhileBlocked /\ [Local \/ Exchange]_vars
    => [Promise!Next]_(Promise!docVars)
<1> SUFFICES ASSUME Shape, Origins, BufferedOnlyWhileBlocked, [Local \/ Exchange]_vars
             PROVE  [Promise!Next]_(Promise!docVars)
  OBVIOUS
<1>1. \A r \in Client : nodes'[r] = Settled(heard'[r])
  <2>1. Shape' /\ Origins' /\ BufferedOnlyWhileBlocked'
    BY NextShape, NextOrigins, NextBlocked, ChangesAreSteps
  <2>2. (Shape /\ Origins /\ BufferedOnlyWhileBlocked
           => \A r \in Client : nodes[r] = Settled(heard[r]))'
    BY ShownIsSettled, PTL
  <2> QED BY <2>1, <2>2
<1>2. CASE Local
  BY <1>1, <1>2, MadeChanges, ApplyHears DEF Local, InsertAfter, Erase, Originate, Shape
<1>3. CASE Exchange
  <2>1. PICK r \in Client, c \in changes : Deliver(r, c)
    BY <1>3 DEF Exchange
  <2>2. c \in Change /\ changes' = changes \cup {c} /\ Apply(r, c)
    BY <2>1 DEF Deliver, Shape, TypeOK
  <2> QED BY <1>1, <2>2, ApplyHears
<1>4. CASE UNCHANGED vars
  BY <1>4 DEF vars, rgaVars, Promise!docVars
<1> QED BY <1>2, <1>3, <1>4

(* Replicas that exchange changes only implement the abstract document.        *)
THEOREM DocumentImplemented == ChangeSpec => ImplementsDocument
<1>1. Init => Promise!Init
  BY InitDocument
<1>2. (Shape /\ Origins) /\ BufferedOnlyWhileBlocked /\ [Local \/ Exchange]_vars
        => [Promise!Next]_(Promise!docVars)
  BY NextDocument
<1> QED BY <1>1, <1>2, AlwaysOriginsOfChanges, BufferedWhileBlocked, PTL
        DEF ChangeSpec, ImplementsDocument, Promise!Spec

================================================================================

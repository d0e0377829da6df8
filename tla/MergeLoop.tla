------------------------------- MODULE MergeLoop -------------------------------
(***************************************************************************)
(* merge() one loop iteration at a time (text_rga.cpp, list_rga.cpp; the    *)
(* client's rgaMerge in app.js runs the same passes), called again and      *)
(* again with states that may hold anything: dangling or cyclic chains, and *)
(* nodes placed elsewhere than this replica has them.                       *)
(***************************************************************************)
EXTENDS RGA

CONSTANT Incoming    \* the states merge() may be given, as node maps

ASSUME IncomingAssumption == \A s \in Incoming : IsNodeMap(s)

VARIABLES
    nodes,      \* _nodes
    children,   \* _children
    applied,    \* _applied_operations, which merge() only adds to
    incoming,   \* other.nodes of the call in progress, by id
    todo,       \* ids of `pending` at or after the iterator
    kept,       \* ids of `pending` behind it, to be tried in the next pass
    progress,   \* made_progress
    before      \* history: nodes, children and applied when the call began

vars == <<nodes, children, applied, incoming, todo, kept, progress, before>>

-----------------------------------------------------------------------------
Now == [nodes |-> nodes, children |-> children, applied |-> applied]

\* The replica of the constructor, returned from a merge() of nothing.
Init ==
    /\ nodes = [n \in {} |-> n]
    /\ children = [p \in {Head0} |-> << >>]
    /\ applied = {}
    /\ incoming = [n \in {} |-> n]
    /\ todo = {} /\ kept = {} /\ progress = FALSE
    /\ before = Now

\* A pass that made no progress ends the loop, and the call.
Returned == todo = {} /\ ~progress

\* merge() is called.
Call(state) ==
    /\ Returned
    /\ incoming' = state
    /\ todo' = DOMAIN state
    /\ kept' = {}
    /\ progress' = FALSE
    /\ before' = Now
    /\ UNCHANGED <<nodes, children, applied>>

\* The node is known: OR the tombstone.
VisitKnown(n) ==
    /\ n \in DOMAIN nodes
    /\ nodes' = [nodes EXCEPT ![n].deleted = @ \/ incoming[n].deleted]
    /\ progress' = TRUE
    /\ UNCHANGED <<children, applied, kept>>

\* [mutant] A pass over blocked nodes counts as progress.
VisitBlockedBusy(n) ==
    /\ n \notin DOMAIN nodes
    /\ incoming[n].previous_id \notin DOMAIN nodes \cup {Head0}
    /\ kept' = kept \cup {n}
    /\ progress' = TRUE
    /\ UNCHANGED <<nodes, children, applied>>

\* Its predecessor is missing: leave it for the next pass.
VisitBlocked(n) ==
    /\ n \notin DOMAIN nodes
    /\ incoming[n].previous_id \notin DOMAIN nodes \cup {Head0}
    /\ kept' = kept \cup {n}
    /\ UNCHANGED <<nodes, children, applied, progress>>

\* [mutant] Landing a node does not count as progress.
VisitReadyOnce(n) ==
    /\ n \notin DOMAIN nodes
    /\ incoming[n].previous_id \in DOMAIN nodes \cup {Head0}
    /\ nodes' = [m \in DOMAIN nodes \cup {n} |->
                    IF m = n THEN incoming[n] ELSE nodes[m]]
    /\ children' = ChildrenWith(children, [m \in {n} |-> incoming[m]])
    /\ applied' = applied \cup {n}
    /\ UNCHANGED <<kept, progress>>

\* Its predecessor is there: copy it as it comes, tombstone included.
VisitReady(n) ==
    /\ n \notin DOMAIN nodes
    /\ incoming[n].previous_id \in DOMAIN nodes \cup {Head0}
    /\ nodes' = [m \in DOMAIN nodes \cup {n} |->
                    IF m = n THEN incoming[n] ELSE nodes[m]]
    /\ children' = ChildrenWith(children, [m \in {n} |-> incoming[m]])
    /\ applied' = applied \cup {n}
    /\ progress' = TRUE
    /\ UNCHANGED kept

\* One iteration of the inner loop.  other.nodes comes from an unordered_map, so
\* any node may be next.
Visit(n) ==
    /\ VisitKnown(n) \/ VisitBlocked(n) \/ VisitReady(n)
    /\ todo' = todo \ {n}
    /\ UNCHANGED <<incoming, before>>

\* The inner loop ran out and the outer one goes on.
NextPass ==
    /\ todo = {} /\ progress
    /\ todo' = kept
    /\ kept' = {}
    /\ progress' = FALSE
    /\ UNCHANGED <<nodes, children, applied, incoming, before>>

Loop == NextPass \/ \E n \in todo : Visit(n)

Next == Loop \/ \E state \in Incoming : Call(state)

\* The call runs on a thread that is not blocked, so the loop keeps going.
Spec == Init /\ [][Next]_vars /\ WF_vars(Loop)

-----------------------------------------------------------------------------
\* The replica is well formed, and every node and the head have a sibling list,
\* so the walk that renders it finds one wherever it descends.
TypeOK ==
    /\ IsNodeMap(nodes)
    /\ IsSiblingMap(children)
    /\ DOMAIN children = DOMAIN nodes \cup {Head0}
    /\ applied \in SUBSET Id
    /\ IsNodeMap(incoming)
    /\ todo \in SUBSET DOMAIN incoming
    /\ kept \in SUBSET DOMAIN incoming
    /\ progress \in BOOLEAN
    /\ before.applied \in SUBSET Id
    /\ IsNodeMap(before.nodes)
    /\ IsSiblingMap(before.children)

\* However the incoming nodes are ordered, when merge() returns the replica holds
\* what it held plus the largest part of the incoming state whose chains resolve,
\* tombstones OR-ed: the single step RGAReplicas takes for it.  A node that the
\* passes gave up too early on, or took with a chain that never reaches the head,
\* would make it false.
MergeIsOneStep ==
    Returned =>
        /\ nodes = NodesMerged(before.nodes, incoming)
        /\ children = ChildrenWith(before.children, NewNodes(before.nodes, nodes))
        /\ applied = before.applied \cup (DOMAIN nodes \ DOMAIN before.nodes)

\* What every iteration keeps, with Visited the nodes the call is done with: what
\* was there is there with the tombstones seen so far, what was added may land
\* and is as it came, and after a pass without progress what is left is blocked.
Visited == DOMAIN incoming \ (todo \cup kept)

LoopInv ==
    /\ Closed(nodes)
    /\ todo \cap kept = {}
    /\ kept \cap DOMAIN nodes = {}
    /\ Visited \subseteq DOMAIN nodes
    /\ DOMAIN before.nodes \subseteq DOMAIN nodes
    /\ DOMAIN nodes \ DOMAIN before.nodes
          \subseteq Visited \cap Landing(DOMAIN before.nodes, incoming)
    /\ \A n \in DOMAIN nodes :
          nodes[n] = IF n \in DOMAIN before.nodes
                     THEN [before.nodes[n] EXCEPT
                             !.deleted = @ \/ (n \in Visited /\ incoming[n].deleted)]
                     ELSE incoming[n]
    /\ ~progress => \A n \in kept :
                       incoming[n].previous_id \notin DOMAIN nodes \cup {Head0}
    /\ children = ChildrenWith(before.children, NewNodes(before.nodes, nodes))
    /\ applied = before.applied \cup (DOMAIN nodes \ DOMAIN before.nodes)

\* The passes end, whatever the incoming state: a dangling chain or a cycle among
\* nodes that cannot land does not keep the loop sweeping.
MergeReturns == []<>Returned

==============================================================================

----------------------------- MODULE RGAReplicas -----------------------------
(***************************************************************************)
(* Replicas of one RGA (list_rga.cpp, text_rga.cpp) that exchange changes   *)
(* and whole states.  Every change a replica ever returned may reach any    *)
(* replica, at any time, in any order, any number of times or never; a      *)
(* state() snapshot may be merged long after it was taken, and again.       *)
(***************************************************************************)
EXTENDS RGA

CONSTANT MaxChanges   \* bound: how many changes the replicas create in all

ASSUME MaxChangesAssumption == MaxChanges \in Nat

VARIABLES
    sequence,    \* _local_sequence of each replica
    nodes,       \* _nodes: id -> [previous_id, value, deleted]
    children,    \* _children: id or head -> sorted ids
    applied,     \* _applied_operations
    pending,     \* _pending_changes, whose order no result depends on
    pendingOps,  \* _pending_operations
    changes,     \* every change a local operation returned
    snapshot,    \* the last state() taken of each replica
    heard        \* history: the facts each replica was ever told; no action reads it

rgaVars == <<sequence, nodes, children, applied, pending, pendingOps>>
vars == <<rgaVars, changes, snapshot, heard>>

-----------------------------------------------------------------------------
Init ==
    /\ sequence = [r \in Client |-> 0]
    /\ nodes = [r \in Client |-> [n \in {} |-> n]]
    /\ children = [r \in Client |-> [p \in {Head0} |-> << >>]]
    /\ applied = [r \in Client |-> {}]
    /\ pending = [r \in Client |-> {}]
    /\ pendingOps = [r \in Client |-> {}]
    /\ changes = {}
    /\ snapshot = [r \in Client |-> [n \in {} |-> n]]
    /\ heard = [r \in Client |-> {}]

\* The changes replica r may land now: c and what it has buffered, less the
\* buffered operations already applied.
Batch(r, c) == {c} \cup {d \in pending[r] : d.operation_id \notin applied[r]}

\* [mutant] apply() without retry_pending_changes().
ApplyNowNoRetry(r, c) ==
    LET after == NodesAfter(nodes[r], {c})
    IN  /\ c.operation_id \notin applied[r]
        /\ c \in Landed(DOMAIN nodes[r], {c})
        /\ nodes' = [nodes EXCEPT ![r] = after]
        /\ children' = [children EXCEPT ![r] =
                            ChildrenWith(@, NewNodes(nodes[r], after))]
        /\ applied' = [applied EXCEPT ![r] = @ \cup {c.operation_id}]
        /\ UNCHANGED <<pending, pendingOps>>

\* [mutant] retry_pending_changes() without _pending_operations.erase().
ApplyNowKeepIndex(r, c) ==
    LET landed == Landed(DOMAIN nodes[r], Batch(r, c))
        after  == NodesAfter(nodes[r], landed)
    IN  /\ c.operation_id \notin applied[r]
        /\ c \in Landed(DOMAIN nodes[r], {c})
        /\ nodes' = [nodes EXCEPT ![r] = after]
        /\ children' = [children EXCEPT ![r] =
                            ChildrenWith(@, NewNodes(nodes[r], after))]
        /\ applied' = [applied EXCEPT ![r] = @ \cup OperationIds(landed)]
        /\ pending' = [pending EXCEPT ![r] = Batch(r, c) \ landed]
        /\ UNCHANGED pendingOps

\* apply(), dependencies present: c lands, then retry_pending_changes() lands
\* everything in the buffer that is no longer blocked and drops what was
\* already applied.
ApplyNow(r, c) ==
    LET landed == Landed(DOMAIN nodes[r], Batch(r, c))
        after  == NodesAfter(nodes[r], landed)
        kept   == Batch(r, c) \ landed
    IN  /\ c.operation_id \notin applied[r]
        /\ c \in Landed(DOMAIN nodes[r], {c})
        /\ nodes' = [nodes EXCEPT ![r] = after]
        /\ children' = [children EXCEPT ![r] =
                            ChildrenWith(@, NewNodes(nodes[r], after))]
        /\ applied' = [applied EXCEPT ![r] = @ \cup OperationIds(landed)]
        /\ pending' = [pending EXCEPT ![r] = kept]
        /\ pendingOps' = [pendingOps EXCEPT ![r] =
                            @ \ (OperationIds(pending[r]) \ OperationIds(kept))]

\* [mutant] The operation is marked applied as soon as it is buffered.
ApplyLaterMarked(r, c) ==
    /\ c.operation_id \notin applied[r]
    /\ c \notin Landed(DOMAIN nodes[r], {c})
    /\ pending' = [pending EXCEPT ![r] = @ \cup {c}]
    /\ pendingOps' = [pendingOps EXCEPT ![r] = @ \cup {c.operation_id}]
    /\ applied' = [applied EXCEPT ![r] = @ \cup {c.operation_id}]
    /\ UNCHANGED <<nodes, children>>

\* apply(), predecessor or target not seen yet: buffer, unless buffered before.
ApplyLater(r, c) ==
    /\ c.operation_id \notin applied[r]
    /\ c \notin Landed(DOMAIN nodes[r], {c})
    /\ pending' = [pending EXCEPT ![r] =
                      IF c.operation_id \in pendingOps[r] THEN @ ELSE @ \cup {c}]
    /\ pendingOps' = [pendingOps EXCEPT ![r] = @ \cup {c.operation_id}]
    /\ UNCHANGED <<nodes, children, applied>>

\* apply(), operation already applied: nothing happens.
ApplyAgain(r, c) ==
    /\ c.operation_id \in applied[r]
    /\ UNCHANGED <<nodes, children, applied, pending, pendingOps>>

Apply(r, c) ==
    /\ ApplyNow(r, c) \/ ApplyLater(r, c) \/ ApplyAgain(r, c)
    /\ heard' = [heard EXCEPT ![r] = @ \cup FactsOfChanges({c})]

\* [mutant] The sequence number is used but not advanced.
OriginateStale(r, c) ==
    /\ Cardinality(changes) < MaxChanges
    /\ changes' = changes \cup {c}
    /\ Apply(r, c)
    /\ UNCHANGED <<sequence, snapshot>>

\* A local operation: next_id(), apply() to oneself, hand the change out.
Originate(r, c) ==
    /\ Cardinality(changes) < MaxChanges
    /\ sequence' = [sequence EXCEPT ![r] = @ + 1]
    /\ changes' = changes \cup {c}
    /\ Apply(r, c)
    /\ UNCHANGED snapshot

\* insert_after(), and insert_at_beginning() when previous is the head.
InsertAfter(r, previous, v) ==
    /\ previous \in DOMAIN nodes[r] \cup {Head0}
    /\ Originate(r, InsertChange(NextId(r, sequence[r]), previous, v))

\* erase(); a tombstoned element is still known and may be erased again.
Erase(r, element) ==
    /\ element \in DOMAIN nodes[r]
    /\ Originate(r, DeleteChange(NextId(r, sequence[r]), element))

\* A change reaches replica r.
Deliver(r, c) ==
    /\ c \in changes
    /\ Apply(r, c)
    /\ UNCHANGED <<sequence, changes, snapshot>>

\* state()
TakeState(r) ==
    /\ snapshot' = [snapshot EXCEPT ![r] = nodes[r]]
    /\ UNCHANGED <<rgaVars, changes, heard>>

\* merge(): landed ids count as applied, the buffer is left alone.
Merge(r, incoming) ==
    LET merged == NodesMerged(nodes[r], incoming)
        fresh  == NewNodes(nodes[r], merged)
    IN  /\ nodes' = [nodes EXCEPT ![r] = merged]
        /\ children' = [children EXCEPT ![r] = ChildrenWith(@, fresh)]
        /\ applied' = [applied EXCEPT ![r] = @ \cup DOMAIN fresh]
        /\ heard' = [heard EXCEPT ![r] = @ \cup FactsOfNodes(incoming)]
        /\ UNCHANGED <<sequence, pending, pendingOps, changes, snapshot>>

Local == \E r \in Client :
            \/ \E previous \in DOMAIN nodes[r] \cup {Head0}, v \in Value :
                  InsertAfter(r, previous, v)
            \/ \E element \in DOMAIN nodes[r] : Erase(r, element)

Exchange == \E r \in Client, c \in changes : Deliver(r, c)

StateSync == \E r \in Client :
                \/ TakeState(r)
                \/ \E s \in Client : Merge(r, snapshot[s])

Next == Local \/ Exchange \/ StateSync

Spec == Init /\ [][Next]_vars

\* Replicas that exchange changes only.
ChangeSpec == Init /\ [][Local \/ Exchange]_vars

-----------------------------------------------------------------------------
(* What must hold. *)

\* Every part of a replica is well formed, and what it buffers is a change some
\* replica made.
TypeOK ==
    /\ sequence \in [Client -> Nat]
    /\ DOMAIN nodes = Client /\ \A r \in Client : IsNodeMap(nodes[r])
    /\ DOMAIN snapshot = Client /\ \A r \in Client : IsNodeMap(snapshot[r])
    /\ DOMAIN children = Client /\ \A r \in Client : IsSiblingMap(children[r])
    /\ applied \in [Client -> SUBSET Id]
    /\ pending \in [Client -> SUBSET changes]
    /\ pendingOps \in [Client -> SUBSET Id]
    /\ changes \in SUBSET Change /\ IsFiniteSet(changes)

\* Every element a replica holds or ships has its whole chain of predecessors
\* there too, so a walk from the head reaches it and a merge never drops it.
CausallyClosed == \A r \in Client : Closed(nodes[r]) /\ Closed(snapshot[r])

\* One operation id never names two changes, and no replica holds or ships an
\* element, a value or a tombstone that no local operation made: whoever holds
\* an id agrees on its place and value.
OneOrigin ==
    /\ \A c, d \in changes : c.operation_id = d.operation_id => c = d
    /\ \A r \in Client :
          FactsOfNodes(nodes[r]) \cup FactsOfNodes(snapshot[r])
              \subseteq FactsOfChanges(changes)

\* _children, kept up by hand beside _nodes, is exactly the sorted tree of the
\* previous_ids: no element is missing from the walk, listed twice, or listed
\* out of order, whatever the order of arrival.
ChildrenMirrorNodes == \A r \in Client : Mirrors(children[r], nodes[r])

\* _pending_operations is the index of _pending_changes: an id left behind in it
\* would make apply() discard a redelivered change for ever.
BufferIndexed == \A r \in Client : pendingOps[r] = OperationIds(pending[r])

\* Whatever a replica was told, by a change or by a state, is in its nodes or
\* still in its buffer; and it holds nothing it was not told.
NothingLost ==
    \A r \in Client :
        heard[r] = FactsOfNodes(nodes[r]) \cup FactsOfChanges(pending[r])

\* An operation marked applied has taken effect, so ignoring its redelivery is
\* harmless.
AppliedTookEffect ==
    \A r \in Client, c \in changes :
        c.operation_id \in applied[r] =>
            FactsOfChanges({c}) \subseteq FactsOfNodes(nodes[r])

\* No buffered change of replica r could land as things stand.
NothingUnblocked(r) ==
    Landed(DOMAIN nodes[r], {c \in pending[r] : c.operation_id \notin applied[r]}) = {}

\* Replicas that were told the same, in whatever order and by whatever mix of
\* changes and states, hold the same document in the same order.
Convergence ==
    \A r, s \in Client :
        heard[r] = heard[s] /\ NothingUnblocked(r) /\ NothingUnblocked(s) =>
            nodes[r] = nodes[s] /\ children[r] = children[s]

\* "operations that arrive before their dependency are buffered and retried once
\* it lands": a change is only in the buffer while its dependency is missing.
BufferedOnlyWhileBlocked == \A r \in Client : NothingUnblocked(r)

\* "operations that arrive before their dependency are buffered and retried once
\* it lands" (list_rga.hpp:9-10), by what a user sees of it: an operation a replica
\* was told of has taken effect as soon as its whole chain is there.
ToldIsShown == \A r \in Client : nodes[r] = Settled(heard[r])

\* Replicas that exchange changes only implement the abstract document: at every
\* moment what they hold is what they were told, with its chain complete.
Promise == INSTANCE Document WITH made <- FactsOfChanges(changes), document <- nodes
ImplementsDocument == Promise!Spec

\* No step forgets an element or brings a deleted one back.
NoResurrection ==
    [][\A r \in Client : \A n \in DOMAIN nodes[r] :
          /\ n \in DOMAIN nodes'[r]
          /\ nodes[r][n].deleted => nodes'[r][n].deleted]_vars

=============================================================================

----------------------------- MODULE ReplicaLoops -----------------------------
(***************************************************************************)
(* One replica and all its loops (text_rga.cpp, list_rga.cpp): calls of      *)
(* merge(), one iteration of its passes at a time as MergeLoop has them, and  *)
(* calls of apply(), one iteration of retry_pending_changes() at a time, in   *)
(* any order, with any changes and states, and the walk that renders what is  *)
(* there when a call has returned.                                            *)
(***************************************************************************)
EXTENDS MergeLoop, Render

CONSTANT Changes     \* the changes apply() may be given

ASSUME ChangesAssumption ==
    /\ Changes \subseteq Change
    /\ \A c, d \in Changes : c.operation_id = d.operation_id => c = d

VARIABLES
    pending,     \* _pending_changes
    pendingOps,  \* _pending_operations
    sweeping,    \* inside retry_pending_changes()
    ahead,       \* changes at or after its iterator
    swept,       \* its made_progress
    began        \* history: the replica and the change when apply() began

merging == <<incoming, todo, kept, progress, before>>
buffer == <<pending, pendingOps>>
sweep == <<sweeping, ahead, swept, began>>
loopVars == <<vars, buffer, sweep>>

-----------------------------------------------------------------------------
LoopsInit ==
    /\ Init
    /\ pending = {} /\ pendingOps = {}
    /\ sweeping = FALSE /\ ahead = {} /\ swept = FALSE
    /\ began = [nodes |-> nodes, children |-> children, applied |-> {}, batch |-> {}]

\* No call is running.
Idle == Returned /\ ~sweeping

\* The causal predecessor of an insert, the target of a delete.
DependencyPresent(c) ==
    IF c.type = "insert_op" THEN c.previous_id \in DOMAIN nodes \cup {Head0}
    ELSE c.element_id \in DOMAIN nodes

\* try_apply_change() when it returns true.
TryApplyChange(c) ==
    /\ DependencyPresent(c)
    /\ nodes' = NodesAfter(nodes, {c})
    /\ children' = ChildrenWith(children, NewNodes(nodes, NodesAfter(nodes, {c})))

\* History: with the first change that lands, the last merge() is forgotten.
ForgetMerge ==
    /\ incoming' = [n \in {} |-> n] /\ kept' = {}
    /\ before' = [nodes |-> nodes', children |-> children', applied |-> applied']
    /\ UNCHANGED <<todo, progress>>

\* apply(c) lands and starts the sweeps over the buffer.
ApplyNow(c) ==
    /\ Idle /\ c.operation_id \notin applied
    /\ TryApplyChange(c)
    /\ applied' = applied \cup {c.operation_id}
    /\ sweeping' = TRUE /\ ahead' = pending /\ swept' = FALSE
    /\ began' = [nodes |-> nodes, children |-> children, applied |-> applied,
                 batch |-> {c} \cup {d \in pending : d.operation_id \notin applied}]
    /\ ForgetMerge
    /\ UNCHANGED buffer

\* apply(c) is blocked and buffers c once.
ApplyLater(c) ==
    /\ Idle /\ c.operation_id \notin applied
    /\ ~DependencyPresent(c)
    /\ pending' = IF c.operation_id \in pendingOps THEN pending ELSE pending \cup {c}
    /\ pendingOps' = pendingOps \cup {c.operation_id}
    /\ UNCHANGED <<vars, sweep>>

\* [mutant] A change that leaves the buffer does not count as progress.
LeaveQuietly(d) ==
    /\ pending' = pending \ {d}
    /\ pendingOps' = pendingOps \ {d.operation_id}
    /\ ahead' = ahead \ {d}
    /\ UNCHANGED <<sweeping, swept, began>>

\* The buffered change at the iterator was applied meanwhile, or landed now.
Leave(d) ==
    /\ pending' = pending \ {d}
    /\ pendingOps' = pendingOps \ {d.operation_id}
    /\ ahead' = ahead \ {d}
    /\ swept' = TRUE
    /\ UNCHANGED <<sweeping, began>>

RetryApplied(d) ==
    /\ d.operation_id \in applied
    /\ Leave(d)
    /\ UNCHANGED vars

RetryNow(d) ==
    /\ d.operation_id \notin applied
    /\ TryApplyChange(d)
    /\ applied' = applied \cup {d.operation_id}
    /\ Leave(d)
    /\ ForgetMerge

RetryLater(d) ==
    /\ d.operation_id \notin applied
    /\ ~DependencyPresent(d)
    /\ ahead' = ahead \ {d}
    /\ UNCHANGED <<vars, buffer, sweeping, swept, began>>

\* [mutant] The sweep is repeated while anything is buffered.
NextSweepWhilePending ==
    /\ ahead = {}
    /\ sweeping' = (pending # {})
    /\ ahead' = pending
    /\ swept' = FALSE
    /\ UNCHANGED <<vars, buffer, began>>

\* The end of a sweep: another one if it made progress, else apply() returns.
NextSweep ==
    /\ ahead = {}
    /\ sweeping' = swept
    /\ ahead' = IF swept THEN pending ELSE {}
    /\ swept' = FALSE
    /\ UNCHANGED <<vars, buffer, began>>

Retry ==
    /\ sweeping
    /\ NextSweep \/ \E d \in ahead : RetryApplied(d) \/ RetryNow(d) \/ RetryLater(d)

\* merge(), which leaves the buffer alone.
Merge ==
    /\ ~sweeping
    /\ Next
    /\ UNCHANGED <<buffer, sweep>>

LoopsNext == Merge \/ Retry \/ \E c \in Changes : ApplyNow(c) \/ ApplyLater(c)

\* Calls run on a thread that is not blocked, so their loops keep going.
LoopsSpec ==
    /\ LoopsInit /\ [][LoopsNext]_loopVars
    /\ WF_loopVars(Loop /\ UNCHANGED <<buffer, sweep>>) /\ WF_loopVars(Retry)

-----------------------------------------------------------------------------
\* When the sweeps stop, exactly the changes whose chain resolves have landed,
\* however the buffer is ordered, and the others are still buffered: the single
\* step RGAReplicas takes for apply().  A merge() in between may have landed what
\* a buffered change waited for, or the change itself.
ApplyIsOneStep ==
    LET landed == Landed(DOMAIN began.nodes, began.batch)
    IN  sweeping /\ ahead = {} /\ ~swept =>
            /\ nodes = NodesAfter(began.nodes, landed)
            /\ children = ChildrenWith(began.children, NewNodes(began.nodes, nodes))
            /\ applied = began.applied \cup OperationIds(landed)
            /\ pending = began.batch \ landed
            /\ pendingOps = OperationIds(pending)

\* The sweeps end even when some buffered change stays blocked for ever.
ApplyReturns == []<>~sweeping

\* Whatever mix of calls made the replica, the walk ends, and emits every live
\* element once, deleted ancestors notwithstanding, in the order fixed by ids and
\* predecessors alone.  A page that holds the same nodes shows the same.
WalkIsDocumentOrder ==
    Idle =>
        LET walk == Walked(nodes, children)
        IN  /\ walk.stack = << >>
            /\ Range(walk.output) = Visible(nodes)
            /\ \A i, j \in DOMAIN walk.output :
                  i < j => Precedes(nodes, walk.output[i], walk.output[j])
            /\ walk.output = RenderedIds(nodes, children)

==============================================================================
